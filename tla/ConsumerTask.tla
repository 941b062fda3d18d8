----------------------------- MODULE ConsumerTask -----------------------------
(***************************************************************************)
(* One WASM consumer on the durable bus: its task                          *)
(* (brenn-wasm-dispatch/src/lib.rs), the callers that wait on it           *)
(* (brenn-server/src/messaging_router.rs), the reload that replaces it     *)
(* (brenn-bootstrap/src/reload/commit.rs) and a crash of the process.      *)
(*                                                                         *)
(* A step of the task is one activation: cut a window per port, advance    *)
(* every position, run the guest, dispose of the outcome.  Each of these   *)
(* is a lock hold of its own, so publishers, releases, wakes, callers, the *)
(* reload and a crash come between any two.  The activation pacer only     *)
(* delays and is left out.                                                 *)
(***************************************************************************)
EXTENDS DurableBus, Sequences

CONSTANTS
    Callers,        \* sync callers, each with one call to make
    QueueDepth,     \* SYNC_REQUEST_QUEUE_DEPTH
    PushDepth       \* push_depth of every port

ASSUME TaskBounds ==
    /\ Channels \subseteq Nat      \* the ports, in the order the manifest has them
    /\ QueueDepth \in Nat \ {0} /\ PushDepth \in Nat \ {0} /\ None \notin Callers

VARIABLES
    step,           \* where the task is
    cause,          \* why this activation runs (Wake), until its windows are read
    left,           \* ports left in the walk it is in
    snap,           \* the snapshots, by port
    drain_now,      \* the clock reading of this activation
    view,           \* deferred_ids: the parked messages the guest was shown
    out,            \* what the guest asked for and the host has not done yet
    stop,           \* the stop signal
    queue,          \* the request channel
    closed,         \* whether its receiver is closed or dropped
    serving,        \* the caller this activation serves, None when it has none
    call,           \* how each caller's call stands
    fate            \* history: what became of each message the position passed

activation == <<cause, left, snap, drain_now, view, out>>
calls == <<queue, closed, serving, call>>
taskvars == <<step, activation, stop, calls, fate>>
vars == <<busvars, taskvars>>

Messages == 1..MaxMessages
Empty == [new |-> {}, passed |-> {}, through |-> None]
Nothing == [op |-> "none", target |-> None, publish |-> FALSE, release |-> None]
Waiting == {"sending", "queued", "served"}

-----------------------------------------------------------------------------
(* Callers *)

\* sync_call: the binding is looked up once, and the request goes to the queue
\* found there, be it closed in the meantime.
SyncCall(k) ==
    /\ call[k] = "idle"
    /\ call' = [call EXCEPT ![k] = IF service = "gone" \/ closed THEN "over" ELSE "sending"]
    /\ UNCHANGED <<busvars, step, activation, stop, queue, closed, serving, fate>>

Enqueue(k) ==
    /\ call[k] = "sending" /\ Len(queue) < QueueDepth
    /\ call' = [call EXCEPT ![k] = "queued"]
    /\ queue' = Append(queue, k)
    /\ UNCHANGED <<busvars, step, activation, stop, closed, serving, fate>>

\* What becomes of the calls when the receiver goes: a pending send fails, and
\* a dropped reply is a refusal like an explicit one.  What a caller is told is
\* not distinguished, only that its wait is over.
RefusePending ==
    /\ closed' = TRUE /\ queue' = << >> /\ serving' = None
    /\ call' = [k \in Callers |-> IF call[k] \in Waiting THEN "over" ELSE call[k]]

\* answer_sync: after the disposition, and only when the activation has a caller.
AnswerSync ==
    /\ serving' = None
    /\ call' = [k \in Callers |-> IF k = serving THEN "over" ELSE call[k]]
    /\ UNCHANGED <<queue, closed>>

-----------------------------------------------------------------------------
(* The task: what it waits for *)

BeginActivation(why) ==
    /\ step' = "window" /\ cause' = why
    /\ left' = Channels
    /\ snap' = [c \in Channels |-> Empty]

EndActivation ==
    /\ step' = "idle" /\ cause' = "none"
    /\ left' = {} /\ snap' = [c \in Channels |-> Empty]
    /\ drain_now' = None /\ view' = {} /\ out' = Nothing

TakeNotify ==
    /\ step = "idle" /\ Notified
    /\ step' = "probe"
    /\ UNCHANGED <<activation, stop, calls, fate>>

TakeRequest ==
    /\ step = "idle" /\ queue # << >>
    /\ BeginActivation("sync")
    /\ serving' = Head(queue) /\ queue' = Tail(queue)
    /\ call' = [call EXCEPT ![Head(queue)] = "served"]
    /\ UNCHANGED <<busvars, drain_now, view, out, stop, closed, fate>>

\* The stop is looked at between activations only.
TakeStop ==
    /\ step = "idle" /\ stop
    /\ step' = "stopped"
    /\ RefusePending
    /\ UNCHANGED <<busvars, activation, stop, fate>>

\* The gate of load_activation_snapshot: the ports are probed in turn until one
\* is ready.
Probe ==
    /\ step = "probe"
    /\ IF \E c \in Channels : HasDeliverable(c)
       THEN BeginActivation("delivery")
       ELSE step' = "idle" /\ UNCHANGED <<cause, left, snap>>
    /\ UNCHANGED <<busvars, drain_now, view, out, stop, calls, fate>>

-----------------------------------------------------------------------------
(* The task: one activation *)

\* The window of one port: the newest PushDepth unseen messages are new, and
\* older unseen ones are context or counted as dropped.
Window(c) ==
    LET newer(m) == {n \in Unseen(c) : rows[n].seq > rows[m].seq}
        new == {m \in Unseen(c) : Cardinality(newer(m)) < PushDepth}
        seqs == {rows[m].seq : m \in Retained(c)}
    IN  [new |-> new, passed |-> Unseen(c) \ new,
         through |-> IF seqs = {} THEN None ELSE Max(seqs)]

\* window_activation_ports: one read per port.  A delivery that turns out to
\* carry nothing new is no activation.
WindowPort(c) ==
    LET read == [snap EXCEPT ![c] = Window(c)]
    IN  /\ step = "window" /\ c = Min(left)
        /\ IF left = {c} /\ cause = "delivery" /\ \A p \in Channels : read[p].new = {}
           THEN EndActivation
           ELSE /\ snap' = read
                /\ left' = IF left = {c} THEN Channels ELSE left \ {c}
                /\ step' = IF left = {c} THEN "advance" ELSE "window"
                /\ cause' = IF left = {c} THEN "none" ELSE cause
                /\ UNCHANGED <<drain_now, view, out>>
        /\ UNCHANGED <<busvars, stop, calls, fate>>

\* Every port's position moves over its window before the guest runs.
AdvancePort(c) ==
    /\ step = "advance" /\ c = Min(left)
    /\ Advance(c, snap[c].through)
    /\ left' = left \ {c}
    /\ step' = IF left = {c} THEN "start" ELSE "advance"
    /\ UNCHANGED <<cause, snap, drain_now, view, out, stop, calls, fate>>

Passed(m) ==
    m \in DOMAIN rows /\ rows[m].seq # None /\ rows[m].seq < next_owed[rows[m].channel]
InSnap(m) == \E c \in Channels : m \in snap[c].new \union snap[c].passed
NewInSnap(m) == \E c \in Channels : m \in snap[c].new

\* One clock reading, the component's own parked messages by identity, and the
\* guest is run on them and the windows.
GuestStarts ==
    /\ step = "start"
    /\ step' = "running"
    /\ drain_now' = now
    /\ view' = {m \in Parked : rows[m].sender = Component}
    /\ fate' = [m \in Messages |-> IF NewInSnap(m) THEN "handed"
                                   ELSE IF InSnap(m) THEN "settled" ELSE fate[m]]
    /\ UNCHANGED <<busvars, cause, left, snap, out, stop, calls>>

\* At most one deferred operation, on a message the guest was shown.
DeferredOps == {<<"none", None>>} \union ({"cancel", "edit"} \X view)

\* The guest returns ok with at most one deferred operation and one publish.
GuestOk(op, publish, r) ==
    /\ step = "running"
    /\ out' = [op |-> op[1], target |-> op[2], publish |-> publish, release |-> r]
    /\ step' = "ops"
    /\ fate' = [n \in Messages |-> IF NewInSnap(n) THEN "settled" ELSE fate[n]]
    /\ snap' = [c \in Channels |-> Empty] /\ view' = {}
    /\ UNCHANGED <<busvars, cause, left, drain_now, stop, calls>>

\* apply_deferred_ops: a target past its release by the drain's clock, or gone,
\* is a logged no-op.
ApplyDeferredOp ==
    /\ step = "ops"
    /\ step' = "flush"
    /\ out' = [out EXCEPT !.op = "none", !.target = None]
    /\ \/ out.op = "cancel" /\ CancelDeferred(Component, out.target, drain_now)
       \/ out.op = "edit" /\ \E r \in Time : EditDeferred(Component, out.target, r, drain_now)
       \/ /\ out.op = "none" \/ ~OwnedDeferred(Component, out.target, drain_now)
          /\ UNCHANGED busvars
    /\ UNCHANGED <<cause, left, snap, drain_now, view, stop, calls, fate>>

\* publish_from_wasm: one transaction, on its own clock reading; a scheduled
\* publish over the channel's cap is dropped with a warning.
FlushPublish ==
    /\ step = "flush"
    /\ step' = "reply"
    /\ out' = Nothing
    /\ IF out.publish /\ minted < MaxMessages
       THEN \E c \in Channels, t \in drain_now..now :
               \/ Publish(Component, c, out.release, None, t)
               \/ /\ out.release > t /\ Cardinality(ParkedOn(c)) >= DeferredCap
                  /\ UNCHANGED busvars
       ELSE UNCHANGED busvars
    /\ UNCHANGED <<cause, left, snap, drain_now, view, stop, calls, fate>>

ReplyOk ==
    /\ step = "reply"
    /\ EndActivation
    /\ AnswerSync
    /\ UNCHANGED <<busvars, stop, fate>>

\* Mutant of GuestFails: a failed activation leaves no record.
GuestFailsUnrecorded ==
    /\ step = "running"
    /\ EndActivation
    /\ AnswerSync
    /\ UNCHANGED <<busvars, stop, fate>>

\* The guest returns an error or traps: what it was handed as new is
\* quarantined in one transaction, and a caller is told.
GuestFails ==
    /\ step = "running"
    /\ fate' = [m \in Messages |-> IF NewInSnap(m) THEN "settled" ELSE fate[m]]
    /\ EndActivation
    /\ AnswerSync
    /\ UNCHANGED <<busvars, stop>>

\* What the position passed and no guest answered for is gone.
LoseInHand ==
    fate' = [m \in Messages |->
               IF fate[m] = "handed" \/ (fate[m] = "owed" /\ Passed(m)) THEN "lost" ELSE fate[m]]

\* Mutant of GuestPanics: the receiver is not the task's own, so it outlives the
\* task with the requests queued in it.
GuestPanicsKeepsReceiver ==
    /\ step = "running"
    /\ step' = "dead"
    /\ cause' = "none" /\ left' = {} /\ snap' = [c \in Channels |-> Empty]
    /\ drain_now' = None /\ view' = {} /\ out' = Nothing
    /\ AnswerSync
    /\ LoseInHand
    /\ UNCHANGED <<busvars, stop>>

\* The guest's thread panics: the task dies of it, with its receiver.  It takes
\* an event to replace it, so panics need no bound of their own.
GuestPanics ==
    /\ step = "running"
    /\ step' = "dead"
    /\ cause' = "none" /\ left' = {} /\ snap' = [c \in Channels |-> Empty]
    /\ drain_now' = None /\ view' = {} /\ out' = Nothing
    /\ RefusePending
    /\ LoseInHand
    /\ UNCHANGED <<busvars, stop>>

TaskStep ==
    \/ TakeNotify \/ TakeRequest \/ TakeStop \/ Probe
    \/ \E c \in left : WindowPort(c) \/ AdvancePort(c)
    \/ GuestStarts
    \/ \E op \in DeferredOps :
          \/ GuestOk(op, FALSE, None)
          \/ \E r \in {None} \union (now + 1)..MaxTime : GuestOk(op, TRUE, r)
    \/ ApplyDeferredOp \/ FlushPublish \/ ReplyOk
    \/ GuestFails

-----------------------------------------------------------------------------
(* The reload and a crash *)

\* retire_consumers: the directory entries go, then the task is told to stop.
\* One that died before has nothing to be told.
BeginReplace ==
    /\ Depart
    /\ stop' = (step # "dead")
    /\ UNCHANGED <<step, activation, calls, fate>>

\* stop_and_join returns once the task is through, and a task that dies of the
\* stop takes the reload down with it; then the binding is retired.
RetireBinding ==
    /\ step = "stopped" \/ (step = "dead" /\ ~stop)
    /\ Retire
    /\ UNCHANGED <<step, activation, stop, calls, fate>>

\* Mutant of StartReplacement: the new task waits for its first wake.
StartReplacementIdle ==
    /\ Arrive
    /\ step' = "idle"
    /\ stop' = FALSE /\ closed' = FALSE
    /\ UNCHANGED <<activation, queue, serving, call, fate>>

\* The arrival binds a notify and a request queue of its own, then starts the
\* task, whose first step is the mount activation, owed whatever is there.
StartReplacement ==
    /\ Arrive
    /\ BeginActivation("mount")
    /\ stop' = FALSE /\ closed' = FALSE
    /\ UNCHANGED <<drain_now, view, out, queue, serving, call, fate>>

\* The callers are in the process too.
CrashAndRestart ==
    /\ Crash
    /\ BeginActivation("mount")
    /\ stop' = FALSE
    /\ drain_now' = None /\ view' = {} /\ out' = Nothing
    /\ queue' = << >> /\ closed' = FALSE /\ serving' = None
    /\ call' = [k \in Callers |-> IF call[k] \in Waiting THEN "over" ELSE call[k]]
    /\ LoseInHand

-----------------------------------------------------------------------------

Init ==
    /\ BusInit
    /\ step = "window" /\ cause = "mount" /\ left = Channels /\ snap = [c \in Channels |-> Empty]
    /\ drain_now = None /\ view = {} /\ out = Nothing
    /\ stop = FALSE
    /\ queue = << >> /\ closed = FALSE /\ serving = None
    /\ call = [k \in Callers |-> "idle"]
    /\ fate = [m \in Messages |-> "owed"]

Bus ==
    /\ \/ AppWrites \/ AppSteps \/ Tick
       \/ \E c \in Channels : ReleaseStep(c) \/ Wake(c)
    /\ UNCHANGED taskvars

\* What BusDispatcher does in finite time, here beside the task.
BusReleases(c) == ReleaseStep(c) /\ UNCHANGED taskvars
BusAnnounces(c) == c \in unannounced /\ Wake(c) /\ UNCHANGED taskvars

Reload == BeginReplace \/ RetireBinding \/ StartReplacement

Next ==
    \/ TaskStep \/ GuestPanics
    \/ \E k \in Callers : SyncCall(k) \/ Enqueue(k)
    \/ Bus \/ Reload \/ CrashAndRestart

Spec == Init /\ [][Next]_vars

\* The bus keeps its promises, the runtime runs the task and the callers, a
\* guest that does not return traps, and a reload under way goes on.
FairSpec ==
    /\ Spec
    /\ \A c \in Channels : WF_vars(BusReleases(c)) /\ WF_vars(BusAnnounces(c))
    /\ WF_vars(TaskStep)
    /\ \A k \in Callers : WF_vars(Enqueue(k))
    /\ WF_vars(RetireBinding \/ StartReplacement)

-----------------------------------------------------------------------------
(* Properties *)

\* What a guest is about to be handed as new was never handed over, dropped or
\* lost before, across crashes, panics, failures and replacements: delivery is
\* at most once because every position moves before the guest runs.  A message
\* an edit rescheduled after its release is the exception.
HandedOnce ==
    step = "start" => \A m \in Messages \ torn : NewInSnap(m) => fate[m] = "owed"

\* A message the position has passed is accounted for: settled (a guest returned
\* on it, it was quarantined, or it was passed as context or counted as
\* dropped), in the hands of the activation under way, or lost to a crash or a
\* dead task and to nothing else.
PassedIsAccounted ==
    \A m \in Messages \ torn :
        Passed(m) /\ fate[m] \in {"owed", "handed"}
            => InSnap(m) /\ step \in {"advance", "start", "running"}

\* Every sync call gets an answer, wherever it waits: for room in a full queue,
\* in the queue, or on the activation that serves it (sync_call).  A stop refuses
\* what is queued and a task that dies takes its receiver with it, so neither,
\* nor the replacement that follows, leaves a caller waiting.
CallerIsAnswered == []<>(\A k \in Callers : call[k] \notin Waiting)

\* The consumer catches up, again and again, with every message retained for it,
\* whatever coalesces its wakes and whenever it is replaced, unless its task
\* died.
OwedIsServed == []<>(step = "dead" \/ \A c \in Channels : ~HasDeliverable(c))
=============================================================================
