---------------------------- MODULE BusDispatcher ----------------------------
(***************************************************************************)
(* The one background loop that acts on time over the durable channels:    *)
(* brenn-messaging/src/dispatcher.rs, and the walks of lib.rs it awaits.   *)
(* Whoever commits something that may move what is due kicks the loop      *)
(* after the commit; the loop sleeps until the earliest release or         *)
(* deadline its last pass saw.                                             *)
(*                                                                         *)
(* The scan of ingress rows at the end of a pass is left out: it writes    *)
(* nothing the rest of the loop reads.                                     *)
(***************************************************************************)
EXTENDS DurableBus

CONSTANTS
    Poll,           \* POLL_INTERVAL
    Debounce,       \* PAST_DEADLINE_DEBOUNCE
    MaxWriters      \* bound: writers between their commit and their kick

ASSUME LoopBounds ==
    Poll \in Nat \ {0} /\ Debounce \in Nat \ {0} /\ MaxWriters \in Nat

VARIABLES
    kick,           \* the permit of the dispatcher's Notify
    owed_kicks,     \* writers between their commit and their dispatch_kick
    pc,             \* where the loop is
    todo,           \* channels left in the walk it is in
    listed,         \* whether the directory this walk reads has the consumer
    swept,          \* the channel just released, until its store is asked again
    pass_now,       \* the clock reading of this pass
    next_release,   \* what the last sweep reported
    next_deadline,  \* next_cursor_deadline: what the last wake pass reported
    fired,          \* fired_wakes
    until           \* when the sleep ends

loop == <<pc, todo, listed, swept, pass_now, next_release, next_deadline, fired, until>>
vars == <<busvars, kick, owed_kicks, loop>>

\* The fold over optional instants keeps the earliest there is.
Sooner(a, b) == IF a = None THEN b ELSE IF b = None THEN a ELSE IF a < b THEN a ELSE b

EarliestOf(instants) == IF instants = {} THEN None ELSE Min(instants)

\* earliest_channel_release: a time already past is reported like any other.
EarliestRelease(c) == EarliestOf({rows[m].release : m \in ParkedOn(c)})

EarliestUnseenDeadline(c) == EarliestOf({rows[m].deadline : m \in Unseen(c)} \ {None})

-----------------------------------------------------------------------------
(* The loop *)

\* next_deferred_release: the walk before the first sleep.
SeedChannel(c) ==
    /\ pc = "seed" /\ c \in todo
    /\ next_release' = Sooner(next_release, EarliestRelease(c))
    /\ todo' = todo \ {c}
    /\ UNCHANGED <<busvars, kick, owed_kicks, pc, listed, swept, pass_now, next_deadline, fired, until>>

\* The top of the loop: how long to sleep.  A clock that has reached its bound
\* ends a debounce.
SleepUntil ==
    LET due == Sooner(next_release, next_deadline)
    IN  IF fired THEN IF now + Debounce <= MaxTime THEN now + Debounce ELSE MaxTime
        ELSE IF due = None \/ due > now + Poll THEN now + Poll
        ELSE IF due > now THEN due ELSE now

Sleep ==
    /\ pc \in {"seed", "wake"} /\ todo = {}
    /\ pc' = "asleep"
    /\ until' = SleepUntil
    /\ pass_now' = None /\ listed' = FALSE
    /\ UNCHANGED <<busvars, kick, owed_kicks, todo, swept, next_release, next_deadline, fired>>

\* A kick or the timer ends the sleep, and when both are ready either may win;
\* only the kick's arm takes the permit.  The sweep starts from its own clock
\* reading and with nothing reported.
Awake ==
    /\ pc = "asleep"
    /\ \/ kick /\ kick' = FALSE
       \/ now >= until /\ UNCHANGED kick
    /\ pc' = "release" /\ todo' = Channels
    /\ pass_now' = now /\ until' = None
    /\ next_release' = None /\ next_deadline' = None /\ fired' = FALSE
    /\ UNCHANGED <<busvars, owed_kicks, listed, swept>>

\* One channel of release_due_messages: with nothing due it only reports its
\* next release.
SweepIdle(c) ==
    /\ pc = "release" /\ c \in todo /\ swept = {}
    /\ DueOn(c, pass_now) = {}
    /\ next_release' = Sooner(next_release, EarliestRelease(c))
    /\ todo' = todo \ {c}
    /\ UNCHANGED <<busvars, kick, owed_kicks, pc, listed, swept, pass_now, next_deadline, fired, until>>

\* With something due it releases it, ...
SweepRelease(c) ==
    /\ pc = "release" /\ c \in todo /\ swept = {}
    /\ Release(c, pass_now)
    /\ swept' = {c}
    /\ UNCHANGED <<kick, owed_kicks, pc, todo, listed, pass_now, next_release, next_deadline,
                   fired, until>>

\* ... and asks the store again once the feeds of what it released are out.
SweepReport(c) ==
    /\ swept = {c}
    /\ next_release' = Sooner(next_release, EarliestRelease(c))
    /\ todo' = todo \ {c} /\ swept' = {}
    /\ UNCHANGED <<busvars, kick, owed_kicks, pc, listed, pass_now, next_deadline, fired, until>>

\* The wake pass lists the directory once, at its start.
SweepDone ==
    /\ pc = "release" /\ todo = {}
    /\ pc' = "wake" /\ todo' = Channels
    /\ listed' = (service = "live")
    /\ UNCHANGED <<busvars, kick, owed_kicks, swept, pass_now, next_release, next_deadline, fired,
                   until>>

\* Mutant of WakeChannel: only a message past its deadline wakes.
WakeChannelWhenLate(c) ==
    LET deadline == EarliestUnseenDeadline(c)
        past == listed /\ HasDeliverable(c) /\ deadline # None /\ deadline <= pass_now
    IN  /\ pc = "wake" /\ c \in todo
        /\ todo' = todo \ {c}
        /\ fired' = (fired \/ past)
        /\ next_deadline' = IF past THEN next_deadline ELSE Sooner(next_deadline, deadline)
        /\ unannounced' = unannounced \ {c}
        /\ notify' = (notify \/ (past /\ service # "gone"))
        /\ UNCHANGED <<store, now, service, edit, events>>
        /\ UNCHANGED <<kick, owed_kicks, pc, listed, swept, pass_now, next_release, until>>

\* One channel of wake_owed_subscribers.  A consumer that arrived after the
\* directory was listed is not found, and stays unannounced.
WakeChannel(c) ==
    LET found == listed /\ HasDeliverable(c)
        deadline == EarliestUnseenDeadline(c)
        past == found /\ deadline # None /\ deadline <= pass_now
    IN  /\ pc = "wake" /\ c \in todo
        /\ todo' = todo \ {c}
        /\ fired' = (fired \/ past)
        /\ next_deadline' = IF found /\ ~past THEN Sooner(next_deadline, deadline)
                            ELSE next_deadline
        /\ IF service = "live" /\ HasDeliverable(c) /\ ~listed THEN UNCHANGED busvars
           ELSE Wake(c) /\ notify' = (notify \/ (found /\ service # "gone"))
        /\ UNCHANGED <<kick, owed_kicks, pc, listed, swept, pass_now, next_release, until>>

LoopStep ==
    \/ Sleep \/ Awake \/ SweepDone
    \/ \E c \in Channels :
          SeedChannel(c) \/ SweepIdle(c) \/ SweepRelease(c) \/ SweepReport(c) \/ WakeChannel(c)

-----------------------------------------------------------------------------
(* The writers, time, and a crash of the process *)

\* Mutant of Commit: what a component parks or reschedules is not kicked for.
CommitComponentUnkicked ==
    /\ \/ AppWrites /\ owed_kicks < MaxWriters /\ owed_kicks' = owed_kicks + 1
       \/ ComponentWrites /\ UNCHANGED owed_kicks
    /\ UNCHANGED <<kick, loop>>

\* A commit that a dispatch_kick will follow.
Commit ==
    /\ AppWrites \/ ComponentWrites
    /\ owed_kicks < MaxWriters /\ owed_kicks' = owed_kicks + 1
    /\ UNCHANGED <<kick, loop>>

DispatchKick ==
    /\ owed_kicks > 0 /\ owed_kicks' = owed_kicks - 1
    /\ kick' = TRUE
    /\ UNCHANGED <<busvars, loop>>

Others ==
    /\ AppSteps \/ ConsumerSteps \/ Tick
    /\ UNCHANGED <<kick, owed_kicks, loop>>

\* The loop starts over, and every permit is gone.
Restart ==
    /\ Crash
    /\ kick' = FALSE /\ owed_kicks' = 0
    /\ pc' = "seed" /\ todo' = Channels /\ listed' = FALSE /\ swept' = {}
    /\ pass_now' = None /\ next_release' = None /\ next_deadline' = None
    /\ fired' = FALSE /\ until' = None

Init ==
    /\ BusInit
    /\ kick = FALSE /\ owed_kicks = 0
    /\ pc = "seed" /\ todo = Channels /\ listed = FALSE /\ swept = {}
    /\ pass_now = None /\ next_release = None /\ next_deadline = None
    /\ fired = FALSE /\ until = None

Next == LoopStep \/ Commit \/ DispatchKick \/ Others \/ Restart

Spec == Init /\ [][Next]_vars

\* The loop is a task of the runtime and a writer's kick follows its commit.
FairSpec == Spec /\ WF_vars(LoopStep) /\ WF_vars(DispatchKick)

-----------------------------------------------------------------------------
(* Properties *)

TypeOK ==
    /\ BusTypeOK
    /\ kick \in BOOLEAN /\ owed_kicks \in Nat
    /\ pc \in {"seed", "asleep", "release", "wake"}
    /\ todo \subseteq Channels /\ listed \in BOOLEAN /\ swept \subseteq Channels
    /\ pass_now \in Nat /\ next_release \in Nat /\ next_deadline \in Nat
    /\ fired \in BOOLEAN /\ until \in Nat

\* While the loop is asleep ahead of its alarm, with no kick pending or on its
\* way and no debounce, nothing parked comes due before the alarm: "a stale
\* value never delays a release" (dispatcher.rs).
SleepTargetIsFresh ==
    pc = "asleep" /\ ~kick /\ owed_kicks = 0 /\ ~fired /\ now < until
        => \A m \in Parked : until <= rows[m].release

\* The loop is the bus its users rely on: every step of it is a step of
\* DurableBus or none, what is due is released and what is retained is
\* announced, without the poll interval ever coming to its rescue.
ImplementsBus == BusFairSpec
=============================================================================
