-------------------------- MODULE BusDispatcherProofs --------------------------
(***************************************************************************)
(* For every number of channels, senders and messages and every bound: the *)
(* loop's alarm is fresh whenever it matters, what is retained is final,   *)
(* and every step of the loop and of the writers around it is a step the   *)
(* bus allows.                                                             *)
(***************************************************************************)
EXTENDS BusDispatcher, DurableBusProofs

USE ZenonT(30), SMTT(30)

-----------------------------------------------------------------------------
(* The folds over instants *)

\* The least of a set of instants.
LEMMA MinIsLeast ==
    ASSUME NEW S, S \subseteq Nat, S # {}
    PROVE  Min(S) \in S /\ \A y \in S : Min(S) <= y
<1>1. PICK x \in S : \A y \in S : ~(<<y, x>> \in OpToRel(<, Nat))
    BY NatLessThanWellFounded, WFMin
<1>2. ASSUME NEW y \in S PROVE x <= y
    <2>1. x \in Nat /\ y \in Nat /\ <<y, x>> \in Nat \X Nat OBVIOUS
    <2>2. y < x => <<y, x>> \in OpToRel(<, Nat) BY <2>1 DEF OpToRel
    <2>3. ~(y < x) BY <1>1, <2>2
    <2> QED BY <2>1, <2>3
<1> QED BY <1>2 DEF Min

\* The fold keeps an instant, and one no later than either it was given.
LEMMA SoonerIsSooner ==
    ASSUME NEW a \in Nat, NEW b \in Nat
    PROVE  /\ Sooner(a, b) \in Nat
           /\ a # None => Sooner(a, b) # None /\ Sooner(a, b) <= a
           /\ b # None => Sooner(a, b) # None /\ Sooner(a, b) <= b
BY DEF Sooner, None

\* The earliest of a set of instants is an instant, None if there is none (the
\* dispatcher's min over what the store reported).
LEMMA EarliestIsInstant ==
    ASSUME NEW S, S \subseteq Nat
    PROVE  EarliestOf(S) \in Nat
BY MinIsLeast DEF EarliestOf, None

\* earliest_channel_release is an instant no later than any release on the
\* channel.
LEMMA EarliestReleaseBounds ==
    ASSUME BusTypeOK, NEW c \in Channels
    PROVE  /\ EarliestRelease(c) \in Nat
           /\ \A m \in ParkedOn(c) :
                 EarliestRelease(c) # None /\ EarliestRelease(c) <= rows[m].release
<1> DEFINE S == {rows[m].release : m \in ParkedOn(c)}
<1>1. \A m \in ParkedOn(c) : rows[m].release \in Nat /\ rows[m].release # None
    BY DEF BusTypeOK, ParkedOn, Parked, Row
<1>2. S \subseteq Nat /\ None \notin S
    BY <1>1
<1>3. EarliestRelease(c) = EarliestOf(S)
    BY DEF EarliestRelease
<1>4. EarliestOf(S) \in Nat BY <1>2, EarliestIsInstant
<1>5. ASSUME NEW m \in ParkedOn(c)
      PROVE  EarliestRelease(c) # None /\ EarliestRelease(c) <= rows[m].release
    <2>1. rows[m].release \in S OBVIOUS
    <2>2. EarliestOf(S) = Min(S) BY <2>1 DEF EarliestOf
    <2> QED BY <1>2, <1>3, <2>1, <2>2, MinIsLeast
<1> QED BY <1>3, <1>4, <1>5

\* The deadline the wake pass reports for a channel is an instant.
LEMMA EarliestDeadlineIsInstant ==
    ASSUME BusTypeOK, NEW c \in Channels
    PROVE  EarliestUnseenDeadline(c) \in Nat
<1>1. {rows[m].deadline : m \in Unseen(c)} \ {None} \subseteq Nat
    BY BusBounds DEF BusTypeOK, Unseen, Retained, Row
<1> QED BY <1>1, EarliestIsInstant DEF EarliestUnseenDeadline

-----------------------------------------------------------------------------
(* The loop's own state, and its steps as steps of the bus *)

\* A channel is released only in the sweep it is listed in, and a pass acts on
\* a clock reading it took.
PassOK ==
    /\ swept \subseteq todo /\ (swept # {} => pc = "release")
    /\ pc \in {"release", "wake"} => pass_now \in 1..now

\* A step of run_dispatcher's loop is a release, a wake read or no step of the
\* bus: its pass acts on a clock reading that is not ahead of the clock.
LEMMA LoopStepIsBusStep ==
    ASSUME TypeOK, PassOK, LoopStep
    PROVE  [BusNext]_busvars
<1>1. CASE Sleep \/ Awake \/ SweepDone BY <1>1 DEF Sleep, Awake, SweepDone
<1>2. ASSUME NEW c \in Channels, SeedChannel(c) \/ SweepIdle(c) \/ SweepReport(c)
      PROVE  [BusNext]_busvars
    BY <1>2 DEF SeedChannel, SweepIdle, SweepReport
<1>3. ASSUME NEW c \in Channels, SweepRelease(c) PROVE [BusNext]_busvars
    BY <1>3 DEF SweepRelease, PassOK, ReleaseStep, BusNext
<1>4. ASSUME NEW c \in Channels, WakeChannel(c) PROVE [BusNext]_busvars
    BY <1>4 DEF WakeChannel, BusNext
<1> QED BY <1>1, <1>2, <1>3, <1>4 DEF LoopStep

\* So is every step of the system around it: writers, kicks, edits, the reload
\* and the crash.
LEMMA NextIsBusStep ==
    ASSUME TypeOK, PassOK, [Next]_vars
    PROVE  [BusNext]_busvars
<1>1. CASE LoopStep BY <1>1, LoopStepIsBusStep
<1>2. CASE Commit BY <1>2 DEF Commit, BusNext
<1>3. CASE DispatchKick BY <1>3 DEF DispatchKick
<1>4. CASE Others BY <1>4 DEF Others, BusNext
<1>5. CASE Restart BY <1>5 DEF Restart, BusNext
<1>6. CASE UNCHANGED vars BY <1>6 DEF vars
<1> QED BY <1>1, <1>2, <1>3, <1>4, <1>5, <1>6 DEF Next

\* What the loop's steps do to the loop's own variables keeps their types.
LEMMA LoopStepTypes ==
    ASSUME TypeOK, PassOK, LoopStep, BusTypeOK', now' >= now
    PROVE  TypeOK' /\ PassOK'
<1>0. now \in Nat \ {0} /\ now' \in Nat \ {0} BY DEF TypeOK, BusTypeOK
<1>a. BusTypeOK BY DEF TypeOK
<1>1. CASE Sleep
    <2>1. SleepUntil \in Nat
        BY <1>0, BusBounds, LoopBounds, SMTT(30) DEF SleepUntil, Sooner, None, TypeOK
    <2> QED BY <1>1, <2>1 DEF Sleep, TypeOK, PassOK, None
<1>2. CASE Awake
    <2>1. now' = now BY <1>2 DEF Awake, busvars
    <2>2. kick' \in BOOLEAN BY <1>2 DEF Awake, TypeOK
    <2>3. swept' = {} BY <1>2 DEF Awake, PassOK
    <2>4. pass_now' \in 1..now' BY <1>0, <1>2, <2>1 DEF Awake
    <2> QED BY <1>0, <1>2, <2>2, <2>3, <2>4 DEF Awake, TypeOK, PassOK, None
<1>3. CASE SweepDone
    <2>1. now' = now /\ swept' = {} BY <1>3 DEF SweepDone, busvars, PassOK
    <2> QED BY <1>3, <2>1 DEF SweepDone, TypeOK, PassOK
<1>4. ASSUME NEW c \in Channels, SeedChannel(c) \/ SweepIdle(c) \/ SweepReport(c)
      PROVE  TypeOK' /\ PassOK'
    <2>1. now' = now /\ todo' = todo \ {c} /\ swept' = {}
        BY <1>4 DEF SeedChannel, SweepIdle, SweepReport, busvars, PassOK
    <2>2. next_release' \in Nat
        BY <1>a, <1>4, EarliestReleaseBounds, SoonerIsSooner
           DEF SeedChannel, SweepIdle, SweepReport, TypeOK
    <2> QED BY <1>4, <2>1, <2>2 DEF SeedChannel, SweepIdle, SweepReport, TypeOK, PassOK
<1>5. ASSUME NEW c \in Channels, SweepRelease(c) PROVE TypeOK' /\ PassOK'
    <2>1. now' = now /\ swept' = {c} /\ todo' = todo /\ c \in todo
        BY <1>5 DEF SweepRelease, Release
    <2> QED BY <1>5, <2>1 DEF SweepRelease, TypeOK, PassOK
<1>6. ASSUME NEW c \in Channels, WakeChannel(c) PROVE TypeOK' /\ PassOK'
    <2>1. now' = now /\ todo' = todo \ {c} /\ swept' = {} /\ fired' \in BOOLEAN
        BY <1>6 DEF WakeChannel, Wake, busvars, PassOK, TypeOK
    <2>2. next_deadline' \in Nat
        BY <1>a, <1>6, EarliestDeadlineIsInstant, SoonerIsSooner DEF WakeChannel, TypeOK
    <2> QED BY <1>6, <2>1, <2>2 DEF WakeChannel, TypeOK, PassOK
<1> QED BY <1>1, <1>2, <1>3, <1>4, <1>5, <1>6 DEF LoopStep

\* Every step keeps the types, and a pass's clock reading behind the clock.
LEMMA NextTypes ==
    ASSUME TypeOK, PassOK, [Next]_vars
    PROVE  TypeOK' /\ PassOK'
<1>1. BusTypeOK /\ BusTypeOK' /\ now' >= now
    BY NextIsBusStep, BusNextType, ClockAdvances DEF TypeOK
<1>2. now \in Nat /\ now' \in Nat BY <1>1 DEF BusTypeOK
<1>3. ASSUME UNCHANGED loop, kick' \in BOOLEAN, owed_kicks' \in Nat
      PROVE  TypeOK' /\ PassOK'
    <2>1. pass_now \in 1..now => pass_now \in 1..now' BY <1>1, <1>2
    <2> QED BY <1>1, <1>3, <2>1 DEF loop, TypeOK, PassOK
<1>4. CASE LoopStep BY <1>1, <1>4, LoopStepTypes
<1>5. CASE Commit BY <1>3, <1>5 DEF Commit, TypeOK
<1>6. CASE DispatchKick BY <1>3, <1>6 DEF DispatchKick, TypeOK
<1>7. CASE Others BY <1>3, <1>7 DEF Others, TypeOK
<1>8. CASE Restart BY <1>1, <1>8 DEF Restart, TypeOK, PassOK, None
<1>9. CASE UNCHANGED vars BY <1>3, <1>9 DEF vars, TypeOK
<1> QED BY <1>4, <1>5, <1>6, <1>7, <1>8, <1>9 DEF Next

\* The loop at its start is of its types (run_dispatcher).
LEMMA InitTypes == Init => TypeOK /\ PassOK
<1> SUFFICES ASSUME Init PROVE TypeOK /\ PassOK OBVIOUS
<1>1. BusTypeOK BY BusInitType DEF Init
<1>2. TypeOK BY <1>1 DEF Init, TypeOK, None
<1>3. PassOK BY DEF Init, PassOK
<1> QED BY <1>2, <1>3

\* Whatever the loop and the writers around it do, and however they interleave,
\* is something the bus may do: the safety half of ImplementsBus.
THEOREM LoopRunsTheBus == Spec => BusSpec
<1>1. Init => BusInit BY DEF Init
<1>2. TypeOK /\ PassOK /\ [Next]_vars => TypeOK' /\ PassOK' BY NextTypes
<1>3. TypeOK /\ PassOK /\ [Next]_vars => [BusNext]_busvars BY NextIsBusStep
<1> QED BY InitTypes, <1>1, <1>2, <1>3, PTL DEF Spec, BusSpec

\* With the loop deciding what is released when, what is retained is final.
THEOREM LoopRetainsForGood == Spec => RetainedIsFinal
BY LoopRunsTheBus, BusRetainsForGood

-----------------------------------------------------------------------------
(* The alarm *)

\* What makes the loop come back in time for a message parked on channel c
\* until r: a kick pending or owed, a sleep that is over, in debounce or short
\* enough, a walk that has the channel ahead of it, or a report that is early
\* enough.
InHand(c, r) ==
    \/ kick \/ owed_kicks > 0
    \/ pc = "asleep" /\ (fired \/ now >= until \/ until <= r)
    \/ pc \in {"seed", "release"} /\ c \in todo
    \/ pc # "asleep" /\ next_release # None /\ next_release <= r

\* The inductive invariant behind SleepTargetIsFresh: no parked message is
\* forgotten at any point of the loop.
ParkedInHand == \A m \in Parked : InHand(rows[m].channel, rows[m].release)

IInv == TypeOK /\ PassOK /\ ParkedInHand

\* A step that parks nothing and reschedules nothing.
ParksNothing ==
    \A m \in Parked' : /\ m \in Parked
                       /\ rows'[m].release = rows[m].release
                       /\ rows'[m].channel = rows[m].channel

\* A parked message has a channel and a release instant.
LEMMA ParkedTypes ==
    ASSUME BusTypeOK, NEW m \in Parked
    PROVE  /\ rows[m].channel \in Channels /\ rows[m].release \in Nat
           /\ m \in ParkedOn(rows[m].channel)
BY DEF BusTypeOK, Parked, ParkedOn, Row

\* A step that leaves the rows alone parks nothing.
LEMMA RowsUntouchedParksNothing == ASSUME rows' = rows PROVE ParksNothing
BY DEF ParksNothing, Parked

\* Releasing a channel's due messages parks nothing (release_due).
LEMMA ReleaseParksNothing ==
    ASSUME BusTypeOK, NEW c \in Channels, NEW t, Release(c, t)
    PROVE  ParksNothing
BY ReleaseRows DEF ParksNothing, Parked

\* An edit that carries neither a release time nor a deadline writes back what
\* is there.
LEMMA EmptyEditParksNothing ==
    ASSUME BusTypeOK, EditUpdate({}, None, None)
    PROVE  ParksNothing
<1>1. /\ editing \in DOMAIN rows
      /\ rows' = [rows EXCEPT ![editing].release = rows[editing].release,
                              ![editing].deadline = rows[editing].deadline]
    BY DEF EditUpdate
<1>2. rows[editing] \in Row BY <1>1 DEF BusTypeOK
<1>3. /\ DOMAIN rows' = DOMAIN rows
      /\ rows'[editing].release = rows[editing].release
      /\ rows'[editing].channel = rows[editing].channel
    BY <1>1, <1>2 DEF Row
<1>4. \A m \in DOMAIN rows \ {editing} : rows'[m] = rows[m] BY <1>1
<1> QED BY <1>3, <1>4 DEF ParksNothing, Parked

\* Neither does an edit that is looked up, comes to nothing or panics, nor the
\* consumer, the reload or the clock: only a writer's commit parks, and it owes a kick.
LEMMA OthersParkNothing ==
    ASSUME BusTypeOK, AppSteps \/ ConsumerSteps \/ Tick
    PROVE  ParksNothing
<1>1. CASE AppSteps
    BY <1>1, EmptyEditParksNothing, RowsUntouchedParksNothing
       DEF AppSteps, EditLookup, EditPanics, store
<1>2. CASE ConsumerSteps
    BY <1>2, RowsUntouchedParksNothing
       DEF ConsumerSteps, Advance, Notified, Depart, Retire, Arrive, store
<1>3. CASE Tick BY <1>3, RowsUntouchedParksNothing DEF Tick, store
<1> QED BY <1>1, <1>2, <1>3

\* Messages in hand stay so under a step that parks nothing, if the step loses
\* none of what has each of them in hand.
LEMMA StaysInHand ==
    ASSUME BusTypeOK, ParkedInHand, ParksNothing,
           \A c \in Channels, r \in Nat :
              (\E m \in ParkedOn(c) : rows[m].release = r) /\ InHand(c, r) => InHand(c, r)'
    PROVE  ParkedInHand'
<1> SUFFICES ASSUME NEW m \in Parked' PROVE InHand(rows[m].channel, rows[m].release)'
    BY DEF ParkedInHand
<1>1. /\ m \in Parked /\ rows'[m].release = rows[m].release
      /\ rows'[m].channel = rows[m].channel
    BY DEF ParksNothing
<1>2. PICK c \in Channels, r \in Nat :
         /\ c = rows[m].channel /\ r = rows[m].release /\ m \in ParkedOn(c)
    BY <1>1, ParkedTypes
<1>3. InHand(c, r) BY <1>1, <1>2 DEF ParkedInHand
<1>4. InHand(c, r)' BY <1>2, <1>3
<1> QED BY <1>1, <1>2, <1>4 DEF InHand

\* The sleep that follows a walk is no longer than what the walk reported.
LEMMA SleepInHand == ASSUME IInv, Sleep PROVE ParkedInHand'
<1>0. BusTypeOK /\ ParkedInHand BY DEF IInv, TypeOK
<1>1. rows' = rows /\ now' = now /\ kick' = kick /\ owed_kicks' = owed_kicks
    BY DEF Sleep, busvars, store
<1>2. now \in Nat /\ next_release \in Nat /\ next_deadline \in Nat /\ Poll \in Nat \ {0}
    BY LoopBounds DEF IInv, TypeOK, BusTypeOK
<1> DEFINE due == Sooner(next_release, next_deadline)
<1>3. /\ due \in Nat
      /\ next_release # None => due # None /\ due <= next_release
    BY <1>2, SoonerIsSooner
<1>4. ASSUME NEW r \in Nat, next_release # None, next_release <= r
      PROVE  fired \/ SleepUntil <= now \/ SleepUntil <= r
    <2>1. due # None /\ due <= r BY <1>2, <1>3, <1>4
    <2>2. SUFFICES ASSUME ~fired PROVE SleepUntil <= now \/ SleepUntil <= r OBVIOUS
    <2>3. SleepUntil = IF due > now + Poll THEN now + Poll ELSE IF due > now THEN due ELSE now
        BY <2>1, <2>2 DEF SleepUntil
    <2> HIDE DEF due
    <2> QED BY <1>2, <1>3, <2>1, <2>3
<1>5. ASSUME NEW c \in Channels, NEW r \in Nat, InHand(c, r) PROVE InHand(c, r)'
    <2>1. kick \/ owed_kicks > 0 \/ (next_release # None /\ next_release <= r)
        BY <1>5 DEF Sleep, InHand
    <2>2. CASE kick \/ owed_kicks > 0 BY <1>1, <2>2 DEF InHand
    <2>3. CASE next_release # None /\ next_release <= r
        <3>1. fired \/ SleepUntil <= now \/ SleepUntil <= r BY <1>4, <2>3
        <3>2. until' = SleepUntil /\ pc' = "asleep" /\ fired' = fired BY DEF Sleep
        <3>3. SleepUntil \in Nat
            BY <1>2, <1>3, BusBounds, LoopBounds DEF SleepUntil
        <3>4. SleepUntil <= now => now' >= until' BY <1>1, <1>2, <3>2, <3>3
        <3> QED BY <3>1, <3>2, <3>4 DEF InHand
    <2> QED BY <2>1, <2>2, <2>3
<1>6. ParksNothing BY <1>1, RowsUntouchedParksNothing
<1> QED BY <1>0, <1>5, <1>6, StaysInHand

\* A walk that leaves a channel behind has it in its report.
LEMMA ReportInHand ==
    ASSUME IInv, NEW c \in Channels, SeedChannel(c) \/ SweepIdle(c) \/ SweepReport(c)
    PROVE  ParkedInHand'
<1>0. BusTypeOK /\ ParkedInHand BY DEF IInv, TypeOK
<1>1. /\ rows' = rows /\ kick' = kick /\ owed_kicks' = owed_kicks
      /\ pc \in {"seed", "release"} /\ pc' = pc /\ todo' = todo \ {c}
      /\ next_release' = Sooner(next_release, EarliestRelease(c))
    BY DEF IInv, PassOK, SeedChannel, SweepIdle, SweepReport, busvars, store
<1>2. next_release \in Nat /\ EarliestRelease(c) \in Nat
    BY <1>0, EarliestReleaseBounds DEF IInv, TypeOK
<1>3. /\ next_release' \in Nat
      /\ next_release # None => next_release' # None /\ next_release' <= next_release
      /\ EarliestRelease(c) # None => next_release' # None /\ next_release' <= EarliestRelease(c)
    BY <1>1, <1>2, SoonerIsSooner
<1>4. ASSUME NEW d \in Channels, NEW r \in Nat, \E m \in ParkedOn(d) : rows[m].release = r,
             InHand(d, r)
      PROVE  InHand(d, r)'
    <2>1. CASE d = c
        <3>1. EarliestRelease(c) # None /\ EarliestRelease(c) <= r
            BY <1>0, <1>4, <2>1, EarliestReleaseBounds
        <3>2. next_release' # None /\ next_release' <= r BY <1>2, <1>3, <3>1
        <3> QED BY <1>1, <3>2 DEF InHand
    <2>2. CASE d # c
        <3>1. next_release # None /\ next_release <= r => next_release' # None /\ next_release' <= r
            BY <1>2, <1>3
        <3> QED BY <1>1, <1>4, <2>2, <3>1 DEF InHand
    <2> QED BY <2>1, <2>2
<1>5. ParksNothing BY <1>1, RowsUntouchedParksNothing
<1> QED BY <1>0, <1>4, <1>5, StaysInHand

\* Whatever the loop does next, something brings it back in time for each parked
\* message: the seed, the sweep, the wake pass and the sleep, one by one.
LEMMA LoopStepInHand == ASSUME IInv, LoopStep PROVE ParkedInHand'
<1>0. BusTypeOK /\ ParkedInHand /\ TypeOK /\ PassOK BY DEF IInv, TypeOK
<1>1. CASE Awake
    <2>1. rows' = rows BY <1>1 DEF Awake, busvars, store
    <2>2. ParksNothing BY <2>1, RowsUntouchedParksNothing
    <2>3. \A c \in Channels, r \in Nat : InHand(c, r)'
        BY <1>1 DEF Awake, InHand
    <2> QED BY <1>0, <2>2, <2>3, StaysInHand
<1>2. CASE SweepDone
    <2>1. ParksNothing BY <1>2, RowsUntouchedParksNothing DEF SweepDone, busvars, store
    <2>2. \A c \in Channels, r \in Nat : InHand(c, r) => InHand(c, r)'
        BY <1>2 DEF SweepDone, InHand
    <2> QED BY <1>0, <2>1, <2>2, StaysInHand
<1>3. ASSUME NEW c \in Channels, SweepRelease(c) PROVE ParkedInHand'
    <2>1. ParksNothing BY <1>0, <1>3, ReleaseParksNothing DEF SweepRelease
    <2>2. \A d \in Channels, r \in Nat : InHand(d, r) => InHand(d, r)'
        BY <1>3 DEF SweepRelease, InHand
    <2> QED BY <1>0, <2>1, <2>2, StaysInHand
<1>4. ASSUME NEW c \in Channels, WakeChannel(c) PROVE ParkedInHand'
    <2>1. ParksNothing
        BY <1>4, RowsUntouchedParksNothing DEF WakeChannel, Wake, busvars, store
    <2>2. \A d \in Channels, r \in Nat : InHand(d, r) => InHand(d, r)'
        BY <1>4 DEF WakeChannel, InHand
    <2> QED BY <1>0, <2>1, <2>2, StaysInHand
<1> QED BY <1>1, <1>2, <1>3, <1>4, SleepInHand, ReportInHand DEF LoopStep

\* Every step of the system keeps each parked message in hand.
LEMMA NextInHand == ASSUME IInv, [Next]_vars PROVE ParkedInHand'
<1>0. BusTypeOK /\ ParkedInHand /\ TypeOK /\ PassOK BY DEF IInv, TypeOK
<1>1. CASE LoopStep BY <1>1, LoopStepInHand
<1>2. CASE Commit
    <2>1. owed_kicks' > 0 BY <1>0, <1>2 DEF Commit, TypeOK
    <2> QED BY <2>1 DEF ParkedInHand, InHand
<1>3. CASE DispatchKick BY <1>3 DEF DispatchKick, ParkedInHand, InHand
<1>4. CASE Others
    <2>1. ParksNothing BY <1>0, <1>4, OthersParkNothing DEF Others
    <2>2. now' >= now BY <1>0, <1>4, ClockAdvances DEF Others, BusNext
    <2>3. now \in Nat /\ until \in Nat /\ now' \in Nat
        BY <1>0, NextTypes DEF TypeOK, BusTypeOK
    <2>4. now >= until => now' >= until BY <2>2, <2>3
    <2>5. \A c \in Channels, r \in Nat : InHand(c, r) => InHand(c, r)'
        BY <1>4, <2>4 DEF Others, loop, InHand
    <2> QED BY <1>0, <2>1, <2>5, StaysInHand
<1>5. CASE Restart
    <2>1. ParksNothing BY <1>5, RowsUntouchedParksNothing DEF Restart, Crash, store
    <2>2. \A c \in Channels, r \in Nat : InHand(c, r)'
        BY <1>5 DEF Restart, InHand
    <2> QED BY <1>0, <2>1, <2>2, StaysInHand
<1>6. CASE UNCHANGED vars
    BY <1>0, <1>6 DEF vars, busvars, store, loop, ParkedInHand, InHand, Parked
<1> QED BY <1>1, <1>2, <1>3, <1>4, <1>5, <1>6 DEF Next

\* For any channels, writers and clock, with passes, commits, kicks and crashes
\* interleaved in any way: a loop asleep ahead of its alarm with no kick coming
\* never sleeps past the release of a parked message.
THEOREM AlarmIsFresh == Spec => []SleepTargetIsFresh
<1>1. Init => IInv
    <2> SUFFICES ASSUME Init PROVE IInv OBVIOUS
    <2>1. ParkedInHand BY DEF Init, BusInit, ParkedInHand, Parked
    <2> QED BY <2>1, InitTypes DEF IInv
<1>2. IInv /\ [Next]_vars => IInv'
    BY NextTypes, NextInHand DEF IInv
<1>3. IInv => SleepTargetIsFresh
    <2> SUFFICES ASSUME IInv, pc = "asleep", ~kick, owed_kicks = 0, ~fired, now < until,
                        NEW m \in Parked
                 PROVE  until <= rows[m].release
        BY DEF SleepTargetIsFresh
    <2>1. now \in Nat /\ until \in Nat BY DEF IInv, TypeOK, BusTypeOK
    <2>2. ~(owed_kicks > 0) /\ ~(now >= until) BY <2>1
    <2>3. InHand(rows[m].channel, rows[m].release) BY DEF IInv, ParkedInHand
    <2> QED BY <2>2, <2>3 DEF InHand
<1> QED BY <1>1, <1>2, <1>3, PTL DEF Spec
=============================================================================
