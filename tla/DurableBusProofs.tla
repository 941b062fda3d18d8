--------------------------- MODULE DurableBusProofs ---------------------------
(***************************************************************************)
(* What every step of the bus keeps, for any channels, senders, messages   *)
(* and bounds.                                                             *)
(***************************************************************************)
EXTENDS DurableBusInv, FiniteSetTheorems, TLAPS

USE ZenonT(30), SMTT(30)

-----------------------------------------------------------------------------
(* Arithmetic *)

\* The larger of two numbers is a number no smaller than the second.
LEMMA MaxOfTwo ==
    ASSUME NEW a \in Nat, NEW b \in Nat
    PROVE  Max({a, b}) \in Nat /\ Max({a, b}) >= b
<1>1. \E x \in {a, b} : \A y \in {a, b} : x >= y
    <2>1. CASE a >= b BY <2>1, SMTT(30)
    <2>2. CASE b >= a BY <2>2, SMTT(30)
    <2> QED BY <2>1, <2>2, SMTT(30)
<1>2. Max({a, b}) \in {a, b} /\ \A y \in {a, b} : Max({a, b}) >= y
    BY <1>1 DEF Max
<1> QED BY <1>2

\* Sets of message ids have a size.
LEMMA MessagesCount ==
    ASSUME BusTypeOK, NEW S, S \subseteq DOMAIN rows
    PROVE  Cardinality(S) \in Nat /\ IsFiniteSet(S)
<1>1. minted \in Nat BY BusBounds, SMTT(30) DEF BusTypeOK
<1>2. IsFiniteSet(1..minted) BY <1>1, FS_Interval
<1>3. S \subseteq 1..minted BY DEF BusTypeOK
<1> QED BY <1>2, <1>3, FS_Subset, FS_CardinalityType

-----------------------------------------------------------------------------
(* Every step of the bus keeps the types *)

\* An insert mints one message and adds its row (append, park).
LEMMA InsertType ==
    ASSUME BusTypeOK, NEW s \in Apps \union {Component}, NEW c \in Channels, NEW r \in Nat,
           NEW d \in Deadlines, NEW t \in Nat, Insert(s, c, r, d, t)
    PROVE  /\ DOMAIN rows' \subseteq 1..minted' /\ rows' \in [DOMAIN rows' -> Row]
           /\ minted' \in 0..MaxMessages /\ minted' = minted + 1
           /\ last_seq' \in [Channels -> Nat] /\ next_owed' = next_owed
           /\ unannounced' \subseteq Channels
<1> DEFINE row == [channel |-> c, sender |-> s, deadline |-> d,
                   release |-> IF r > t THEN r ELSE None,
                   seq |-> IF r > t THEN None ELSE last_seq[c] + 1]
<1>1. minted \in Nat /\ MaxMessages \in Nat /\ last_seq[c] \in Nat
    BY BusBounds, SMTT(30) DEF BusTypeOK
<1>2. row \in Row
    BY <1>1 DEF Row, None
<1>3. /\ minted < MaxMessages /\ minted' = minted + 1
      /\ rows' = [n \in DOMAIN rows \union {minted + 1} |-> IF n = minted + 1 THEN row ELSE rows[n]]
    BY DEF Insert
<1>4. DOMAIN rows' = DOMAIN rows \union {minted + 1} BY <1>3
<1>5. DOMAIN rows' \subseteq 1..minted'
    BY <1>1, <1>3, <1>4, SMTT(30) DEF BusTypeOK
<1>6. \A n \in DOMAIN rows : rows[n] \in Row BY DEF BusTypeOK
<1>7. rows' \in [DOMAIN rows' -> Row]
    <2> HIDE DEF row
    <2> QED BY <1>2, <1>3, <1>4, <1>6
<1>8. last_seq' \in [Channels -> Nat]
    BY <1>1, SMTT(30) DEF Insert, BusTypeOK
<1>9. next_owed' = next_owed /\ unannounced' \subseteq Channels
    BY DEF Insert, BusTypeOK
<1> QED BY <1>1, <1>3, <1>5, <1>7, <1>8, <1>9, SMTT(30)

\* A cancel removes rows and adds none (delete_deferred).
LEMMA WithdrawType ==
    ASSUME BusTypeOK, NEW m, Withdraw(m)
    PROVE  DOMAIN rows' \subseteq DOMAIN rows /\ rows' \in [DOMAIN rows' -> Row]
BY DEF Withdraw, BusTypeOK

\* An edit of a release time or a deadline keeps the row a row.
LEMMA RewriteType ==
    ASSUME BusTypeOK, NEW m \in DOMAIN rows, NEW r \in Nat, NEW d \in Deadlines
    PROVE  /\ [rows[m] EXCEPT !.release = r] \in Row
           /\ [rows[m] EXCEPT !.release = r, !.deadline = d] \in Row
<1>1. rows[m] \in Row BY DEF BusTypeOK
<1> QED BY <1>1 DEF Row

\* A reschedule keeps the rows' set and types (update_deferred).
LEMMA RescheduleType ==
    ASSUME BusTypeOK, NEW m \in DOMAIN rows, NEW r \in Nat, Reschedule(m, r)
    PROVE  DOMAIN rows' = DOMAIN rows /\ rows' \in [DOMAIN rows' -> Row]
<1>1. rows' = [rows EXCEPT ![m] = [rows[m] EXCEPT !.release = r]]
    BY DEF Reschedule
<1>2. PICK d : d \in Deadlines BY BusBounds
<1>3. [rows[m] EXCEPT !.release = r] \in Row BY <1>2, RewriteType
<1> QED BY <1>1, <1>3 DEF BusTypeOK

\* The second half of an app's edit keeps the rows' set and types (edit).
LEMMA EditUpdateType ==
    ASSUME BusTypeOK, NEW fields, NEW r \in Nat, NEW d \in Deadlines, EditUpdate(fields, r, d)
    PROVE  DOMAIN rows' = DOMAIN rows /\ rows' \in [DOMAIN rows' -> Row]
<1> DEFINE release == IF "deliver_after" \in fields THEN Max({r, now}) ELSE rows[editing].release
           deadline == IF "delivery_deadline" \in fields THEN d ELSE rows[editing].deadline
           row == [rows[editing] EXCEPT !.release = release, !.deadline = deadline]
<1>1. editing \in DOMAIN rows /\ rows[editing] \in Row /\ now \in Nat
    BY DEF EditUpdate, BusTypeOK
<1>2. release \in Nat BY <1>1, MaxOfTwo DEF Row
<1>3. deadline \in Deadlines BY <1>1 DEF Row
<1>4. row \in Row BY <1>1, <1>2, <1>3, RewriteType
<1>5. rows' = [rows EXCEPT ![editing].release = release, ![editing].deadline = deadline]
    BY DEF EditUpdate
<1>6. rows' = [rows EXCEPT ![editing] = row]
    BY <1>1, <1>5 DEF Row
<1> QED BY <1>1, <1>4, <1>6 DEF BusTypeOK

\* What a release does to the rows: those due get a position and lose their
\* release time, the others stay as they are.
LEMMA ReleaseRows ==
    ASSUME BusTypeOK, NEW c \in Channels, NEW t, Release(c, t)
    PROVE  /\ DOMAIN rows' = DOMAIN rows /\ rows' \in [DOMAIN rows' -> Row]
           /\ \A m \in DueOn(c, t) : rows'[m].release = None
           /\ \A m \in DueOn(c, t) : /\ rows'[m].channel = c
                                     /\ rows'[m].seq \in last_seq[c] + 1 .. last_seq'[c]
           /\ \A m \in DOMAIN rows \ DueOn(c, t) : rows'[m] = rows[m]
           /\ last_seq' \in [Channels -> Nat]
           /\ \A d \in Channels : last_seq[d] <= last_seq'[d]
<1> DEFINE due == DueOn(c, t)
           seq(m) == last_seq[c] + 1 + Cardinality({n \in due : ReleasedBefore(n, m)})
<1>1. due \subseteq DOMAIN rows BY DEF DueOn, ParkedOn, Parked
<1>2. last_seq[c] \in Nat BY DEF BusTypeOK
<1>3. Cardinality(due) \in Nat BY <1>1, MessagesCount
<1>4. \A m \in due : seq(m) \in last_seq[c] + 1 .. last_seq[c] + Cardinality(due)
    <2> SUFFICES ASSUME NEW m \in due
                 PROVE  seq(m) \in last_seq[c] + 1 .. last_seq[c] + Cardinality(due)
        OBVIOUS
    <2> DEFINE before == {n \in due : ReleasedBefore(n, m)}
    <2>1. before \subseteq DOMAIN rows /\ before \subseteq due BY <1>1
    <2>2. Cardinality(before) \in Nat BY <2>1, MessagesCount
    <2>3. m \in Nat /\ rows[m].release \in Nat
        BY <1>1, SMTT(30) DEF BusTypeOK, Row
    <2>4. m \notin before BY <2>3 DEF ReleasedBefore
    <2>5. IsFiniteSet(due) BY <1>1, MessagesCount
    <2>6. Cardinality(before) <= Cardinality(due) /\ Cardinality(before) # Cardinality(due)
        BY <2>1, <2>4, <2>5, FS_Subset
    <2> HIDE DEF before
    <2>7. last_seq[c] + 1 + Cardinality(before) \in last_seq[c] + 1 .. last_seq[c] + Cardinality(due)
        BY <1>2, <1>3, <2>2, <2>6
    <2> QED BY <2>7 DEF before
<1>5. /\ rows' = [m \in DOMAIN rows |->
                    IF m \in due THEN [rows[m] EXCEPT !.release = None, !.seq = seq(m)]
                    ELSE rows[m]]
      /\ last_seq' = [last_seq EXCEPT ![c] = @ + Cardinality(due)]
    BY DEF Release, ReleaseDueOn
<1> HIDE DEF seq, due
<1>6. \A m \in DOMAIN rows : rows[m] \in Row BY DEF BusTypeOK
<1>7. \A m \in due : seq(m) \in Nat BY <1>2, <1>4
<1>8. \A m \in due : [rows[m] EXCEPT !.release = None, !.seq = seq(m)] \in Row
    BY <1>1, <1>7, <1>6 DEF Row, None
<1>9. DOMAIN rows' = DOMAIN rows /\ rows' \in [DOMAIN rows' -> Row]
    BY <1>5, <1>6, <1>8
<1>10. \A m \in due : /\ rows'[m].release = None /\ rows'[m].channel = rows[m].channel
                     /\ rows'[m].seq = seq(m)
    BY <1>1, <1>5, <1>6 DEF Row
<1>11. \A m \in due : rows[m].channel = c BY DEF due, DueOn, ParkedOn
<1>12. \A m \in DOMAIN rows \ due : rows'[m] = rows[m]
    BY <1>5
<1>13. last_seq' \in [Channels -> Nat]
    <2>1. last_seq \in [Channels -> Nat] BY DEF BusTypeOK
    <2>2. last_seq[c] + Cardinality(due) \in Nat BY <1>2, <1>3
    <2>3. last_seq' = [last_seq EXCEPT ![c] = last_seq[c] + Cardinality(due)] BY <1>5
    <2> QED BY <2>1, <2>2, <2>3
<1>14. last_seq'[c] = last_seq[c] + Cardinality(due)
    BY <1>5 DEF BusTypeOK
<1>15. ASSUME NEW d \in Channels PROVE last_seq[d] <= last_seq'[d]
    <2>1. last_seq[d] \in Nat BY DEF BusTypeOK
    <2>2. CASE d = c BY <1>3, <1>14, <2>1, <2>2
    <2>3. CASE d # c
        <3>1. last_seq'[d] = last_seq[d] BY <1>5, <2>3 DEF BusTypeOK
        <3> QED BY <2>1, <3>1
    <2> QED BY <2>2, <2>3
<1>16. \A m \in due : rows'[m].seq \in last_seq[c] + 1 .. last_seq'[c]
    BY <1>4, <1>10, <1>14
<1> QED BY <1>9, <1>10, <1>11, <1>12, <1>13, <1>15, <1>16 DEF due

\* The empty store is of its types.
LEMMA BusInitType == BusInit => BusTypeOK
<1> SUFFICES ASSUME BusInit PROVE BusTypeOK OBVIOUS
<1>1. DOMAIN rows = {} BY DEF BusInit
<1>2. rows \in [DOMAIN rows -> Row] BY <1>1 DEF BusInit
<1>3. last_seq \in [Channels -> Nat] /\ next_owed \in [Channels -> Nat \ {0}]
    BY DEF BusInit
<1>4. minted \in 0..MaxMessages /\ editing \in 0..minted /\ events \in Nat /\ now \in Nat \ {0}
    BY BusBounds DEF BusInit, None
<1> QED BY <1>1, <1>2, <1>3, <1>4 DEF BusInit, BusTypeOK

\* A publish keeps the types of the bus (append, park).
LEMMA PublishType ==
    ASSUME BusTypeOK, NEW s \in Apps \union {Component}, NEW c \in Channels, NEW r \in Nat,
           NEW d \in Deadlines, NEW t \in Nat, Publish(s, c, r, d, t)
    PROVE  BusTypeOK'
<1>1. Insert(s, c, r, d, t) /\ UNCHANGED <<now, service, notify, editing, torn, events>>
    BY DEF Publish, edit
<1>2. /\ DOMAIN rows' \subseteq 1..minted' /\ rows' \in [DOMAIN rows' -> Row]
      /\ minted' \in 0..MaxMessages /\ minted' = minted + 1
      /\ last_seq' \in [Channels -> Nat] /\ next_owed' = next_owed
      /\ unannounced' \subseteq Channels
    BY <1>1, InsertType
<1>3. editing' \in 0..minted' /\ torn' \subseteq 1..minted'
    BY <1>1, <1>2, BusBounds, SMTT(30) DEF BusTypeOK
<1> QED BY <1>1, <1>2, <1>3 DEF BusTypeOK

\* A cancel keeps the types of the bus.
LEMMA WithdrawKeepsTypes ==
    ASSUME BusTypeOK, NEW m, Withdraw(m), UNCHANGED <<now, service, notify, edit, events>>
    PROVE  BusTypeOK'
BY WithdrawType DEF BusTypeOK, Withdraw, edit

\* Each operation of an app keeps the types: publish, cancel, the two halves of an edit.
LEMMA AppWritesType == ASSUME BusTypeOK, AppWrites PROVE BusTypeOK'
<1>0. now \in Nat BY DEF BusTypeOK
<1>1. CASE \E s \in Apps, c \in Channels, r \in {None} \union Time, d \in Deadlines, t \in 1..now :
              Publish(s, c, r, d, t)
    BY <1>0, <1>1, PublishType DEF None, Time
<1>2. CASE \E m \in DOMAIN rows : Cancel(m)
    BY <1>2, WithdrawKeepsTypes DEF Cancel
<1>3. ASSUME NEW fields, NEW r \in Time, NEW d \in Deadlines, EditUpdate(fields, r, d)
      PROVE  BusTypeOK'
    <2>1. DOMAIN rows' = DOMAIN rows /\ rows' \in [DOMAIN rows' -> Row]
        BY <1>3, EditUpdateType DEF Time
    <2>2. editing \in DOMAIN rows /\ torn' \subseteq torn \union {editing} /\ editing' = 0
        BY <1>3 DEF EditUpdate, None
    <2>3. editing' \in 0..minted /\ torn' \subseteq 1..minted
        BY <2>2, BusBounds, SMTT(30) DEF BusTypeOK
    <2> QED BY <1>3, <2>1, <2>3 DEF BusTypeOK, EditUpdate
<1> QED BY <1>1, <1>2, <1>3 DEF AppWrites

\* So do the steps of an app that write no row: an edit's lookup, refusal and panic.
LEMMA AppStepsType == ASSUME BusTypeOK, AppSteps PROVE BusTypeOK'
<1>1. ASSUME NEW m \in DOMAIN rows, EditLookup(m) PROVE BusTypeOK'
    BY <1>1, SMTT(30) DEF BusTypeOK, EditLookup, store
<1>2. CASE EditUpdate({}, None, None)
    <2>1. DOMAIN rows' = DOMAIN rows /\ rows' \in [DOMAIN rows' -> Row]
        BY <1>2, EditUpdateType, BusBounds DEF None
    <2>2. torn' = torn /\ editing' = 0 BY <1>2 DEF EditUpdate, None
    <2> QED BY <1>2, <2>1, <2>2, BusBounds, SMTT(30) DEF BusTypeOK, EditUpdate
<1>3. CASE EditPanics
    BY <1>3, BusBounds, SMTT(30) DEF BusTypeOK, EditPanics, store, None
<1> QED BY <1>1, <1>2, <1>3 DEF AppSteps

\* So do the publishes, cancels and edits a component's activation makes.
LEMMA ComponentWritesType == ASSUME BusTypeOK, ComponentWrites PROVE BusTypeOK'
<1>0. now \in Nat /\ None \in Deadlines BY BusBounds DEF BusTypeOK
<1>1. CASE \E c \in Channels, r \in {None} \union Time, t \in 1..now :
              Publish(Component, c, r, None, t)
    BY <1>0, <1>1, PublishType DEF None, Time
<1>2. CASE \E m \in DOMAIN rows, t \in 1..now : CancelDeferred(Component, m, t)
    BY <1>2, WithdrawKeepsTypes DEF CancelDeferred
<1>3. ASSUME NEW m \in DOMAIN rows, NEW r \in Time, NEW t, EditDeferred(Component, m, r, t)
      PROVE  BusTypeOK'
    <2>1. DOMAIN rows' = DOMAIN rows /\ rows' \in [DOMAIN rows' -> Row]
        BY <1>3, RescheduleType DEF EditDeferred, Time
    <2> QED BY <1>3, <2>1 DEF BusTypeOK, EditDeferred, Reschedule, edit
<1> QED BY <1>1, <1>2, <1>3 DEF ComponentWrites

\* So do the consumer's advances and wakes, and the steps of its reload.
LEMMA ConsumerStepsType == ASSUME BusTypeOK, ConsumerSteps PROVE BusTypeOK'
<1>1. ASSUME NEW c \in Channels, NEW through \in 1..last_seq[c], Advance(c, through)
      PROVE  BusTypeOK'
    <2>1. last_seq[c] \in Nat BY DEF BusTypeOK
    <2>2. through + 1 \in Nat \ {0} BY <2>1
    <2>3. next_owed' \in [Channels -> Nat \ {0}]
        BY <1>1, <2>2 DEF BusTypeOK, Advance
    <2> QED BY <1>1, <2>3 DEF BusTypeOK, Advance, edit
<1>2. CASE Notified BY <1>2 DEF BusTypeOK, Notified, store, edit
<1>3. CASE Depart BY <1>3, SMTT(30) DEF BusTypeOK, Depart, store, edit
<1>4. CASE Retire BY <1>4 DEF BusTypeOK, Retire, store, edit
<1>5. CASE Arrive BY <1>5 DEF BusTypeOK, Arrive, store, edit
<1> QED BY <1>1, <1>2, <1>3, <1>4, <1>5 DEF ConsumerSteps

\* So does the release sweep of a channel (release_due).
LEMMA ReleaseType ==
    ASSUME BusTypeOK, NEW c \in Channels, NEW t, Release(c, t)
    PROVE  BusTypeOK'
<1>1. DOMAIN rows' = DOMAIN rows /\ rows' \in [DOMAIN rows' -> Row] /\ last_seq' \in [Channels -> Nat]
    BY ReleaseRows
<1>2. UNCHANGED <<minted, next_owed, now, service, notify, editing, torn, events>>
    BY DEF Release, ReleaseDueOn, edit
<1>3. unannounced' \subseteq Channels BY DEF BusTypeOK, Release, ReleaseDueOn
<1> QED BY <1>1, <1>2, <1>3 DEF BusTypeOK

\* The messages' store, the positions and the calls keep their types.
LEMMA BusNextType == ASSUME BusTypeOK, [BusNext]_busvars PROVE BusTypeOK'
<1>1. ASSUME NEW c \in Channels, Wake(c) PROVE BusTypeOK'
    BY <1>1 DEF BusTypeOK, Wake, store, edit
<1>2. CASE Tick BY <1>2, SMTT(30) DEF BusTypeOK, Tick, store, edit
<1>3. CASE Crash
    <2>1. editing' \in 0..minted' /\ events' \in Nat
        BY <1>3, BusBounds, SMTT(30) DEF BusTypeOK, Crash, store, None
    <2> QED BY <1>3, <2>1 DEF BusTypeOK, Crash, store
<1>4. CASE UNCHANGED busvars BY <1>4 DEF BusTypeOK, busvars, store, edit
<1> QED BY <1>1, <1>2, <1>3, <1>4, AppWritesType, AppStepsType, ComponentWritesType,
           ConsumerStepsType, ReleaseType DEF BusNext, ReleaseStep

\* The clock never goes back.
LEMMA ClockAdvances ==
    ASSUME BusTypeOK, [BusNext]_busvars
    PROVE  now' >= now
<1>0. now \in Nat BY DEF BusTypeOK
<1>1. CASE AppWrites \/ AppSteps \/ ComponentWrites
    <2>1. now' = now
        BY <1>1 DEF AppWrites, AppSteps, ComponentWrites, Publish, Cancel, EditUpdate, EditLookup,
            EditPanics, CancelDeferred, EditDeferred
    <2> QED BY <1>0, <2>1
<1>2. CASE ConsumerSteps
    BY <1>0, <1>2 DEF ConsumerSteps, Advance, Notified, Depart, Retire, Arrive
<1>3. CASE \E c \in Channels : ReleaseStep(c) \/ Wake(c)
    BY <1>0, <1>3, SMTT(30) DEF ReleaseStep, Release, Wake
<1>4. CASE Tick \/ Crash \/ UNCHANGED busvars
    <2>1. now' = now \/ now' = now + 1 BY <1>4 DEF Tick, Crash, busvars
    <2> QED BY <1>0, <2>1
<1> QED BY <1>1, <1>2, <1>3, <1>4 DEF BusNext

-----------------------------------------------------------------------------
(* What is retained is final *)

\* A publish adds a row and touches no other.
LEMMA PublishIsFinal ==
    ASSUME BusTypeOK, BothIsTorn, NEW s, NEW c \in Channels, NEW r \in Nat,
           NEW d, NEW t \in Nat, Publish(s, c, r, d, t)
    PROVE  BothIsTorn' /\ StepIsFinal
<1> DEFINE row == [channel |-> c, sender |-> s, deadline |-> d,
                   release |-> IF r > t THEN r ELSE None,
                   seq |-> IF r > t THEN None ELSE last_seq[c] + 1]
<1>1. /\ rows' = [n \in DOMAIN rows \union {minted + 1} |->
                    IF n = minted + 1 THEN row ELSE rows[n]]
      /\ torn' = torn
    BY DEF Publish, Insert, edit
<1>2. minted + 1 \notin DOMAIN rows BY BusBounds, SMTT(30) DEF BusTypeOK
<1>3. row.release = None \/ row.seq = None OBVIOUS
<1> HIDE DEF row
<1>4. \A m \in DOMAIN rows : m \in DOMAIN rows' /\ rows'[m] = rows[m]
    BY <1>1, <1>2
<1>5. \A m \in DOMAIN rows' : m \in DOMAIN rows \/ rows'[m] = row
    BY <1>1
<1>6. BothIsTorn' BY <1>1, <1>3, <1>4, <1>5 DEF BothIsTorn
<1> QED BY <1>4, <1>6 DEF StepIsFinal

\* Only what is parked is withdrawn.
LEMMA WithdrawIsFinal ==
    ASSUME BothIsTorn, NEW m \in Parked, Withdraw(m), torn' = torn
    PROVE  BothIsTorn' /\ StepIsFinal
BY DEF BothIsTorn, StepIsFinal, Withdraw, Parked

\* Only what is parked is rescheduled, ...
LEMMA RescheduleIsFinal ==
    ASSUME BusTypeOK, BothIsTorn, NEW m \in Parked, NEW r \in Nat, Reschedule(m, r), torn' = torn
    PROVE  BothIsTorn' /\ StepIsFinal
<1>1. rows' = [rows EXCEPT ![m] = [rows[m] EXCEPT !.release = r]]
    BY DEF Reschedule
<1>2. m \in DOMAIN rows /\ rows[m] \in Row /\ rows[m].release # None BY DEF BusTypeOK, Parked
<1>3. rows'[m].seq = rows[m].seq /\ rows'[m].channel = rows[m].channel
    BY <1>1, <1>2 DEF Row
<1>4. DOMAIN rows' = DOMAIN rows /\ \A n \in DOMAIN rows \ {m} : rows'[n] = rows[n]
    BY <1>1
<1> QED BY <1>2, <1>3, <1>4 DEF BothIsTorn, StepIsFinal

\* ... except by an app's edit, whose second half does not look again.
LEMMA EditUpdateIsFinal ==
    ASSUME BusTypeOK, BothIsTorn, NEW fields, NEW r, NEW d, EditUpdate(fields, r, d)
    PROVE  BothIsTorn' /\ StepIsFinal
<1> DEFINE release == IF "deliver_after" \in fields THEN Max({r, now}) ELSE rows[editing].release
           deadline == IF "delivery_deadline" \in fields THEN d ELSE rows[editing].deadline
<1>1. /\ editing \in DOMAIN rows
      /\ rows' = [rows EXCEPT ![editing].release = release, ![editing].deadline = deadline]
      /\ torn' = IF "deliver_after" \in fields /\ rows[editing].seq # None
                 THEN torn \union {editing} ELSE torn
    BY DEF EditUpdate
<1>2. rows[editing] \in Row BY <1>1 DEF BusTypeOK
<1>3. DOMAIN rows' = DOMAIN rows /\ \A n \in DOMAIN rows \ {editing} : rows'[n] = rows[n]
    BY <1>1
<1>4. /\ rows'[editing].seq = rows[editing].seq /\ rows'[editing].release = release
      /\ rows'[editing].channel = rows[editing].channel
    BY <1>1, <1>2 DEF Row
<1>5. torn \subseteq torn' BY <1>1
<1>6. rows[editing].seq # None /\ editing \notin torn' => release = rows[editing].release
    BY <1>1
<1> HIDE DEF release, deadline
<1> QED BY <1>1, <1>3, <1>4, <1>5, <1>6 DEF BothIsTorn, StepIsFinal

\* A release takes parked rows only.
LEMMA ReleaseIsFinal ==
    ASSUME BusTypeOK, BothIsTorn, NEW c \in Channels, NEW t, Release(c, t)
    PROVE  BothIsTorn' /\ StepIsFinal
<1>1. torn' = torn BY DEF Release, edit
<1>2. \A m \in DueOn(c, t) : m \in DOMAIN rows /\ rows[m].release # None
    BY DEF DueOn, ParkedOn, Parked
<1> QED BY <1>1, <1>2, ReleaseRows, SMTT(30) DEF BothIsTorn, StepIsFinal

\* A step that leaves the rows alone leaves what is retained where it is.
LEMMA RowsUntouchedIsFinal ==
    ASSUME BothIsTorn, rows' = rows, torn' = torn
    PROVE  BothIsTorn' /\ StepIsFinal
BY DEF BothIsTorn, StepIsFinal

\* A step of the bus leaves each retained row in place unless an edit tore it, and
\* tears no row in silence.
LEMMA BusNextIsFinal ==
    ASSUME BusTypeOK, BothIsTorn, [BusNext]_busvars
    PROVE  BothIsTorn' /\ StepIsFinal
<1>0. now \in Nat BY DEF BusTypeOK
<1>1. CASE AppWrites
    <2>1. ASSUME NEW s \in Apps, NEW c \in Channels, NEW r \in {None} \union Time,
                 NEW d \in Deadlines, NEW t \in 1..now, Publish(s, c, r, d, t)
          PROVE  BothIsTorn' /\ StepIsFinal
        BY <1>0, <2>1, PublishIsFinal DEF None, Time
    <2>2. ASSUME NEW m \in DOMAIN rows, Cancel(m) PROVE BothIsTorn' /\ StepIsFinal
        BY <2>2, WithdrawIsFinal DEF Cancel, edit
    <2> QED BY <1>1, <2>1, <2>2, EditUpdateIsFinal DEF AppWrites
<1>2. CASE AppSteps
    BY <1>2, EditUpdateIsFinal, RowsUntouchedIsFinal DEF AppSteps, EditLookup, EditPanics, store
<1>3. CASE ComponentWrites
    <2>1. ASSUME NEW c \in Channels, NEW r \in {None} \union Time, NEW t \in 1..now,
                 Publish(Component, c, r, None, t)
          PROVE  BothIsTorn' /\ StepIsFinal
        BY <1>0, <2>1, PublishIsFinal DEF None, Time
    <2>2. ASSUME NEW m \in DOMAIN rows, NEW t, CancelDeferred(Component, m, t)
          PROVE  BothIsTorn' /\ StepIsFinal
        BY <2>2, WithdrawIsFinal DEF CancelDeferred, OwnedDeferred, edit
    <2>3. ASSUME NEW m \in DOMAIN rows, NEW r \in Time, NEW t, EditDeferred(Component, m, r, t)
          PROVE  BothIsTorn' /\ StepIsFinal
        BY <2>3, RescheduleIsFinal DEF EditDeferred, OwnedDeferred, edit, Time
    <2> QED BY <1>3, <2>1, <2>2, <2>3 DEF ComponentWrites
<1>4. CASE ConsumerSteps
    BY <1>4, RowsUntouchedIsFinal
       DEF ConsumerSteps, Advance, Notified, Depart, Retire, Arrive, store, edit
<1>5. ASSUME NEW c \in Channels, ReleaseStep(c) \/ Wake(c) PROVE BothIsTorn' /\ StepIsFinal
    BY <1>5, ReleaseIsFinal, RowsUntouchedIsFinal DEF ReleaseStep, Wake, store, edit
<1>6. CASE Tick \/ Crash \/ UNCHANGED busvars
    BY <1>6, RowsUntouchedIsFinal DEF Tick, Crash, busvars, store, edit
<1> QED BY <1>1, <1>2, <1>3, <1>4, <1>5, <1>6 DEF BusNext

\* On every bus, a message that entered retention keeps its position and its
\* place whatever cancels, edits, releases and crashes come after, unless an
\* app's edit had found it parked before it was released.
THEOREM BusRetainsForGood == BusSpec => RetainedIsFinal
<1>1. BusInit => BusTypeOK /\ BothIsTorn
    BY BusInitType, SMTT(30) DEF BusInit, BothIsTorn
<1>2. BusTypeOK /\ BothIsTorn /\ [BusNext]_busvars => BusTypeOK' /\ BothIsTorn'
    BY BusNextType, BusNextIsFinal
<1>3. BusTypeOK /\ BothIsTorn /\ [BusNext]_busvars => [StepIsFinal]_busvars
    BY BusNextIsFinal
<1>4. [StepIsFinal]_busvars
        => [\A m \in DOMAIN rows :
              rows[m].seq # None /\ m \notin torn'
                  => /\ m \in DOMAIN rows' /\ rows'[m].seq = rows[m].seq
                     /\ rows'[m].release = rows[m].release]_busvars
    BY DEF StepIsFinal
<1> QED BY <1>1, <1>2, <1>3, <1>4, PTL DEF BusSpec, RetainedIsFinal

-----------------------------------------------------------------------------
(* Positions are handed out in order *)

\* The two together, from what becomes of each row.
LEMMA AppendsInOrder ==
    ASSUME BusTypeOK, PositionsBounded, BusTypeOK', torn \subseteq torn',
           \A c \in Channels : last_seq[c] <= last_seq'[c],
           \A m \in DOMAIN rows' :
              \/ /\ m \in DOMAIN rows /\ rows'[m].seq = rows[m].seq
                 /\ rows'[m].channel = rows[m].channel
              \/ rows'[m].seq = None
              \/ /\ last_seq[rows'[m].channel] < rows'[m].seq
                 /\ rows'[m].seq <= last_seq'[rows'[m].channel]
    PROVE  PositionsBounded' /\ StepAppends
<1>1. StepAppends BY DEF StepAppends
<1>2. ASSUME NEW m \in DOMAIN rows' PROVE rows'[m].seq <= last_seq'[rows'[m].channel]
    <2> DEFINE c == rows'[m].channel
    <2>1. rows'[m] \in Row BY DEF BusTypeOK
    <2>2. c \in Channels /\ rows'[m].seq \in Nat BY <2>1 DEF Row
    <2>3. last_seq[c] \in Nat /\ last_seq'[c] \in Nat /\ last_seq[c] <= last_seq'[c]
        BY <2>2 DEF BusTypeOK
    <2>4. m \in DOMAIN rows => rows[m].seq <= last_seq[rows[m].channel]
        BY DEF PositionsBounded
    <2> QED BY <2>2, <2>3, <2>4 DEF None
<1> QED BY <1>1, <1>2 DEF PositionsBounded

\* A step that leaves each row its position and its channel, or takes it away.
LEMMA PositionsUntouched ==
    ASSUME BusTypeOK, PositionsBounded, BusTypeOK', torn \subseteq torn', last_seq' = last_seq,
           \A m \in DOMAIN rows' : /\ m \in DOMAIN rows /\ rows'[m].seq = rows[m].seq
                                   /\ rows'[m].channel = rows[m].channel
    PROVE  PositionsBounded' /\ StepAppends
<1>1. \A c \in Channels : last_seq[c] \in Nat BY DEF BusTypeOK
<1>2. \A c \in Channels : last_seq[c] <= last_seq'[c] BY <1>1
<1> QED BY <1>2, AppendsInOrder

\* A publish takes the channel's next position, if it takes one (append).
LEMMA PublishAppends ==
    ASSUME BusTypeOK, PositionsBounded, BusTypeOK', NEW s, NEW c \in Channels, NEW r \in Nat,
           NEW d, NEW t \in Nat, Publish(s, c, r, d, t)
    PROVE  PositionsBounded' /\ StepAppends
<1> DEFINE row == [channel |-> c, sender |-> s, deadline |-> d,
                   release |-> IF r > t THEN r ELSE None,
                   seq |-> IF r > t THEN None ELSE last_seq[c] + 1]
<1>1. /\ rows' = [n \in DOMAIN rows \union {minted + 1} |->
                    IF n = minted + 1 THEN row ELSE rows[n]]
      /\ last_seq' = [last_seq EXCEPT ![c] = IF r > t THEN last_seq[c] ELSE last_seq[c] + 1]
      /\ torn' = torn
    BY DEF Publish, Insert, edit
<1>2. \A e \in Channels : last_seq[e] \in Nat BY DEF BusTypeOK
<1>3. last_seq'[c] = IF r > t THEN last_seq[c] ELSE last_seq[c] + 1
    BY <1>1 DEF BusTypeOK
<1>4. \A e \in Channels \ {c} : last_seq'[e] = last_seq[e] BY <1>1 DEF BusTypeOK
<1>5. \A e \in Channels : last_seq[e] <= last_seq'[e]
    BY <1>2, <1>3, <1>4
<1>6. /\ row.channel = c
      /\ row.seq = None \/ (last_seq[c] < row.seq /\ row.seq <= last_seq'[c])
    BY <1>2, <1>3
<1> HIDE DEF row
<1>7. \A m \in DOMAIN rows' : rows'[m] = row \/ (m \in DOMAIN rows /\ rows'[m] = rows[m])
    BY <1>1
<1> QED BY <1>1, <1>5, <1>6, <1>7, AppendsInOrder

\* An edit gives out no position (update_deferred).
LEMMA EditUpdateAppends ==
    ASSUME BusTypeOK, PositionsBounded, BusTypeOK', NEW fields, NEW r, NEW d,
           EditUpdate(fields, r, d)
    PROVE  PositionsBounded' /\ StepAppends
<1> DEFINE release == IF "deliver_after" \in fields THEN Max({r, now}) ELSE rows[editing].release
           deadline == IF "delivery_deadline" \in fields THEN d ELSE rows[editing].deadline
<1>1. /\ editing \in DOMAIN rows /\ torn \subseteq torn' /\ last_seq' = last_seq
      /\ rows' = [rows EXCEPT ![editing].release = release, ![editing].deadline = deadline]
    BY DEF EditUpdate
<1> HIDE DEF release, deadline
<1>2. rows[editing] \in Row BY <1>1 DEF BusTypeOK
<1>3. DOMAIN rows' = DOMAIN rows /\ \A n \in DOMAIN rows \ {editing} : rows'[n] = rows[n]
    BY <1>1
<1>4. rows'[editing].seq = rows[editing].seq /\ rows'[editing].channel = rows[editing].channel
    BY <1>1, <1>2 DEF Row
<1> QED BY <1>1, <1>3, <1>4, PositionsUntouched

\* Neither does a component's reschedule of a parked message.
LEMMA RescheduleAppends ==
    ASSUME BusTypeOK, PositionsBounded, BusTypeOK', NEW m \in Parked, NEW r, Reschedule(m, r),
           torn' = torn
    PROVE  PositionsBounded' /\ StepAppends
<1>1. rows' = [rows EXCEPT ![m] = [rows[m] EXCEPT !.release = r]] /\ last_seq' = last_seq
    BY DEF Reschedule
<1>2. m \in DOMAIN rows /\ rows[m] \in Row BY DEF BusTypeOK, Parked
<1>3. DOMAIN rows' = DOMAIN rows /\ \A n \in DOMAIN rows \ {m} : rows'[n] = rows[n]
    BY <1>1
<1>4. rows'[m].seq = rows[m].seq /\ rows'[m].channel = rows[m].channel
    BY <1>1, <1>2 DEF Row
<1> QED BY <1>1, <1>3, <1>4, PositionsUntouched

\* Neither does a cancel.
LEMMA WithdrawAppends ==
    ASSUME BusTypeOK, PositionsBounded, BusTypeOK', NEW m, Withdraw(m), torn' = torn
    PROVE  PositionsBounded' /\ StepAppends
BY PositionsUntouched DEF Withdraw

\* A release gives positions above all the channel had given (release_due).
LEMMA ReleaseAppends ==
    ASSUME BusTypeOK, PositionsBounded, BusTypeOK', NEW c \in Channels, NEW t, Release(c, t)
    PROVE  PositionsBounded' /\ StepAppends
<1>1. torn' = torn BY DEF Release, edit
<1>2. last_seq[c] \in Nat /\ last_seq'[c] \in Nat BY DEF BusTypeOK
<1>3. \A m \in DueOn(c, t) : /\ rows'[m].channel = c
                             /\ last_seq[c] < rows'[m].seq /\ rows'[m].seq <= last_seq'[c]
    BY <1>2, ReleaseRows, SMTT(30)
<1> QED BY <1>1, <1>3, ReleaseRows, AppendsInOrder

\* Every step of the bus hands positions out in order.
LEMMA BusNextAppends ==
    ASSUME BusTypeOK, PositionsBounded, [BusNext]_busvars
    PROVE  PositionsBounded' /\ StepAppends
<1>0. now \in Nat /\ BusTypeOK' BY BusNextType DEF BusTypeOK
<1>1. CASE AppWrites
    <2>1. ASSUME NEW s \in Apps, NEW c \in Channels, NEW r \in {None} \union Time,
                 NEW d \in Deadlines, NEW t \in 1..now, Publish(s, c, r, d, t)
          PROVE  PositionsBounded' /\ StepAppends
        BY <1>0, <2>1, PublishAppends DEF None, Time
    <2>2. ASSUME NEW m \in DOMAIN rows, Cancel(m) PROVE PositionsBounded' /\ StepAppends
        BY <1>0, <2>2, WithdrawAppends DEF Cancel, edit
    <2> QED BY <1>0, <1>1, <2>1, <2>2, EditUpdateAppends DEF AppWrites
<1>2. ASSUME rows' = rows, torn' = torn, last_seq' = last_seq
      PROVE  PositionsBounded' /\ StepAppends
    BY <1>0, <1>2, PositionsUntouched
<1>3. CASE AppSteps
    BY <1>0, <1>2, <1>3, EditUpdateAppends DEF AppSteps, EditLookup, EditPanics, store
<1>4. CASE ComponentWrites
    <2>1. ASSUME NEW c \in Channels, NEW r \in {None} \union Time, NEW t \in 1..now,
                 Publish(Component, c, r, None, t)
          PROVE  PositionsBounded' /\ StepAppends
        BY <1>0, <2>1, PublishAppends DEF None, Time
    <2>2. ASSUME NEW m \in DOMAIN rows, NEW t, CancelDeferred(Component, m, t)
          PROVE  PositionsBounded' /\ StepAppends
        BY <1>0, <2>2, WithdrawAppends DEF CancelDeferred, edit
    <2>3. ASSUME NEW m \in DOMAIN rows, NEW r, NEW t, EditDeferred(Component, m, r, t)
          PROVE  PositionsBounded' /\ StepAppends
        BY <1>0, <2>3, RescheduleAppends DEF EditDeferred, OwnedDeferred, edit
    <2> QED BY <1>4, <2>1, <2>2, <2>3 DEF ComponentWrites
<1>5. CASE ConsumerSteps
    BY <1>2, <1>5 DEF ConsumerSteps, Advance, Notified, Depart, Retire, Arrive, store, edit
<1>6. ASSUME NEW c \in Channels, ReleaseStep(c) \/ Wake(c)
      PROVE  PositionsBounded' /\ StepAppends
    BY <1>0, <1>2, <1>6, ReleaseAppends DEF ReleaseStep, Wake, store, edit
<1>7. CASE Tick \/ Crash \/ UNCHANGED busvars
    BY <1>2, <1>7 DEF Tick, Crash, busvars, store, edit
<1> QED BY <1>1, <1>3, <1>4, <1>5, <1>6, <1>7 DEF BusNext

-----------------------------------------------------------------------------
(* Together *)

\* The empty store satisfies the invariant of the bus.
LEMMA BusInitInv == BusInit => BusInv
<1> SUFFICES ASSUME BusInit PROVE BusInv OBVIOUS
<1>1. DOMAIN rows = {} BY DEF BusInit
<1> QED BY <1>1, BusInitType DEF BusInv, BothIsTorn, PositionsBounded

\* Every step of the bus keeps its invariant, and the rows and the clock with it.
LEMMA BusNextKeeps ==
    ASSUME BusInv, [BusNext]_busvars
    PROVE  BusInv' /\ StepKeeps
BY BusNextType, BusNextIsFinal, BusNextAppends, ClockAdvances DEF BusInv, StepKeeps
=============================================================================
