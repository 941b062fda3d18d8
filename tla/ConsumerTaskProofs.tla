--------------------------- MODULE ConsumerTaskProofs ---------------------------
(***************************************************************************)
(* For any number of ports, messages, callers and failures: the consumer's *)
(* task hands a message to a guest at most once, and accounts for every    *)
(* message its positions pass.                                             *)
(***************************************************************************)
EXTENDS ConsumerTask, DurableBusProofs, WellFoundedInduction, TLAPS

USE ZenonT(30), SMTT(30)

-----------------------------------------------------------------------------
(* The inductive invariant *)

InPort(c) == snap[c].new \union snap[c].passed

Active == {"window", "advance", "start", "running"}
Snapshot == [new : SUBSET Nat, passed : SUBSET Nat, through : Nat]
Request == [op : {"none", "cancel", "edit"}, target : Nat, publish : BOOLEAN,
            release : {None} \union Time]

TaskOK ==
    /\ step \in Active \union {"idle", "probe", "ops", "flush", "reply", "stopped", "dead"}
    /\ left \subseteq Channels /\ view \subseteq Nat
    /\ snap \in [Channels -> Snapshot] /\ out \in Request
    /\ step \in {"running", "ops", "flush"} => drain_now \in 1..now
    /\ fate \in [Messages -> {"owed", "handed", "settled", "lost"}]
    /\ service = "gone" => step \in {"stopped", "dead"}

\* A snapshot holds exactly the unseen messages up to where the position will
\* move, however many are retained after it is taken, until the position has
\* moved.
SnapOK ==
    \A c \in Channels :
        /\ next_owed[c] <= last_seq[c] + 1 /\ snap[c].through <= last_seq[c]
        /\ \A m \in InPort(c) \ torn :
              /\ m \in DOMAIN rows /\ rows[m].channel = c /\ rows[m].seq # None
              /\ rows[m].seq <= snap[c].through
        /\ \A m \in DOMAIN rows :
              rows[m].channel = c /\ next_owed[c] <= rows[m].seq /\ rows[m].seq <= snap[c].through
                  => m \in InPort(c)
        /\ step \in {"start", "running"} \/ (step = "advance" /\ c \notin left)
              => snap[c].through < next_owed[c]

\* A message leaves "owed" when the activation that has it takes it on, and not
\* before its position has passed it.
FateOK ==
    \A m \in Messages \ torn :
        /\ fate[m] # "owed" => Passed(m)
        /\ fate[m] = "handed" => step = "running" /\ NewInSnap(m)
        /\ step \in {"window", "advance", "start"} /\ InSnap(m) => fate[m] = "owed"
        /\ step = "running" /\ InSnap(m) => fate[m] # "owed"
        /\ fate[m] = "owed" /\ Passed(m) => step \in {"advance", "start"} /\ InSnap(m)

IInv == BusInv /\ TaskOK /\ SnapOK /\ FateOK

\* What the bus promises the task of each of its steps (BusNextKeeps).
BusKeeps == BusInv /\ [BusNext]_busvars => BusInv' /\ StepKeeps

\* What the read of a port returns (WindowRead).
Reads ==
    \A c \in Channels :
        /\ Window(c) \in Snapshot
        /\ Window(c).new \union Window(c).passed = Unseen(c)
        /\ Window(c).through <= last_seq[c]
        /\ \A m \in Retained(c) : rows[m].seq <= Window(c).through

-----------------------------------------------------------------------------
(* The task's steps as steps of the bus *)

\* Every step of the system, a crash included, is a step of the bus or leaves it
\* alone, and so keeps what the bus keeps.
LEMMA NextKeeps ==
    IInv /\ [Next]_vars /\ BusKeeps =>
        BusInv' /\ StepKeeps
<1>NextIsBusStep. IInv /\ [Next]_vars => [BusNext]_busvars
                  \* The position moves to where the bus lets it, or stays.
    <2>AdvanceIsBusStep. ASSUME IInv, NEW c \in left, AdvancePort(c)
          PROVE  [BusNext]_busvars
        <3> USE <2>AdvanceIsBusStep
        <3> DEFINE through == snap[c].through
        <3>1. c \in Channels /\ Advance(c, through) BY DEF AdvancePort, IInv, TaskOK
        <3>2. through \in Nat /\ through <= last_seq[c] /\ last_seq[c] \in Nat
            BY <3>1 DEF IInv, BusInv, BusTypeOK, TaskOK, SnapOK, Snapshot
        <3>3. CASE through = 0
            <4>1. next_owed[c] \in Nat \ {0} BY <3>1 DEF IInv, BusInv, BusTypeOK
            <4>2. ~(through >= next_owed[c]) BY <3>3, <4>1
            <4>3. next_owed' = next_owed
                BY <3>1, <4>2 DEF Advance, IInv, BusInv, BusTypeOK
            <4> QED BY <3>1, <4>3 DEF Advance, busvars, store
        <3>4. CASE through # 0
            <4>1. through \in 1..last_seq[c] BY <3>2, <3>4
            <4> QED BY <3>1, <4>1 DEF BusNext, ConsumerSteps
        <3> QED BY <3>3, <3>4
    <2>DeferredOpIsBusStep. ASSUME IInv, ApplyDeferredOp PROVE [BusNext]_busvars
        <3> USE <2>DeferredOpIsBusStep
        <3>0. drain_now \in 1..now BY DEF ApplyDeferredOp, IInv, TaskOK
        <3>1. CASE CancelDeferred(Component, out.target, drain_now)
            <4>1. out.target \in DOMAIN rows BY <3>1 DEF CancelDeferred, OwnedDeferred, Parked
            <4> QED BY <3>0, <3>1, <4>1 DEF BusNext, ComponentWrites
        <3>2. ASSUME NEW r \in Time, EditDeferred(Component, out.target, r, drain_now)
              PROVE  [BusNext]_busvars
            <4>1. out.target \in DOMAIN rows BY <3>2 DEF EditDeferred, OwnedDeferred, Parked
            <4> QED BY <3>0, <3>2, <4>1 DEF BusNext, ComponentWrites
        <3> QED BY <3>1, <3>2 DEF ApplyDeferredOp
    <2>FlushIsBusStep. ASSUME IInv, FlushPublish PROVE [BusNext]_busvars
        <3> USE <2>FlushIsBusStep
        <3>0. drain_now \in 1..now /\ now \in Nat
            BY DEF FlushPublish, IInv, TaskOK, BusInv, BusTypeOK
        <3>1. out.release \in {None} \union Time BY DEF IInv, TaskOK, Request
        <3>2. ASSUME NEW c \in Channels, NEW t \in drain_now..now,
                     Publish(Component, c, out.release, None, t)
              PROVE  [BusNext]_busvars
            <4>1. t \in 1..now BY <3>0
            <4> QED BY <3>1, <3>2, <4>1 DEF BusNext, ComponentWrites
        <3> QED BY <3>2 DEF FlushPublish
    <2> SUFFICES ASSUME IInv, [Next]_vars
                 PROVE  [BusNext]_busvars
        OBVIOUS
    <2>1. CASE TaskStep
        <3>1. CASE TakeNotify BY <3>1 DEF TakeNotify, BusNext, ConsumerSteps
        <3>2. CASE TakeRequest \/ TakeStop \/ Probe \/ GuestStarts \/ ReplyOk \/ GuestFails
            BY <3>2 DEF TakeRequest, TakeStop, Probe, GuestStarts, ReplyOk, GuestFails
        <3>3. ASSUME NEW c \in left, WindowPort(c) PROVE [BusNext]_busvars
            BY <3>3 DEF WindowPort
        <3>4. ASSUME NEW op, NEW publish, NEW r, GuestOk(op, publish, r) PROVE [BusNext]_busvars
            BY <3>4 DEF GuestOk
        <3> QED BY <2>1, <3>1, <3>2, <3>3, <3>4, <2>AdvanceIsBusStep, <2>DeferredOpIsBusStep, <2>FlushIsBusStep
                DEF TaskStep
    <2>2. CASE \E k \in Callers : SyncCall(k) \/ Enqueue(k) BY <2>2 DEF SyncCall, Enqueue
    <2>3. CASE Bus BY <2>3 DEF Bus, BusNext
    <2>4. CASE Reload
        BY <2>4 DEF Reload, BeginReplace, RetireBinding, StartReplacement, BusNext, ConsumerSteps
    <2>5. CASE CrashAndRestart BY <2>5 DEF CrashAndRestart, BusNext
    <2>6. CASE GuestPanics BY <2>6 DEF GuestPanics
    <2>7. CASE UNCHANGED vars BY <2>7 DEF vars
    <2> QED BY <2>1, <2>2, <2>3, <2>4, <2>5, <2>6, <2>7 DEF Next
<1> SUFFICES ASSUME IInv, [Next]_vars, BusKeeps
             PROVE  BusInv' /\ StepKeeps
    OBVIOUS
<1> QED BY <1>NextIsBusStep DEF IInv, BusKeeps

-----------------------------------------------------------------------------
(* The task's own state *)

\* A task between activations holds an empty snapshot and asks for nothing.
LEMMA EmptySnap ==
    /\ [c \in Channels |-> Empty] \in [Channels -> Snapshot]
    /\ Nothing \in Request
BY DEF Empty, Nothing, Snapshot, Request, None

\* Every step keeps the task's types: where it is, what it holds, and the clock
\* reading of its activation.
LEMMA NextTypes ==
    IInv /\ [Next]_vars /\ Reads /\ BusInv' /\ now' >= now => TaskOK'
<1>LoseInHandType. ASSUME fate \in [Messages -> {"owed", "handed", "settled", "lost"}], LoseInHand
      PROVE  fate' \in [Messages -> {"owed", "handed", "settled", "lost"}]
    BY <1>LoseInHandType DEF LoseInHand
<1>TaskStepTypes. IInv /\ TaskStep /\ Reads /\ BusInv' /\ now' >= now => TaskOK'
    \* What the guest returns is a request the host can carry out.
    <2>GuestOkType. ASSUME IInv, NEW op \in DeferredOps, NEW publish \in BOOLEAN,
                 NEW r \in {None} \union (now + 1)..MaxTime, GuestOk(op, publish, r)
          PROVE  out' \in Request
        <3> USE <2>GuestOkType
        <3>1. now \in Nat \ {0} /\ view \subseteq Nat /\ MaxTime \in Nat
            BY BusBounds DEF IInv, BusInv, BusTypeOK, TaskOK
        <3>2. r \in {None} \union Time BY <3>1 DEF Time
        <3>3. op[1] \in {"none", "cancel", "edit"} /\ op[2] \in Nat
            <4>1. CASE op = <<"none", None>> BY <4>1 DEF None
            <4>2. CASE op \in {"cancel", "edit"} \X view BY <3>1, <4>2
            <4> QED BY <4>1, <4>2 DEF DeferredOps
        <3> QED BY <3>2, <3>3 DEF GuestOk, Request
    <2> SUFFICES ASSUME IInv, TaskStep, Reads, BusInv', now' >= now
                 PROVE  TaskOK'
        OBVIOUS
    <2>0. now \in Nat \ {0} /\ now' \in Nat \ {0} /\ TaskOK /\ (drain_now \in 1..now => drain_now \in 1..now')
        BY SMTT(30) DEF IInv, BusInv, BusTypeOK
    <2> USE EmptySnap
    <2>1. CASE TakeNotify BY <2>0, <2>1 DEF TakeNotify, Notified, activation, TaskOK, Active
    <2>2. CASE TakeRequest
        BY <2>0, <2>2 DEF TakeRequest, BeginActivation, busvars, TaskOK, Active
    <2>3. CASE TakeStop BY <2>0, <2>3 DEF TakeStop, activation, busvars, TaskOK, Active
    <2>4. CASE Probe BY <2>0, <2>4 DEF Probe, BeginActivation, busvars, TaskOK, Active
    <2>5. ASSUME NEW c \in left, WindowPort(c) PROVE TaskOK'
        <3>1. c \in Channels BY <2>0 DEF TaskOK
        <3>2. Window(c) \in Snapshot BY <3>1 DEF Reads
        <3>3. [snap EXCEPT ![c] = Window(c)] \in [Channels -> Snapshot]
            BY <2>0, <3>1, <3>2 DEF TaskOK
        <3> QED BY <2>0, <2>5, <3>3 DEF WindowPort, EndActivation, busvars, TaskOK, Active
    <2>6. ASSUME NEW c \in left, AdvancePort(c) PROVE TaskOK'
        BY <2>0, <2>6 DEF AdvancePort, Advance, TaskOK, Active
    <2>7. CASE GuestStarts
        <3>1. view' \subseteq Nat BY <2>7, SMTT(30) DEF GuestStarts, Parked, IInv, BusInv, BusTypeOK
        <3>2. fate' \in [Messages -> {"owed", "handed", "settled", "lost"}]
            BY <2>0, <2>7 DEF GuestStarts, TaskOK
        <3>3. drain_now' \in 1..now' BY <2>0, <2>7, SMTT(30) DEF GuestStarts, busvars
        <3> QED BY <2>0, <2>7, <3>1, <3>2, <3>3 DEF GuestStarts, busvars, TaskOK, Active
    <2>8. ASSUME NEW op \in DeferredOps, NEW publish \in BOOLEAN,
                 NEW r \in {None} \union (now + 1)..MaxTime, GuestOk(op, publish, r)
          PROVE  TaskOK'
        <3>1. out' \in Request BY <2>8, <2>GuestOkType
        <3>2. fate' \in [Messages -> {"owed", "handed", "settled", "lost"}]
            BY <2>0, <2>8 DEF GuestOk, TaskOK
        <3> QED BY <2>0, <2>8, <3>1, <3>2 DEF GuestOk, busvars, TaskOK, Active
    <2>9. CASE ApplyDeferredOp
        <3>1. out' \in Request BY <2>0, <2>9 DEF ApplyDeferredOp, TaskOK, Request, None
        <3>2. service' = service BY <2>9 DEF ApplyDeferredOp, CancelDeferred, EditDeferred, busvars
        <3> QED BY <2>0, <2>9, <3>1, <3>2 DEF ApplyDeferredOp, TaskOK, Active
    <2>10. CASE FlushPublish
        <3>1. service' = service BY <2>10 DEF FlushPublish, Publish, busvars
        <3> QED BY <2>0, <2>10, <3>1 DEF FlushPublish, TaskOK, Active
    <2>11. CASE ReplyOk BY <2>0, <2>11 DEF ReplyOk, EndActivation, busvars, TaskOK, Active
    <2>12. CASE GuestFails
        <3>1. fate' \in [Messages -> {"owed", "handed", "settled", "lost"}]
            BY <2>0, <2>12 DEF GuestFails, TaskOK
        <3> QED BY <2>0, <2>12, <3>1 DEF GuestFails, EndActivation, busvars, TaskOK, Active
    <2> QED BY <2>1, <2>2, <2>3, <2>4, <2>5, <2>6, <2>7, <2>8, <2>9, <2>10, <2>11, <2>12
            DEF TaskStep
<1> SUFFICES ASSUME IInv, [Next]_vars, Reads, BusInv', now' >= now
             PROVE  TaskOK'
    OBVIOUS
<1>0. now \in Nat \ {0} /\ now' \in Nat \ {0} /\ TaskOK /\ (drain_now \in 1..now => drain_now \in 1..now')
    BY SMTT(30) DEF IInv, BusInv, BusTypeOK
<1> USE EmptySnap
<1>1. CASE TaskStep BY <1>1, <1>TaskStepTypes
<1>2. CASE GuestPanics
    <2>1. fate' \in [Messages -> {"owed", "handed", "settled", "lost"}]
        BY <1>0, <1>2, <1>LoseInHandType DEF GuestPanics, TaskOK
    <2> QED BY <1>0, <1>2, <2>1 DEF GuestPanics, TaskOK, Active
<1>3. ASSUME NEW k \in Callers, SyncCall(k) \/ Enqueue(k) PROVE TaskOK'
    BY <1>0, <1>3 DEF SyncCall, Enqueue, activation, busvars, TaskOK, Active
<1>4. CASE Bus
    <2>1. service' = service
        BY <1>4 DEF Bus, AppWrites, AppSteps, Tick, ReleaseStep, Release, Wake, Publish, Cancel,
            EditUpdate, EditLookup, EditPanics
    <2> QED BY <1>0, <1>4, <2>1 DEF Bus, taskvars, activation, TaskOK, Active
<1>5. CASE BeginReplace
    BY <1>0, <1>5 DEF BeginReplace, Depart, activation, TaskOK, Active
<1>6. CASE RetireBinding
    BY <1>0, <1>6 DEF RetireBinding, activation, TaskOK, Active
<1>7. CASE StartReplacement
    BY <1>0, <1>7 DEF StartReplacement, Arrive, BeginActivation, TaskOK, Active
<1>8. CASE CrashAndRestart
    <2>1. fate' \in [Messages -> {"owed", "handed", "settled", "lost"}]
        BY <1>0, <1>8, <1>LoseInHandType DEF CrashAndRestart, TaskOK
    <2> QED BY <1>0, <1>8, <2>1 DEF CrashAndRestart, Crash, BeginActivation, TaskOK, Active
<1>9. CASE UNCHANGED vars
    BY <1>0, <1>9 DEF vars, busvars, taskvars, activation, TaskOK, Active
<1> QED BY <1>1, <1>2, <1>3, <1>4, <1>5, <1>6, <1>7, <1>8, <1>9 DEF Next, Reload

-----------------------------------------------------------------------------
(* Steps beside the activation: what the bus, the callers and the reload do  *)
(* leaves the snapshots as good as they were                                 *)

Beside ==
    /\ UNCHANGED <<next_owed, left, snap, fate>>
    /\ step' = step \/ (step \notin Active /\ step' \notin Active)

\* A step beside the task, as a publish, a release, an edit or a caller's, leaves
\* its snapshots right.
LEMMA BesideKeepsSnap ==
    ASSUME IInv, StepKeeps, BusInv', Beside
    PROVE  SnapOK'
<1> SUFFICES ASSUME NEW c \in Channels
             PROVE  /\ next_owed'[c] <= last_seq'[c] + 1 /\ snap'[c].through <= last_seq'[c]
                    /\ \A m \in InPort(c)' \ torn' :
                          /\ m \in DOMAIN rows' /\ rows'[m].channel = c /\ rows'[m].seq # None
                          /\ rows'[m].seq <= snap'[c].through
                    /\ \A m \in DOMAIN rows' :
                          rows'[m].channel = c /\ next_owed'[c] <= rows'[m].seq
                          /\ rows'[m].seq <= snap'[c].through => m \in InPort(c)'
                    /\ step' \in {"start", "running"} \/ (step' = "advance" /\ c \notin left')
                          => snap'[c].through < next_owed'[c]
    BY DEF SnapOK
<1>0. BusTypeOK /\ BusTypeOK' /\ SnapOK /\ TaskOK BY DEF IInv, BusInv
<1>1. next_owed' = next_owed /\ snap' = snap /\ InPort(c)' = InPort(c) /\ left' = left
    BY DEF Beside, InPort
<1>2. /\ next_owed[c] \in Nat \ {0} /\ last_seq[c] \in Nat /\ last_seq'[c] \in Nat
      /\ last_seq[c] <= last_seq'[c] /\ snap[c].through \in Nat
    BY <1>0 DEF BusTypeOK, StepKeeps, StepAppends, TaskOK, Snapshot
<1>3. next_owed'[c] <= last_seq'[c] + 1 /\ snap'[c].through <= last_seq'[c]
    <2>1. next_owed[c] <= last_seq[c] + 1 /\ snap[c].through <= last_seq[c]
        BY <1>0 DEF SnapOK
    <2>2. next_owed'[c] = next_owed[c] /\ snap'[c].through = snap[c].through BY ONLY <1>1, Zenon
    <2> QED BY ONLY <1>2, <2>1, <2>2
<1>4. ASSUME NEW m \in InPort(c)' \ torn'
      PROVE  /\ m \in DOMAIN rows' /\ rows'[m].channel = c /\ rows'[m].seq # None
             /\ rows'[m].seq <= snap'[c].through
    <2>1. m \in InPort(c) \ torn BY <1>1 DEF StepKeeps, StepAppends
    <2>2. /\ m \in DOMAIN rows /\ rows[m].channel = c /\ rows[m].seq # None
          /\ rows[m].seq <= snap[c].through
        BY <1>0, <2>1 DEF SnapOK
    <2>3. m \in DOMAIN rows' /\ rows'[m].seq = rows[m].seq /\ rows'[m].channel = rows[m].channel
        BY <2>2 DEF StepKeeps, StepIsFinal
    <2> QED BY <1>1, <2>2, <2>3
<1>5. ASSUME NEW m \in DOMAIN rows', rows'[m].channel = c, next_owed'[c] <= rows'[m].seq,
             rows'[m].seq <= snap'[c].through
      PROVE  m \in InPort(c)'
    <2>1. rows'[m].seq \in Nat BY <1>0 DEF BusTypeOK, Row
    <2>2. rows'[m].seq # None BY <1>1, <1>2, <1>5, <2>1 DEF None
    <2>3. snap[c].through <= last_seq[c] BY <1>0 DEF SnapOK
    <2>4. ~(last_seq[c] < rows'[m].seq)
        <3>1. rows'[m].seq <= snap[c].through BY ONLY <1>1, <1>5, Zenon
        <3> QED BY ONLY <1>2, <2>1, <2>3, <3>1
    <2>5. m \in DOMAIN rows /\ rows'[m].seq = rows[m].seq /\ rows'[m].channel = rows[m].channel
        BY <1>5, <2>2, <2>4 DEF StepKeeps, StepAppends
    <2>6. rows[m].channel = c /\ next_owed[c] <= rows[m].seq /\ rows[m].seq <= snap[c].through
        BY ONLY <1>1, <1>5, <2>5, Zenon
    <2>7. m \in InPort(c) BY <1>0, <2>5, <2>6 DEF SnapOK
    <2> QED BY ONLY <1>1, <2>7, Zenon
<1>6. ASSUME step' \in {"start", "running"} \/ (step' = "advance" /\ c \notin left')
      PROVE  snap'[c].through < next_owed'[c]
    <2>1. step' = step BY <1>6 DEF Beside, Active
    <2> QED BY <1>0, <1>1, <1>6, <2>1 DEF SnapOK
<1> QED BY <1>3, <1>4, <1>5, <1>6

\* Such a step settles and loses no message.
LEMMA BesideKeepsFate ==
    IInv /\ StepKeeps /\ BusInv' /\ Beside =>
        FateOK'
\* A message passes only when a position moves, and stays passed.
<1>PassedIsStable. ASSUME IInv, StepKeeps, BusInv', next_owed' = next_owed, NEW m, m \notin torn'
      PROVE  Passed(m)' <=> Passed(m)
    <2> USE <1>PassedIsStable
    <2>0. BusTypeOK /\ BusTypeOK' BY DEF IInv, BusInv
    <2>1. ASSUME Passed(m) PROVE Passed(m)'
        <3>1. m \in DOMAIN rows' /\ rows'[m].seq = rows[m].seq /\ rows'[m].channel = rows[m].channel
            BY <2>1 DEF Passed, StepKeeps, StepIsFinal
        <3> QED BY <2>1, <3>1 DEF Passed
    <2>2. ASSUME Passed(m)' PROVE Passed(m)
        <3> DEFINE c == rows'[m].channel
        <3>1. /\ m \in DOMAIN rows' /\ rows'[m].seq # None /\ rows'[m].seq < next_owed[c]
            BY <2>2 DEF Passed
        <3>2. rows'[m] \in Row BY <2>0, <3>1 DEF BusTypeOK
        <3>3. c \in Channels /\ rows'[m].seq \in Nat BY <3>2 DEF Row
        <3>4. next_owed[c] \in Nat /\ last_seq[c] \in Nat /\ next_owed[c] <= last_seq[c] + 1
            BY <2>0, <3>3 DEF BusTypeOK, IInv, SnapOK
        <3>5. ~(last_seq[c] < rows'[m].seq) BY SMTT(20), <3>1, <3>3, <3>4
        <3>6. m \in DOMAIN rows /\ rows'[m].seq = rows[m].seq /\ c = rows[m].channel
            BY <3>1, <3>5 DEF StepKeeps, StepAppends
        <3> QED BY <3>1, <3>6 DEF Passed
    <2> QED BY <2>1, <2>2
<1> SUFFICES ASSUME IInv, StepKeeps, BusInv', Beside
             PROVE  FateOK'
    OBVIOUS
<1>1. UNCHANGED <<next_owed, fate>> /\ \A m : (NewInSnap(m)' <=> NewInSnap(m)) /\ (InSnap(m)' <=> InSnap(m))
    BY DEF Beside, NewInSnap, InSnap
<1>2. torn \subseteq torn' BY DEF StepKeeps, StepAppends
<1>3. ASSUME NEW m \in Messages \ torn'
      PROVE  /\ fate'[m] # "owed" => Passed(m)'
             /\ fate'[m] = "handed" => step' = "running" /\ NewInSnap(m)'
             /\ step' \in {"window", "advance", "start"} /\ InSnap(m)' => fate'[m] = "owed"
             /\ step' = "running" /\ InSnap(m)' => fate'[m] # "owed"
             /\ fate'[m] = "owed" /\ Passed(m)' => step' \in {"advance", "start"} /\ InSnap(m)'
    <2>1. Passed(m)' <=> Passed(m) BY <1>1, <1>3, <1>PassedIsStable
    <2>2. m \in Messages \ torn BY <1>2, <1>3
    <2> QED BY <1>1, <2>1, <2>2 DEF IInv, FateOK, Beside, Active
<1> QED BY <1>3 DEF FateOK, Messages

-----------------------------------------------------------------------------
(* Steps that begin or end an activation: nothing is in a snapshot           *)

Cleared ==
    /\ snap' = [c \in Channels |-> Empty]
    /\ UNCHANGED <<rows, last_seq, next_owed, torn>>

\* A task that gives up its snapshots holds none that is wrong.
LEMMA ClearedSnap == ASSUME IInv, Cleared PROVE SnapOK'
<1>1. \A c \in Channels : /\ snap'[c].through = 0 /\ snap'[c].new = {} /\ snap'[c].passed = {}
    BY DEF Cleared, Empty, None
<1>2. \A c \in Channels : InPort(c)' = {} BY <1>1 DEF InPort
<1>3. \A c \in Channels : next_owed[c] \in Nat \ {0} /\ last_seq[c] \in Nat
    BY DEF IInv, BusInv, BusTypeOK
<1>4. \A m \in DOMAIN rows : rows[m].seq \in Nat BY DEF IInv, BusInv, BusTypeOK, Row
<1>5. UNCHANGED <<rows, last_seq, next_owed, torn>> BY DEF Cleared
<1>6. ASSUME NEW c \in Channels
      PROVE  /\ next_owed[c] <= last_seq[c] + 1 /\ 0 <= last_seq[c] /\ 0 < next_owed[c]
             /\ \A m \in DOMAIN rows : ~(next_owed[c] <= rows[m].seq /\ rows[m].seq <= 0)
    <2>1. SnapOK BY DEF IInv
    <2>2. next_owed[c] <= last_seq[c] + 1 BY <2>1 DEF SnapOK
    <2>3. next_owed[c] \in Nat \ {0} /\ last_seq[c] \in Nat BY ONLY <1>3, c \in Channels, Zenon
    <2>4. 0 <= last_seq[c] /\ 0 < next_owed[c] BY ONLY <2>3
    <2>5. ASSUME NEW m \in DOMAIN rows
          PROVE  ~(next_owed[c] <= rows[m].seq /\ rows[m].seq <= 0)
        <3>1. rows[m].seq \in Nat BY ONLY <1>4, m \in DOMAIN rows, Zenon
        <3> QED BY ONLY <2>3, <3>1
    <2> QED BY ONLY <2>2, <2>4, <2>5, Zenon
<1> QED BY <1>1, <1>2, <1>5, <1>6 DEF SnapOK

\* With nothing in a snapshot, a message is owed until it is passed.
LEMMA ClearedFate ==
    ASSUME IInv, Cleared,
           \A m \in Messages \ torn :
              fate'[m] # "handed" /\ (fate'[m] = "owed" <=> ~Passed(m))
    PROVE  FateOK'
<1>1. \A m : ~InSnap(m)' BY DEF Cleared, InSnap, Empty
<1>2. \A m : Passed(m)' <=> Passed(m) BY DEF Cleared, Passed
<1>3. torn' = torn BY DEF Cleared
<1> QED BY <1>1, <1>2, <1>3 DEF FateOK, Messages

\* Outside an activation, and before its positions move, that is so already.
LEMMA FateAtRest ==
    ASSUME IInv, step \notin {"advance", "start", "running"}
    PROVE  \A m \in Messages \ torn : fate[m] # "handed" /\ (fate[m] = "owed" <=> ~Passed(m))
BY DEF IInv, FateOK

-----------------------------------------------------------------------------
(* The steps of an activation *)

-----------------------------------------------------------------------------
(* Every step *)

\* The task's own steps keep snapshots and fates right: the probe, a port's window
\* and its advance, the guest's start and outcome, its requests, reply and stop.
LEMMA TaskStepKeeps ==
    IInv /\ TaskStep /\ Reads /\ StepKeeps /\ BusInv' => SnapOK' /\ FateOK'
\* A guest that returned settles what it was handed.
<1>SettledFate. ASSUME IInv, step = "running",
             fate' = [m \in Messages |-> IF NewInSnap(m) THEN "settled" ELSE fate[m]]
      PROVE  \A m \in Messages \ torn : fate'[m] # "handed" /\ (fate'[m] = "owed" <=> ~Passed(m))
    <2> USE <1>SettledFate
    <2> SUFFICES ASSUME NEW m \in Messages \ torn
                 PROVE  fate'[m] # "handed" /\ (fate'[m] = "owed" <=> ~Passed(m))
        OBVIOUS
    <2>1. fate'[m] = IF NewInSnap(m) THEN "settled" ELSE fate[m] OBVIOUS
    <2>2. NewInSnap(m) => InSnap(m) BY DEF NewInSnap, InSnap
    <2>3. /\ fate[m] # "owed" => Passed(m)
          /\ fate[m] = "handed" => NewInSnap(m)
          /\ InSnap(m) => fate[m] # "owed"
          /\ ~(fate[m] = "owed" /\ Passed(m))
        BY DEF IInv, FateOK
    <2> QED BY <2>1, <2>2, <2>3
\* The read of a port finds the messages no guest has been handed.
<1>WindowKeeps. ASSUME IInv, Reads, NEW c \in left, step = "window", step' \in {"window", "advance"},
             snap' = [snap EXCEPT ![c] = Window(c)], step' = "advance" => left' = Channels,
             UNCHANGED <<rows, last_seq, next_owed, torn, fate>>
      PROVE  SnapOK' /\ FateOK'
    <2> USE <1>WindowKeeps
    <2>0. c \in Channels /\ BusInv /\ BusTypeOK /\ TaskOK /\ SnapOK /\ FateOK
        BY DEF IInv, TaskOK, BusInv
    <2>1. /\ Window(c).new \union Window(c).passed = Unseen(c)
          /\ Window(c).through <= last_seq[c]
          /\ \A m \in Retained(c) : rows[m].seq <= Window(c).through
        BY <2>0 DEF Reads
    <2>2. snap'[c] = Window(c) /\ \A d \in Channels \ {c} : snap'[d] = snap[d]
        BY <2>0 DEF TaskOK
    <2>3. InPort(c)' = Unseen(c) /\ \A d \in Channels \ {c} : InPort(d)' = InPort(d)
        BY <2>1, <2>2 DEF InPort
    <2>4. next_owed[c] \in Nat \ {0} /\ \A m \in DOMAIN rows : rows[m].seq \in Nat
        BY <2>0 DEF BusTypeOK, Row
    <2>5. SnapOK'
        <3>a. next_owed[c] <= last_seq[c] + 1 BY <2>0 DEF SnapOK
        <3>b. \A m \in Unseen(c) :
                 /\ m \in DOMAIN rows /\ rows[m].channel = c /\ rows[m].seq # None
                 /\ rows[m].seq <= Window(c).through
            BY <2>1 DEF Unseen, Retained
        <3>c. \A m \in DOMAIN rows :
                 rows[m].channel = c /\ next_owed[c] <= rows[m].seq => m \in Unseen(c)
            BY <2>4, SMTT(30) DEF Unseen, Retained, None
        <3>d. ~(step' \in {"start", "running"}) /\ \A d \in Channels : ~(step' = "advance" /\ d \notin left')
            OBVIOUS
        <3> SUFFICES ASSUME NEW d \in Channels
                     PROVE  /\ next_owed[d] <= last_seq[d] + 1 /\ snap'[d].through <= last_seq[d]
                            /\ \A m \in InPort(d)' \ torn :
                                  /\ m \in DOMAIN rows /\ rows[m].channel = d /\ rows[m].seq # None
                                  /\ rows[m].seq <= snap'[d].through
                            /\ \A m \in DOMAIN rows :
                                  /\ rows[m].channel = d /\ next_owed[d] <= rows[m].seq
                                  /\ rows[m].seq <= snap'[d].through
                                  => m \in InPort(d)'
            BY <3>d DEF SnapOK
        <3>1. CASE d = c BY <3>1, <2>1, <2>2, <2>3, <3>a, <3>b, <3>c
        <3>2. CASE d # c
            <4>1. snap'[d] = snap[d] /\ InPort(d)' = InPort(d) BY <2>2, <2>3, <3>2
            <4>2. /\ next_owed[d] <= last_seq[d] + 1 /\ snap[d].through <= last_seq[d]
                  /\ \A m \in InPort(d) \ torn :
                        /\ m \in DOMAIN rows /\ rows[m].channel = d /\ rows[m].seq # None
                        /\ rows[m].seq <= snap[d].through
                  /\ \A m \in DOMAIN rows :
                        /\ rows[m].channel = d /\ next_owed[d] <= rows[m].seq
                        /\ rows[m].seq <= snap[d].through
                        => m \in InPort(d)
                BY <2>0 DEF SnapOK
            <4> QED BY ONLY <4>1, <4>2, Zenon
        <3> QED BY <3>1, <3>2
    <2>6. FateOK'
        <3>1. \A m : Passed(m)' <=> Passed(m) BY DEF Passed
        <3>2. ASSUME NEW m \in Messages \ torn, InSnap(m)' PROVE fate[m] = "owed"
            <4>1. PICK d \in Channels : m \in InPort(d)' BY <3>2 DEF InSnap, InPort
            <4>2. CASE d = c
                <5>1. m \in Unseen(c) BY <2>3, <4>1, <4>2
                <5>2. ~Passed(m) BY <2>4, <5>1 DEF Passed, Unseen, Retained
                <5> QED BY <2>0, <5>2 DEF FateOK
            <4>3. CASE d # c
                <5>1. InSnap(m) BY <2>3, <4>1, <4>3 DEF InSnap, InPort
                <5> QED BY <2>0, <5>1 DEF FateOK
            <4> QED BY <4>2, <4>3
        <3> QED BY <2>0, <3>1, <3>2 DEF FateOK, Messages
    <2> QED BY <2>5, <2>6
\* A position moves over what its snapshot holds, and over nothing else.
<1>AdvanceKeeps.     \A c \in left :
                         IInv /\ AdvancePort(c) =>
                             SnapOK' /\ FateOK'
                 \* The arithmetic of a move: the larger of the old position and the one after the snapshot.
    <2>MovedPosition. ASSUME NEW n \in Nat, NEW l \in Nat, NEW t \in Nat, NEW m,
                 m = IF t >= n THEN t + 1 ELSE n, t <= l, n <= l + 1
          PROVE  /\ m \in Nat /\ n <= m /\ t < m /\ m <= l + 1
                 /\ \A k \in Nat : n <= k /\ k < m => k <= t
        BY <2>MovedPosition
    <2> SUFFICES ASSUME IInv, NEW c \in left, AdvancePort(c)
                 PROVE  SnapOK' /\ FateOK'
        OBVIOUS
    <2> DEFINE through == snap[c].through
    <2>0. c \in Channels /\ BusTypeOK /\ TaskOK /\ SnapOK /\ FateOK BY DEF IInv, TaskOK, BusInv
    <2>1. /\ step = "advance" /\ left' = left \ {c}
          /\ step' = IF left = {c} THEN "start" ELSE "advance"
          /\ UNCHANGED <<rows, last_seq, torn, snap, fate>>
          /\ next_owed' = [next_owed EXCEPT ![c] = IF through >= next_owed[c] THEN through + 1
                                                   ELSE next_owed[c]]
        BY DEF AdvancePort, Advance, edit
    <2>2. \A d \in Channels : /\ next_owed[d] \in Nat \ {0} /\ last_seq[d] \in Nat
                              /\ snap[d].through \in Nat
        BY <2>0 DEF BusTypeOK, TaskOK, Snapshot
    <2>3. /\ next_owed'[c] = IF through >= next_owed[c] THEN through + 1 ELSE next_owed[c]
          /\ \A d \in Channels \ {c} : next_owed'[d] = next_owed[d]
        BY <2>0, <2>1 DEF BusTypeOK
    <2>4. through <= last_seq[c] /\ next_owed[c] <= last_seq[c] + 1 BY <2>0 DEF SnapOK
    <2>5. /\ next_owed'[c] \in Nat /\ next_owed[c] <= next_owed'[c] /\ through < next_owed'[c]
          /\ next_owed'[c] <= last_seq[c] + 1
          /\ \A n \in Nat : next_owed[c] <= n /\ n < next_owed'[c] => n <= through
        <3>1. next_owed[c] \in Nat /\ last_seq[c] \in Nat /\ through \in Nat
            BY <2>0, <2>2
        <3> HIDE DEF through
        <3> QED BY <2>3, <2>4, <3>1, <2>MovedPosition
    <2>6. \A m \in DOMAIN rows : rows[m].seq \in Nat /\ rows[m].channel \in Channels
        BY <2>0 DEF BusTypeOK, Row
    <2>7. \A d \in Channels : InPort(d)' = InPort(d) BY <2>1 DEF InPort
    <2>8. ASSUME NEW d \in Channels
          PROVE  /\ next_owed'[d] <= last_seq[d] + 1
                 /\ \A n \in Nat : next_owed'[d] <= n => next_owed[d] <= n
                 /\ d \notin left' => snap[d].through < next_owed'[d]
                 /\ step' = "start" => d \notin left'
        <3>1. CASE d = c
            <4>1. PICK n \in Nat, o \in Nat, t \in Nat, l \in Nat :
                    /\ n = next_owed'[c] /\ o = next_owed[c] /\ t = snap[c].through /\ l = last_seq[c]
                    /\ o <= n /\ t < n /\ n <= l + 1
                BY <2>0, <2>2, <2>5
            <4>2. \A i \in Nat : n <= i => o <= i BY <4>1
            <4>3. step' = "start" => c \notin left' BY <2>1
            <4> QED BY <3>1, <4>1, <4>2, <4>3
        <3>2. CASE d # c
            <4>1. next_owed'[d] = next_owed[d] BY <2>3, <3>2
            <4>2. d \notin left' => d \notin left BY <2>1, <3>2
            <4>3. step' = "start" => d \notin left' BY <2>1
            <4> QED BY <2>0, <2>1, <4>1, <4>2, <4>3 DEF SnapOK
        <3> QED BY <3>1, <3>2
    <2>9. SnapOK'
        <3> SUFFICES ASSUME NEW d \in Channels
                     PROVE  /\ next_owed'[d] <= last_seq'[d] + 1 /\ snap'[d].through <= last_seq'[d]
                            /\ \A m \in InPort(d)' \ torn' :
                                  /\ m \in DOMAIN rows' /\ rows'[m].channel = d
                                  /\ rows'[m].seq # None /\ rows'[m].seq <= snap'[d].through
                            /\ \A m \in DOMAIN rows' :
                                  rows'[m].channel = d /\ next_owed'[d] <= rows'[m].seq
                                  /\ rows'[m].seq <= snap'[d].through => m \in InPort(d)'
                            /\ step' \in {"start", "running"} \/ (step' = "advance" /\ d \notin left')
                                  => snap'[d].through < next_owed'[d]
            BY DEF SnapOK, None
        <3>0. /\ rows' = rows /\ last_seq' = last_seq /\ torn' = torn /\ snap' = snap
              /\ InPort(d)' = InPort(d)
            BY <2>1, <2>7
        <3>1. /\ snap[d].through <= last_seq[d]
              /\ \A m \in InPort(d) \ torn :
                    /\ m \in DOMAIN rows /\ rows[m].channel = d /\ rows[m].seq # None
                    /\ rows[m].seq <= snap[d].through
              /\ \A m \in DOMAIN rows :
                    rows[m].channel = d /\ next_owed[d] <= rows[m].seq
                    /\ rows[m].seq <= snap[d].through => m \in InPort(d)
            BY <2>0 DEF SnapOK
        <3>2. \A m \in DOMAIN rows : next_owed'[d] <= rows[m].seq => next_owed[d] <= rows[m].seq
            BY <2>6, <2>8
        <3>3. \A m \in DOMAIN rows :
                 rows[m].channel = d /\ next_owed'[d] <= rows[m].seq
                 /\ rows[m].seq <= snap[d].through => m \in InPort(d)
            BY <3>1, <3>2
        <3>4. step' \in {"start", "running"} \/ (step' = "advance" /\ d \notin left') => d \notin left'
            BY <2>1, <2>8
        <3> QED BY <2>8, <3>0, <3>1, <3>3, <3>4
    <2>10. ASSUME NEW m, Passed(m) PROVE Passed(m)'
        <3>1. CASE rows[m].channel = c
            <4>1. m \in DOMAIN rows /\ rows[m].seq # None /\ rows[m].seq < next_owed[c]
                BY <2>10, <3>1 DEF Passed
            <4>2. PICK q \in Nat, n \in Nat, o \in Nat :
                    q = rows[m].seq /\ n = next_owed'[c] /\ o = next_owed[c] /\ o <= n
                BY <2>0, <2>2, <2>5, <2>6, <4>1
            <4>3. q < n BY <4>1, <4>2
            <4> QED BY <2>1, <3>1, <4>1, <4>2, <4>3 DEF Passed
        <3>2. CASE rows[m].channel # c
            BY <2>1, <2>3, <2>6, <2>10, <3>2 DEF Passed
        <3> QED BY <3>1, <3>2
    <2>11. ASSUME NEW m, Passed(m)', ~Passed(m) PROVE InSnap(m)
        <3>1. m \in DOMAIN rows /\ rows[m].seq # None /\ rows[m].seq < next_owed'[rows[m].channel]
            BY <2>1, <2>11 DEF Passed
        <3>2. rows[m].channel = c BY <2>3, <2>6, <2>11, <3>1 DEF Passed
        <3>3. next_owed[c] <= rows[m].seq BY <2>0, <2>2, <2>6, <2>11, <3>1, <3>2 DEF Passed
        <3>4. rows[m].seq <= through BY <2>5, <2>6, <3>1, <3>2, <3>3
        <3>5. m \in InPort(c) BY <2>0, <3>1, <3>2, <3>3, <3>4 DEF SnapOK
        <3> QED BY <2>0, <3>5 DEF InPort, InSnap
    <2>12. FateOK'
        <3>1. \A m : (InSnap(m)' <=> InSnap(m)) /\ (NewInSnap(m)' <=> NewInSnap(m))
            BY <2>1 DEF InSnap, NewInSnap
        <3>2. step' \in {"advance", "start"} BY <2>1
        <3> QED BY <2>0, <2>1, <2>10, <2>11, <3>1, <3>2 DEF FateOK, Messages
    <2> QED BY <2>9, <2>12
\* The guest starts on messages every position has passed.
<1>StartKeeps. ASSUME IInv, GuestStarts PROVE SnapOK' /\ FateOK'
    <2> USE <1>StartKeeps
    <2>0. BusTypeOK /\ TaskOK /\ SnapOK /\ FateOK BY DEF IInv, BusInv
    <2>1. /\ step = "start" /\ step' = "running"
          /\ UNCHANGED <<rows, last_seq, next_owed, torn, snap, left>>
        BY DEF GuestStarts, busvars, store, edit
    <2>2. SnapOK'
        <3>1. \A c \in Channels : InPort(c)' = InPort(c) BY <2>1 DEF InPort
        <3>2. ASSUME NEW c \in Channels
              PROVE  /\ next_owed[c] <= last_seq[c] + 1 /\ snap[c].through <= last_seq[c]
                     /\ \A m \in InPort(c) \ torn :
                           /\ m \in DOMAIN rows /\ rows[m].channel = c /\ rows[m].seq # None
                           /\ rows[m].seq <= snap[c].through
                     /\ \A m \in DOMAIN rows :
                           rows[m].channel = c /\ next_owed[c] <= rows[m].seq
                           /\ rows[m].seq <= snap[c].through => m \in InPort(c)
                     /\ snap[c].through < next_owed[c]
            BY <2>0, <2>1 DEF SnapOK
        <3>3. UNCHANGED <<rows, last_seq, next_owed, torn, snap, left>> BY <2>1
        <3> QED BY <3>1, <3>2, <3>3, SMTT(30) DEF SnapOK
    <2>3. ASSUME NEW m \in Messages \ torn, InSnap(m) PROVE Passed(m)
        <3>1. PICK c \in Channels : m \in InPort(c) BY <2>3 DEF InSnap, InPort
        <3>2. /\ m \in DOMAIN rows /\ rows[m].channel = c /\ rows[m].seq # None
              /\ rows[m].seq <= snap[c].through /\ snap[c].through < next_owed[c]
            BY <2>0, <2>1, <3>1 DEF SnapOK
        <3>3. rows[m].seq \in Nat /\ snap[c].through \in Nat /\ next_owed[c] \in Nat
            BY <2>0, <3>2 DEF BusTypeOK, Row, TaskOK, Snapshot
        <3>4. rows[m].seq < next_owed[c] BY ONLY <3>2, <3>3
        <3> QED BY <3>2, <3>4 DEF Passed
    <2>4. ASSUME NEW m \in Messages \ torn
          PROVE  /\ fate'[m] # "owed" => Passed(m)
                 /\ fate'[m] = "handed" => NewInSnap(m)
                 /\ InSnap(m) => fate'[m] # "owed"
                 /\ ~(fate'[m] = "owed" /\ Passed(m))
        <3>1. fate'[m] = IF NewInSnap(m) THEN "handed" ELSE IF InSnap(m) THEN "settled" ELSE fate[m]
            BY DEF GuestStarts
        <3>2. NewInSnap(m) => InSnap(m) BY DEF NewInSnap, InSnap
        <3>3. /\ fate[m] # "owed" => Passed(m)
              /\ fate[m] # "handed"
              /\ fate[m] = "owed" /\ Passed(m) => InSnap(m)
            BY <2>0, <2>1 DEF FateOK
        <3> QED BY <2>3, <3>1, <3>2, <3>3
    <2>5. \A m : /\ Passed(m)' <=> Passed(m)
                 /\ NewInSnap(m)' <=> NewInSnap(m)
                 /\ InSnap(m)' <=> InSnap(m)
        BY <2>1 DEF Passed, NewInSnap, InSnap
    <2>6. FateOK' BY <2>1, <2>4, <2>5 DEF FateOK, Messages
    <2> QED BY <2>2, <2>6
<1> SUFFICES ASSUME IInv, TaskStep, Reads, StepKeeps, BusInv'
             PROVE  SnapOK' /\ FateOK'
    OBVIOUS
<1>1. ASSUME Beside PROVE SnapOK' /\ FateOK' BY <1>1, BesideKeepsSnap, BesideKeepsFate
<1>2. ASSUME Cleared, fate' = fate, step \notin {"advance", "start", "running"}
      PROVE  SnapOK' /\ FateOK'
    BY <1>2, ClearedSnap, ClearedFate, FateAtRest
<1>3. CASE TakeNotify
    <2>1. Beside BY <1>3 DEF TakeNotify, Notified, store, activation, Beside, Active
    <2> QED BY <1>1, <2>1
<1>4. CASE TakeRequest
    <2>1. Cleared /\ fate' = fate /\ step = "idle"
        BY <1>4 DEF TakeRequest, BeginActivation, busvars, store, edit, Cleared
    <2> QED BY <1>2, <2>1
<1>5. CASE TakeStop
    <2>1. Beside BY <1>5 DEF TakeStop, busvars, store, activation, Beside, Active
    <2> QED BY <1>1, <2>1
<1>6. CASE Probe
    <2>1. step = "probe" /\ fate' = fate /\ UNCHANGED <<rows, last_seq, next_owed, torn>>
        BY <1>6 DEF Probe, busvars, store, edit
    <2>2. \/ snap' = [c \in Channels |-> Empty]
          \/ step' = "idle" /\ UNCHANGED <<left, snap>>
        BY <1>6 DEF Probe, BeginActivation
    <2>3. CASE snap' = [c \in Channels |-> Empty] BY <1>2, <2>1, <2>3 DEF Cleared
    <2>4. CASE step' = "idle" /\ UNCHANGED <<left, snap>>
        BY <1>1, <2>1, <2>4 DEF Beside, Active
    <2> QED BY <2>2, <2>3, <2>4
<1>7. ASSUME NEW c \in left, WindowPort(c) PROVE SnapOK' /\ FateOK'
    <2>1. step = "window" /\ UNCHANGED <<rows, last_seq, next_owed, torn, fate>>
        BY <1>7 DEF WindowPort, busvars, store, edit
    <2>2. CASE EndActivation
        BY <1>2, <2>1, <2>2 DEF EndActivation, Cleared
    <2>3. CASE /\ snap' = [snap EXCEPT ![c] = Window(c)]
               /\ left' = IF left = {c} THEN Channels ELSE left \ {c}
               /\ step' = IF left = {c} THEN "advance" ELSE "window"
        BY <2>1, <2>3, <1>WindowKeeps
    <2> QED BY <1>7, <2>2, <2>3 DEF WindowPort
<1>8. ASSUME NEW op, NEW publish, NEW r, GuestOk(op, publish, r) PROVE SnapOK' /\ FateOK'
    <2>1. /\ Cleared /\ step = "running"
          /\ fate' = [m \in Messages |-> IF NewInSnap(m) THEN "settled" ELSE fate[m]]
        BY <1>8 DEF GuestOk, busvars, store, edit, Cleared
    <2> QED BY <2>1, ClearedSnap, ClearedFate, <1>SettledFate
<1>9. CASE ApplyDeferredOp
    <2>1. next_owed' = next_owed
        BY <1>9 DEF ApplyDeferredOp, CancelDeferred, EditDeferred, Withdraw, Reschedule, busvars, store
    <2>2. Beside BY <1>9, <2>1 DEF ApplyDeferredOp, Beside, Active
    <2> QED BY <1>1, <2>2
<1>10. CASE FlushPublish
    <2>1. next_owed' = next_owed BY <1>10 DEF FlushPublish, Publish, Insert, busvars, store
    <2>2. Beside BY <1>10, <2>1 DEF FlushPublish, Beside, Active
    <2> QED BY <1>1, <2>2
<1>11. CASE ReplyOk
    <2>1. Cleared /\ fate' = fate /\ step = "reply"
        BY <1>11 DEF ReplyOk, EndActivation, busvars, store, edit, Cleared
    <2> QED BY <1>2, <2>1
<1>12. CASE GuestFails
    <2>1. /\ Cleared /\ step = "running"
          /\ fate' = [m \in Messages |-> IF NewInSnap(m) THEN "settled" ELSE fate[m]]
        BY <1>12 DEF GuestFails, EndActivation, busvars, store, edit, Cleared
    <2> QED BY <2>1, ClearedSnap, ClearedFate, <1>SettledFate
<1> QED BY <1>3, <1>4, <1>5, <1>6, <1>7, <1>8, <1>9, <1>10, <1>11, <1>12, <1>AdvanceKeeps, <1>StartKeeps
        DEF TaskStep

\* Every step of the system keeps the invariant, given what the bus and its reads
\* promise.
LEMMA NextInv ==
    IInv /\ [Next]_vars /\ BusKeeps /\ Reads => IInv'
<1>LostFate. ASSUME IInv, LoseInHand
      PROVE  \A m \in Messages \ torn : fate'[m] # "handed" /\ (fate'[m] = "owed" <=> ~Passed(m))
    <2> USE <1>LostFate
    <2> SUFFICES ASSUME NEW m \in Messages \ torn
                 PROVE  fate'[m] # "handed" /\ (fate'[m] = "owed" <=> ~Passed(m))
        OBVIOUS
    <2>1. fate'[m] = IF fate[m] = "handed" \/ (fate[m] = "owed" /\ Passed(m)) THEN "lost" ELSE fate[m]
        BY DEF LoseInHand
    <2>2. fate[m] # "owed" => Passed(m) BY DEF IInv, FateOK
    <2> QED BY <2>1, <2>2
<1> SUFFICES ASSUME IInv, [Next]_vars, BusKeeps, Reads PROVE IInv'
    OBVIOUS
<1>1. BusInv' /\ StepKeeps BY NextKeeps
<1>2. TaskOK' BY <1>1, NextTypes DEF StepKeeps
<1>3. SnapOK' /\ FateOK'
    <2>1. ASSUME Beside PROVE SnapOK' /\ FateOK'
        BY <1>1, <2>1, BesideKeepsSnap, BesideKeepsFate
    <2>2. CASE TaskStep BY <1>1, <2>2, TaskStepKeeps
    <2>3. CASE GuestPanics
        <3>1. Cleared /\ LoseInHand BY <2>3 DEF GuestPanics, busvars, store, edit, Cleared
        <3> QED BY <3>1, ClearedSnap, ClearedFate, <1>LostFate
    <2>4. CASE \E k \in Callers : SyncCall(k) \/ Enqueue(k)
        <3>1. Beside BY <2>4 DEF SyncCall, Enqueue, busvars, store, activation, Beside
        <3> QED BY <2>1, <3>1
    <2>5. CASE Bus
        <3>a. AppWrites => next_owed' = next_owed
            <4>1. \A s, c, r, d, t : Publish(s, c, r, d, t) => next_owed' = next_owed
                BY DEF Publish, Insert
            <4>2. \A m : Cancel(m) => next_owed' = next_owed BY DEF Cancel, Withdraw
            <4>3. \A fields, r, d : EditUpdate(fields, r, d) => next_owed' = next_owed
                BY DEF EditUpdate
            <4> QED BY <4>1, <4>2, <4>3 DEF AppWrites
        <3>b. AppSteps \/ Tick => next_owed' = next_owed
            BY DEF AppSteps, Tick, EditUpdate, EditLookup, EditPanics, store
        <3>c. ASSUME NEW c \in Channels, ReleaseStep(c) \/ Wake(c) PROVE next_owed' = next_owed
            BY <3>c DEF ReleaseStep, Release, ReleaseDueOn, Wake, store
        <3>1. next_owed' = next_owed BY <2>5, <3>a, <3>b, <3>c DEF Bus
        <3>2. Beside BY <2>5, <3>1 DEF Bus, taskvars, activation, Beside
        <3> QED BY <2>1, <3>2
    <2>6. CASE BeginReplace \/ RetireBinding
        <3>1. Beside
            BY <2>6 DEF BeginReplace, RetireBinding, Depart, Retire, store, activation, Beside
        <3> QED BY <2>1, <3>1
    <2>7. CASE StartReplacement
        <3>1. Cleared /\ fate' = fate /\ service = "gone"
            BY <2>7 DEF StartReplacement, Arrive, BeginActivation, store, edit, Cleared
        <3>2. step \in {"stopped", "dead"} BY <3>1 DEF IInv, TaskOK
        <3> QED BY <3>1, <3>2, ClearedSnap, ClearedFate, FateAtRest
    <2>8. CASE CrashAndRestart
        <3>1. Cleared /\ LoseInHand
            BY <2>8 DEF CrashAndRestart, Crash, BeginActivation, store, Cleared
        <3> QED BY <3>1, ClearedSnap, ClearedFate, <1>LostFate
    <2>9. CASE UNCHANGED vars
        <3>1. Beside BY <2>9 DEF vars, busvars, store, taskvars, activation, Beside
        <3> QED BY <2>1, <3>1
    <2> QED BY <2>2, <2>3, <2>4, <2>5, <2>6, <2>7, <2>8, <2>9 DEF Next, Reload
<1> QED BY <1>1, <1>2, <1>3 DEF IInv

\* The task before its mount activation satisfies it.
LEMMA InitInv == ASSUME Init, BusInv PROVE IInv
<1>2. /\ step = "window" /\ left = Channels /\ view = {} /\ service = "live" /\ DOMAIN rows = {}
      /\ snap = [c \in Channels |-> Empty] /\ out = Nothing
      /\ fate = [m \in Messages |-> "owed"]
      /\ last_seq = [c \in Channels |-> 0] /\ next_owed = [c \in Channels |-> 1]
    BY DEF Init, BusInit
<1>3. TaskOK BY <1>2, EmptySnap DEF TaskOK, Active
<1>4. \A c \in Channels : InPort(c) = {} /\ snap[c].through = 0 BY <1>2 DEF InPort, Empty, None
<1>5. SnapOK
    <2>1. ASSUME NEW c \in Channels
          PROVE  /\ next_owed[c] <= last_seq[c] + 1 /\ snap[c].through <= last_seq[c]
                 /\ snap[c].through < next_owed[c]
        <3>1. next_owed[c] = 1 /\ last_seq[c] = 0 BY <1>2
        <3>2. snap[c].through = 0 BY ONLY <1>4, c \in Channels, Zenon
        <3> QED BY ONLY <3>1, <3>2
    <2>2. \A c \in Channels : InPort(c) = {} BY ONLY <1>4, Zenon
    <2>3. DOMAIN rows = {} BY <1>2
    <2> QED BY <2>1, <2>2, <2>3 DEF SnapOK
<1>6. \A m : ~InSnap(m) /\ ~NewInSnap(m) /\ ~Passed(m)
    BY <1>2 DEF InSnap, NewInSnap, Passed, Empty
<1>7. FateOK BY <1>2, <1>6 DEF FateOK
<1> QED BY <1>3, <1>5, <1>7 DEF IInv

\* What the invariant says of a message in a window, and of one passed.
LEMMA IInvImplies == IInv => HandedOnce /\ PassedIsAccounted
<1> SUFFICES ASSUME IInv PROVE HandedOnce /\ PassedIsAccounted OBVIOUS
<1>1. HandedOnce
    BY DEF IInv, FateOK, HandedOnce, NewInSnap, InSnap
<1>2. PassedIsAccounted
    <2> SUFFICES ASSUME NEW m \in Messages \ torn, Passed(m), fate[m] \in {"owed", "handed"}
                 PROVE  InSnap(m) /\ step \in {"advance", "start", "running"}
        BY DEF PassedIsAccounted
    <2>1. NewInSnap(m) => InSnap(m) BY DEF NewInSnap, InSnap
    <2> QED BY <2>1 DEF IInv, FateOK
<1> QED BY <1>1, <1>2

\* What one port's read returns: the unseen messages of its channel, split at
\* the push depth, and the largest position retained.
LEMMA WindowRead == ASSUME BusInv PROVE Reads
<1>MinIsLeast. ASSUME NEW S, S \subseteq Nat, S # {}
      PROVE  Min(S) \in S /\ \A y \in S : Min(S) <= y
    <2> USE <1>MinIsLeast
    <2>1. PICK x \in S : \A y \in S : ~(<<y, x>> \in OpToRel(<, Nat))
        BY NatLessThanWellFounded, WFMin
    <2>2. ASSUME NEW y \in S PROVE x <= y
        <3>1. x \in Nat /\ y \in Nat /\ <<y, x>> \in Nat \X Nat OBVIOUS
        <3>2. y < x => <<y, x>> \in OpToRel(<, Nat) BY <3>1 DEF OpToRel
        <3>3. ~(y < x) BY <2>1, <3>2
        <3> QED BY <3>1, <3>3
    <2> QED BY <2>2 DEF Min
<1>MaxIsGreatest. ASSUME NEW S, S \subseteq Nat, S # {}, NEW b \in Nat, \A x \in S : x <= b
      PROVE  Max(S) \in S /\ \A y \in S : y <= Max(S)
    <2> USE <1>MaxIsGreatest
    <2> DEFINE B == {u \in Nat : \A x \in S : x <= u}
               u == Min(B)
    <2>1. B \subseteq Nat /\ B # {} OBVIOUS
    <2>2. u \in B /\ \A w \in B : u <= w BY <2>1, <1>MinIsLeast
    <2>3. u \in Nat /\ \A x \in S : x <= u BY <2>2
    <2>4. u \in S
        <3>1. SUFFICES ASSUME u \notin S PROVE FALSE OBVIOUS
        <3> HIDE DEF u
        <3>2. PICK x \in S : TRUE OBVIOUS
        <3>3. u # 0 BY <2>3, <3>1, <3>2
        <3>4. u - 1 \in Nat /\ \A y \in S : y <= u - 1 BY <2>3, <3>1, <3>3
        <3>5. u - 1 \in B BY <3>4
        <3>6. u <= u - 1 BY <2>2, <3>5
        <3> QED BY <2>3, <3>6
    <2> HIDE DEF u, B
    <2>5. \E x \in S : \A y \in S : x >= y BY <2>3, <2>4
    <2>6. Max(S) \in S /\ \A y \in S : Max(S) >= y BY <2>5 DEF Max
    <2> QED BY <2>6
<1> SUFFICES ASSUME NEW c \in Channels
             PROVE  /\ Window(c) \in Snapshot
                    /\ Window(c).new \union Window(c).passed = Unseen(c)
                    /\ Window(c).through <= last_seq[c]
                    /\ \A m \in Retained(c) : rows[m].seq <= Window(c).through
    BY DEF Reads
<1> DEFINE newer(m) == {n \in Unseen(c) : rows[n].seq > rows[m].seq}
           new == {m \in Unseen(c) : Cardinality(newer(m)) < PushDepth}
           seqs == {rows[m].seq : m \in Retained(c)}
           through == IF seqs = {} THEN None ELSE Max(seqs)
<1>0. BusTypeOK /\ PositionsBounded BY DEF BusInv
<1>1. Window(c) = [new |-> new, passed |-> Unseen(c) \ new, through |-> through]
    BY DEF Window
<1>2. new \subseteq Unseen(c) OBVIOUS
<1>3. Unseen(c) \subseteq Nat
    BY <1>0, SMTT(30) DEF Unseen, Retained, BusTypeOK
<1>4. last_seq[c] \in Nat BY <1>0 DEF BusTypeOK
<1>5. \A m \in Retained(c) : rows[m].seq \in Nat /\ rows[m].seq <= last_seq[c]
    BY <1>0 DEF Retained, BusTypeOK, PositionsBounded, Row
<1>6. seqs \subseteq Nat /\ \A x \in seqs : x <= last_seq[c] BY <1>5
<1>7. through \in Nat /\ through <= last_seq[c] /\ \A x \in seqs : x <= through
    <2>1. CASE seqs = {} BY <1>4, <2>1, SMTT(30) DEF None
    <2>2. CASE seqs # {}
        <3>1. Max(seqs) \in seqs /\ \A y \in seqs : y <= Max(seqs)
            BY <1>4, <1>6, <2>2, <1>MaxIsGreatest
        <3> QED BY <1>6, <2>2, <3>1
    <2> QED BY <2>1, <2>2
<1>8. \A m \in Retained(c) : rows[m].seq \in seqs OBVIOUS
<1> HIDE DEF new, through, seqs
<1>9. Window(c) \in Snapshot BY <1>1, <1>2, <1>3, <1>7 DEF Snapshot
<1> QED BY <1>1, <1>2, <1>7, <1>8, <1>9
\* The task and the bus together keep the task's invariant.
LEMMA TaskIsSound == Spec => []IInv
<1>1. Init => IInv BY InitInv, BusInitInv DEF Init
<1>2. BusKeeps BY BusNextKeeps DEF BusKeeps
<1>3. IInv => Reads BY WindowRead DEF IInv
<1>4. IInv /\ [Next]_vars => IInv' BY <1>2, <1>3, NextInv
<1> QED BY <1>1, <1>4, PTL DEF Spec

\* No message is handed to a guest a second time, for any number of ports,
\* messages, crashes, panics and replacements in any interleaving: at the start
\* of an activation everything in its windows is still owed.
THEOREM DeliveredAtMostOnce == Spec => []HandedOnce
BY TaskIsSound, IInvImplies, PTL

\* No position passes a message that nobody answers for: only a crash or a dead
\* task loses what was in hand.
THEOREM NothingPassedUnaccounted == Spec => []PassedIsAccounted
BY TaskIsSound, IInvImplies, PTL
=============================================================================
