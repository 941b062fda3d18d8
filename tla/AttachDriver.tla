---------------------------- MODULE AttachDriver ----------------------------
(***************************************************************************)
(* The connection lifecycle of an attachment: the sans-I/O state machine   *)
(* of attach/client/src/conn.rs, the driver of attach/client/src/driver.rs *)
(* that owns its transport and deadlines, and an embedder that feeds it as *)
(* the driver's documentation asks, as surface/kernel/src/runner.rs does.  *)
(*                                                                         *)
(* Effects are executed to quiescence within a turn, so one action is an   *)
(* input together with everything executing its effects does.  Time is     *)
(* relative: a deadline is the ticks left until it, and Clock takes one    *)
(* from every deadline at once.                                            *)
(***************************************************************************)
EXTENDS Integers, Sequences

CONSTANTS
    Ours,               \* SUPPORTED_VERSIONS: [min, max]
    PeerVersions,       \* ranges a peer's Hello may state
    Heartbeats,         \* heartbeat_secs a Welcome may state
    Multiplier,         \* liveness_multiplier
    ConnectTimeout,     \* connect_timeout, in ticks
    InitialBackoff, MaxBackoff,
    StepCap,            \* backoff_step is counted up to here
    MaxInbox            \* events a transport buffers

\* start's own assertion on the multiplier; the schedule has reached its cap by
\* the step at which counting stops.
ASSUME DurationsAreTicks ==
    /\ Multiplier \in Nat \ {0} /\ ConnectTimeout \in Nat
    /\ InitialBackoff \in Nat /\ MaxBackoff \in Nat
    /\ StepCap \in Nat /\ MaxInbox \in Nat
    /\ Heartbeats \subseteq Nat
    /\ InitialBackoff * 2^StepCap >= MaxBackoff

\* The version ranges are ranges of version numbers.
ASSUME VersionsAreRanges ==
    /\ Ours \in [min : Nat \ {0}, max : Nat \ {0}]
    /\ PeerVersions \subseteq [min : Nat \ {0}, max : Nat \ {0}]

VARIABLES
    \* Connection
    state, backoff_step, version, deadline, liveness,
    \* AttachDriver
    transport,      \* whether a live transport is held
    inbox,          \* what its peer has sent and nobody has read
    wakeup,         \* the armed connection deadline: << >> or <<ticks>>
    timers,         \* the planes' two deadlines, armed or not
    pending,        \* pending_connect
    started,        \* start_effects have been executed
    \* the embedder and history
    connecting,     \* the embedder is inside run_connect
    attached,       \* what the events tell the page about its attachment
    told,           \* the last event the embedder was handed
    failures,       \* drops and failed attempts since the last Attached
    silence         \* ticks since the peer last sent anything

connVars == <<state, backoff_step, version, deadline, liveness>>
driverVars == <<transport, inbox, wakeup, timers, pending, started>>
history == <<attached, told, failures>>
vars == <<connVars, driverVars, connecting, history, silence>>

Open == {"Negotiating", "AwaitingWelcome", "Active"}
States == Open \cup {"Connecting", "Backoff", "Terminal"}

AtMost(a, b) == IF a < b THEN a ELSE b
AtLeast(a, b) == IF a > b THEN a ELSE b

-----------------------------------------------------------------------------
(***************************************************************************)
(* Connection.                                                             *)
(***************************************************************************)

\* negotiate, with 0 for no overlap.
Negotiate(a, b) ==
    LET agreed == AtMost(a.max, b.max)
    IN  IF agreed >= AtLeast(a.min, b.min) THEN agreed ELSE 0

\* backoff_delay_ms' loop: double until the cap is reached, then clamp.
Doubled == [n \in Nat |->
    LET Loop[i \in Nat] ==
            IF i = 0 THEN InitialBackoff
            ELSE IF i > 1 /\ Loop[i - 1] >= MaxBackoff THEN Loop[i - 1]
            ELSE 2 * Loop[i - 1]
    IN  AtMost(Loop[n], MaxBackoff)]

\* Equal jitter: what is left of the nominal delay after a draw over its half.
Delays(nominal) == {nominal - (nominal \div 2) + j : j \in 0..(nominal \div 2)}

\* Mutant of EnterBackoff: the schedule is not consumed.
EnterBackoffSameStep ==
    /\ state' = "Backoff"
    /\ version' = 0
    /\ deadline' \in Delays(Doubled[backoff_step])
    /\ wakeup' = <<deadline'>>
    /\ UNCHANGED <<backoff_step, liveness>>

\* enter_backoff: the agreed version goes, one step of the schedule is consumed.
EnterBackoff ==
    /\ state' = "Backoff"
    /\ version' = 0
    /\ deadline' \in Delays(Doubled[backoff_step])
    /\ wakeup' = <<deadline'>>
    /\ backoff_step' = AtMost(backoff_step + 1, StepCap)
    /\ UNCHANGED liveness

\* begin_connect.
BeginConnect ==
    /\ state' = "Connecting"
    /\ deadline' = ConnectTimeout
    /\ wakeup' = <<ConnectTimeout>>
    /\ pending' = TRUE
    /\ UNCHANGED <<backoff_step, version, liveness>>

\* Events reach the embedder: its page attaches or tears down, and a drop or a
\* failed attempt counts against the schedule.
Tell(event) ==
    /\ told' = event
    /\ attached' = (event = "Attached")
    /\ failures' = IF event = "Attached" THEN 0
                   ELSE IF event \in {"TransportClosed", "LivenessTimeout"}
                   THEN AtMost(failures + 1, StepCap) ELSE failures

\* A failed attempt returns to backoff without an event.
TellNothing ==
    /\ failures' = AtMost(failures + 1, StepCap)
    /\ UNCHANGED <<told, attached>>

-----------------------------------------------------------------------------
(***************************************************************************)
(* The driver's execution of effects.                                      *)
(***************************************************************************)

\* The transport is dropped, with whatever was unread on it.
DropTransport == transport' = FALSE /\ inbox' = << >>

\* CloseTransport also abandons a connect nobody has run yet.
CloseTransport == DropTransport /\ pending' = FALSE

\* Reaching Terminal disarms all three deadlines.
Disarmed == wakeup' = << >> /\ timers' = [t \in DOMAIN timers |-> FALSE]

\* A page that is told of a drop disarms its outboxes' retry timer.
RetryDisarmed == timers' = [timers EXCEPT !["retry"] = FALSE]

\* A terminal verdict reached on the connection's own transport: go_fatal,
\* close, and a failed negotiation.
GoTerminal(event) ==
    /\ state' = "Terminal"
    /\ CloseTransport
    /\ Disarmed
    /\ Tell(event)
    /\ UNCHANGED <<backoff_step, version, deadline, liveness, started>>

\* on_disconnected, the transport already dropped: a close code the embedder
\* declared terminal ends the attachment, anything else backs off.
OnDisconnected(code) ==
    /\ DropTransport
    /\ UNCHANGED <<pending, started>>
    /\ \/ /\ code = "terminal"
          /\ state' = "Terminal"
          /\ Disarmed
          /\ Tell("PeerClosedTerminal")
          /\ UNCHANGED <<backoff_step, version, deadline, liveness>>
       \/ /\ code # "terminal"
          /\ EnterBackoff
          /\ Tell("TransportClosed")
          /\ RetryDisarmed

-----------------------------------------------------------------------------
(***************************************************************************)
(* Inbound frames.                                                         *)
(***************************************************************************)

Idle == UNCHANGED <<transport, pending, started, timers>>

\* on_text_negotiating: only a Hello whose range overlaps ours is legal.
OnTextNegotiating(f) ==
    \/ /\ f.kind # "Hello"
       /\ GoTerminal("Fatal")
    \/ /\ f.kind = "Hello"
       /\ LET agreed == Negotiate(Ours, f.versions)
          IN  \/ /\ agreed = 0
                 /\ GoTerminal("Incompatible")
              \/ /\ agreed # 0
                 /\ version' = agreed
                 /\ state' = "AwaitingWelcome"
                 /\ inbox' = Tail(inbox)
                 /\ Idle
                 /\ UNCHANGED <<backoff_step, deadline, liveness, wakeup, history>>

\* A Welcome echoes the agreed version and states a heartbeat.
Admissible(f) == f.kind = "Welcome" /\ f.version = version /\ f.heartbeat > 0

\* Mutant of ArmLiveness: the window is computed and the timer is not set.
ArmLivenessUnset(window) == deadline' = window /\ wakeup' = << >>

\* arm_liveness and the SetWakeup that follows it.
ArmLiveness(window) == deadline' = window /\ wakeup' = <<window>>

\* on_text_awaiting_welcome: the attachment is live, the schedule resets.
OnTextAwaitingWelcome(f) ==
    \/ /\ ~Admissible(f)
       /\ GoTerminal("Fatal")
    \/ /\ Admissible(f)
       /\ backoff_step' = 0
       /\ state' = "Active"
       /\ liveness' = f.heartbeat * Multiplier
       /\ ArmLiveness(f.heartbeat * Multiplier)
       /\ inbox' = Tail(inbox)
       /\ Tell("Attached")
       /\ Idle
       /\ UNCHANGED version

\* Mutant of Rearms: a heartbeat is no evidence of life.
RearmsRouted(f) == f.kind = "Routed"

\* What re-arms liveness while live; every other frame is fatal there.
Rearms(f) == f.kind \in {"Heartbeat", "Routed"}

\* on_text_active, and the binary-frame arm.  The planes' own reaction to a
\* routed frame is WriteFails, ArmTimer or HostFatal.
OnTextActive(f) ==
    \/ /\ f.kind \in {"Hello", "Welcome", "Unparseable", "Binary"}
       /\ GoTerminal("Fatal")
    \/ /\ f.kind \in {"Heartbeat", "Routed"}
       /\ ArmLiveness(IF Rearms(f) THEN liveness ELSE deadline)
       /\ inbox' = Tail(inbox)
       /\ Idle
       /\ UNCHANGED <<state, backoff_step, version, liveness, history>>

\* wait's socket arm: the next event of the live transport is fed.
ReadTransport ==
    /\ started /\ ~connecting
    /\ transport /\ inbox # << >>
    /\ LET f == Head(inbox)
       IN  \/ f.kind = "Closed" /\ OnDisconnected(f.code)
           \/ f.kind # "Closed" /\ state = "Negotiating" /\ OnTextNegotiating(f)
           \/ f.kind # "Closed" /\ state = "AwaitingWelcome" /\ OnTextAwaitingWelcome(f)
           \/ f.kind # "Closed" /\ state = "Active" /\ OnTextActive(f)
    /\ UNCHANGED <<connecting, silence>>

-----------------------------------------------------------------------------
(***************************************************************************)
(* Deadlines and connects.  A timer that fires before its deadline re-arms *)
(* the deadline it already has, which changes nothing.                     *)
(***************************************************************************)

Due == wakeup = <<0>>

\* Mutant of HandshakeTimesOut: the half-open transport is left behind.
HandshakeTimesOutOpen ==
    /\ EnterBackoff
    /\ TellNothing
    /\ UNCHANGED <<transport, inbox, pending, timers, started>>

\* Mutant of HandshakeTimesOut: an open transport is given another window.
HandshakeTimesOutRearms ==
    IF transport
    THEN /\ deadline' = ConnectTimeout /\ wakeup' = <<ConnectTimeout>>
         /\ UNCHANGED <<state, backoff_step, version, liveness, transport, inbox, pending,
                        timers, started, history>>
    ELSE /\ CloseTransport
         /\ EnterBackoff
         /\ TellNothing
         /\ UNCHANGED <<timers, started>>

\* The handshake deadline passed: the attempt is abandoned without an event.
HandshakeTimesOut ==
    /\ CloseTransport
    /\ EnterBackoff
    /\ TellNothing
    /\ UNCHANGED <<timers, started>>

\* Mutant of Reap: the page is not told that its attachment went.
ReapUntold ==
    /\ CloseTransport
    /\ EnterBackoff
    /\ TellNothing
    /\ RetryDisarmed
    /\ UNCHANGED started

\* Mutant of Reap: a silent peer is given another window.
ReapRearms ==
    /\ ArmLiveness(liveness)
    /\ UNCHANGED <<state, backoff_step, version, liveness, transport, inbox, pending,
                   timers, started, history>>

\* The liveness deadline passed.
Reap ==
    /\ CloseTransport
    /\ EnterBackoff
    /\ Tell("LivenessTimeout")
    /\ RetryDisarmed
    /\ UNCHANGED started

\* wait's tick arm.  The transport is polled first, so a tick is only taken
\* when nothing is there to be read.
Tick ==
    /\ started /\ ~connecting /\ ~pending
    /\ Due /\ inbox = << >>
    /\ \/ state \in {"Negotiating", "AwaitingWelcome"} /\ HandshakeTimesOut
       \/ state = "Active" /\ Reap
       \/ /\ state = "Backoff"
          /\ BeginConnect
          /\ UNCHANGED <<transport, inbox, timers, started, history>>
    /\ UNCHANGED <<connecting, silence>>

\* The first attempt's effects.
Start ==
    /\ ~started /\ state = "Connecting"
    /\ started' = TRUE
    /\ pending' = TRUE
    /\ wakeup' = <<deadline>>
    /\ UNCHANGED <<connVars, transport, inbox, timers, connecting, history, silence>>

\* The embedder's loop takes the pending connect and pins the attempt.
RunConnect ==
    /\ started /\ ~connecting /\ pending
    /\ pending' = FALSE
    /\ connecting' = TRUE
    /\ UNCHANGED <<connVars, transport, inbox, wakeup, timers, started, history, silence>>

\* The socket opened: this end's Hello is written, or its write loses the
\* transport again.
Opened ==
    /\ \/ /\ state' = "Negotiating"
          /\ transport' = TRUE
          /\ UNCHANGED <<backoff_step, version, deadline, liveness, inbox, wakeup, timers,
                         pending, started, history>>
       \/ OnDisconnected("none")
    /\ silence' = 0

\* The attempt settles: open, failed, or overtaken by the handshake deadline.
ConnectSettles ==
    /\ connecting
    /\ connecting' = FALSE
    /\ \/ Opened
       \/ EnterBackoff /\ TellNothing
            /\ UNCHANGED <<transport, inbox, timers, pending, started, silence>>
       \/ Due /\ HandshakeTimesOut /\ UNCHANGED silence

-----------------------------------------------------------------------------
(***************************************************************************)
(* The embedder, the peer and time.                                        *)
(***************************************************************************)

\* host_fatal, before the start or at any later turn of a live attachment.
HostFatal ==
    /\ ~connecting /\ state # "Terminal"
    /\ GoTerminal("Fatal")
    /\ UNCHANGED <<connecting, silence>>

\* close, at the platform half's request; absorbed once terminal.
Close ==
    /\ started /\ ~connecting /\ state # "Terminal"
    /\ GoTerminal("Closed")
    /\ UNCHANGED <<connecting, silence>>

\* send: the planes write while the attachment is live, and a write fails.
WriteFails ==
    /\ ~connecting /\ state = "Active"
    /\ OnDisconnected("none")
    /\ UNCHANGED <<connecting, silence>>

\* set_retry_wakeup while attached; set_release_wakeup whenever a turn parks a
\* confined message, the terminal drain's turns included.
ArmTimer ==
    /\ started /\ ~connecting
    /\ \E t \in IF attached THEN DOMAIN timers ELSE {"release"} :
          /\ ~timers[t]
          /\ timers' = [timers EXCEPT ![t] = TRUE]
    /\ UNCHANGED <<connVars, transport, inbox, wakeup, pending, started, connecting, history,
                   silence>>

\* RetryDue or ReleaseDue: the plane acts, and nothing is owed any more.
TimerDue ==
    /\ ~connecting /\ ~pending /\ state # "Terminal"
    /\ inbox = << >> /\ ~Due
    /\ \E t \in DOMAIN timers :
          /\ timers[t]
          /\ timers' = [timers EXCEPT ![t] = FALSE]
    /\ UNCHANGED <<connVars, transport, inbox, wakeup, pending, started, connecting, history,
                   silence>>

Frames == [kind : {"Hello"}, versions : PeerVersions]
    \cup [kind : {"Welcome"}, version : {Ours.max, Ours.max + 1}, heartbeat : Heartbeats]
    \cup [kind : {"Heartbeat", "Routed", "Unparseable", "Binary"}]

Closes == [kind : {"Closed"}, code : {"none", "terminal"}]

\* The peer's frames arrive, and its close or the socket's failure.
PeerActs ==
    /\ transport /\ Len(inbox) < MaxInbox
    /\ \A i \in 1..Len(inbox) : inbox[i].kind # "Closed"
    /\ \/ /\ \E f \in Frames : inbox' = Append(inbox, f)
          /\ silence' = 0
       \/ /\ \E c \in Closes : inbox' = Append(inbox, c)
          /\ UNCHANGED silence
    /\ UNCHANGED <<connVars, transport, wakeup, timers, pending, started, connecting, history>>

Before(left) == IF left = 0 THEN 0 ELSE left - 1

\* A tick of time passes.
Clock ==
    /\ deadline > 0 \/ (transport /\ silence < liveness)
    /\ deadline' = Before(deadline)
    /\ wakeup' = IF wakeup = << >> THEN << >> ELSE <<Before(wakeup[1])>>
    /\ silence' = IF transport THEN AtMost(silence + 1, liveness) ELSE 0
    /\ UNCHANGED <<state, backoff_step, version, liveness, transport, inbox, timers, pending,
                   started, connecting, history>>

-----------------------------------------------------------------------------
\* start: the first connect is asked for in the constructor and executed later.
Init ==
    /\ state = "Connecting" /\ backoff_step = 0 /\ version = 0
    /\ deadline = ConnectTimeout /\ liveness = 0
    /\ transport = FALSE /\ inbox = << >>
    /\ wakeup = << >> /\ timers = [t \in {"retry", "release"} |-> FALSE]
    /\ pending = FALSE /\ started = FALSE
    /\ connecting = FALSE
    /\ attached = FALSE /\ told = "nothing" /\ failures = 0
    /\ silence = 0

Turns == ReadTransport \/ Tick \/ Start \/ RunConnect

Next ==
    \/ Turns \/ ConnectSettles
    \/ HostFatal \/ Close \/ WriteFails \/ ArmTimer \/ TimerDue
    \/ PeerActs \/ Clock

Spec == Init /\ [][Next]_vars

\* The embedder's loop takes its turns, a connect attempt settles by its
\* deadline, and time passes.
FairSpec == Spec /\ WF_vars(Turns) /\ WF_vars(ConnectSettles) /\ WF_vars(Clock)

-----------------------------------------------------------------------------
\* The driver's obligation to the connection (the doc of ConnInput): a transport
\* is held exactly in the states that own one and a connect is pending or
\* running exactly in the state that asked for it, so nothing is ever fed from
\* a transport the connection is done with.
TransportOwned ==
    /\ transport <=> state \in Open
    /\ ~transport => inbox = << >>
    /\ ~(pending /\ connecting)
    /\ started => (pending \/ connecting <=> state = "Connecting")

\* The driver's timer is the connection's deadline in every state that has one:
\* no transition between handshake, liveness and backoff leaves the attachment
\* without the timer that would move it on.
DeadlineKept == started /\ state # "Terminal" => wakeup = <<deadline>>

\* An attachment that is over holds no transport, asks for no connect and wakes
\* for neither the connection's deadline nor a retry (execute's last step).
TerminalIsClean ==
    state = "Terminal" =>
        ~transport /\ ~pending /\ ~connecting /\ wakeup = << >> /\ ~timers["retry"]

\* The events alone keep the page right about its attachment: it believes itself
\* attached exactly while the connection is Active, through drops found by a
\* read, by a write and by silence (Emit(Attached), Emit(Detached), the terminal
\* events).  on_attached panics on a page that is attached already.
AttachedIsActive == attached <=> state = "Active"

\* Only a silent peer is reaped: with a whole liveness window since its last
\* frame arrived and nothing unread (wait polls the transport first, and every
\* frame re-arms the window).
ReapedOnlySilent ==
    [][state = "Active" /\ told' = "LivenessTimeout" /\ state' = "Backoff"
          => silence >= liveness /\ inbox = << >>]_vars

\* The nominal delay after n failures, in closed form.
Nominal(n) == AtMost(InitialBackoff * 2^n, MaxBackoff)

\* The backoff entered after n drops and failed attempts since the last
\* attachment lies between half the doubled, capped delay and all of it
\* (backoff_delay_ms, backoff_step and its reset on Welcome).
BackoffFollowsFailures ==
    [][state # "Backoff" /\ state' = "Backoff"
          => deadline' \in Delays(Nominal(failures))]_vars

\* Every attempt and every wait ends: whatever the peer does or leaves undone,
\* the connection does not stay in a handshake state or in backoff.
AttemptEnds ==
    \A s \in States \ {"Active", "Terminal"} : state = s ~> state # s

\* A connection that stays Active has a peer that keeps speaking.
SilentPeerIsReaped == <>[](state = "Active") => []<>(silence = 0)
=============================================================================
