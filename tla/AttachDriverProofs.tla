------------------------- MODULE AttachDriverProofs -------------------------
(***************************************************************************)
(* Proofs about AttachDriver, for any durations, version ranges and        *)
(* heartbeats: the connection, its driver and its page stay in step, and   *)
(* only a silent peer is reaped.                                           *)
(*                                                                         *)
(* The inductive invariant adds to the four properties what holds before   *)
(* the start, the types the argument needs, and the window of a live       *)
(* connection: with nothing unread, the time since the peer last spoke and *)
(* the time left to the deadline make up at least the liveness window.     *)
(***************************************************************************)
EXTENDS AttachDriver, TLAPS

USE ZenonT(30), SMTT(30)

Types ==
    /\ state \in States
    /\ timers \in [{"retry", "release"} -> BOOLEAN]
    /\ inbox \in Seq(Frames \cup Closes)
    /\ liveness \in Nat /\ silence \in Nat

Flags ==
    /\ transport \in BOOLEAN /\ pending \in BOOLEAN /\ connecting \in BOOLEAN
    /\ started \in BOOLEAN /\ attached \in BOOLEAN

\* Until start nothing has been asked for, and the driver can only go fatal.
Unstarted ==
    ~started => /\ state \in {"Connecting", "Terminal"}
                /\ ~pending /\ ~connecting /\ wakeup = << >>

Window ==
    state = "Active" =>
        /\ deadline \in Nat
        /\ inbox = << >> => silence + deadline >= liveness

Lifecycle == TransportOwned /\ DeadlineKept /\ TerminalIsClean /\ AttachedIsActive

IInv == Types /\ Flags /\ Unstarted /\ Lifecycle /\ Window

-----------------------------------------------------------------------------
\* A Welcome that arrives states a heartbeat that is a number (parse_frame).
LEMMA WelcomeHeartbeat ==
    ASSUME NEW f \in Frames \cup Closes, f.kind = "Welcome"
    PROVE  f.heartbeat \in Nat
  BY DurationsAreTicks DEF Frames, Closes

\* Reading the head of an arrival queue leaves a queue of arrivals.
LEMMA ReadArrival ==
    ASSUME inbox \in Seq(Frames \cup Closes), inbox # << >>
    PROVE  Head(inbox) \in Frames \cup Closes /\ Tail(inbox) \in Seq(Frames \cup Closes)
  OBVIOUS

\* The start of the program satisfies the invariant (Connection::start).
LEMMA InitIInv == Init => IInv
  <1> SUFFICES ASSUME Init PROVE IInv
    OBVIOUS
  <1>1. Types
    BY DEF Init, Types, States, Open
  <1>f. Flags
    BY DEF Init, Flags
  <1>2. Unstarted /\ Window
    BY DEF Init, Unstarted, Window
  <1>3. Lifecycle
    BY DEF Init, Lifecycle, TransportOwned, DeadlineKept, TerminalIsClean, AttachedIsActive, Open
  <1> QED
    BY <1>1, <1>f, <1>2, <1>3 DEF IInv

\* A terminal verdict from any state leaves the lifecycle in order (go_fatal,
\* close and execute's last step).
LEMMA TerminalStep ==
    ASSUME IInv, NEW event \in {"Fatal", "Incompatible", "Closed"}, GoTerminal(event),
           ~connecting, connecting' = connecting, silence' = silence
    PROVE  IInv'
  <1>1. /\ state' = "Terminal" /\ transport' = FALSE /\ inbox' = << >> /\ pending' = FALSE
        /\ wakeup' = << >> /\ started' = started /\ liveness' = liveness /\ attached' = FALSE
    BY DEF GoTerminal, CloseTransport, DropTransport, Disarmed, Tell
  <1>2. timers' = [t \in {"retry", "release"} |-> FALSE]
    BY DEF IInv, Types, GoTerminal, Disarmed
  <1>3. Types'
    BY <1>1, <1>2, SMTT(30) DEF IInv, Types, States
  <1>f. Flags'
    BY <1>1 DEF IInv, Flags
  <1>4. Unstarted' /\ Window'
    BY <1>1 DEF Unstarted, Window
  <1>5. Lifecycle'
    BY <1>1, <1>2 DEF Lifecycle, TransportOwned, DeadlineKept, TerminalIsClean,
                      AttachedIsActive, Open
  <1> QED
    BY <1>3, <1>f, <1>4, <1>5 DEF IInv

\* Entering backoff with no transport and no connect leaves it in order.
LEMMA BackoffStep ==
    ASSUME IInv, started, started' = started, EnterBackoff, DropTransport, pending' = FALSE,
           connecting' = FALSE, attached' = FALSE, silence' \in Nat,
           timers' \in [{"retry", "release"} -> BOOLEAN]
    PROVE  IInv'
  <1>1. /\ state' = "Backoff" /\ transport' = FALSE /\ inbox' = << >>
        /\ wakeup' = <<deadline'>> /\ liveness' = liveness
    BY DEF EnterBackoff, DropTransport
  <1>2. Types'
    BY <1>1, SMTT(30) DEF IInv, Types, States
  <1>f. Flags'
    BY <1>1 DEF IInv, Flags
  <1>3. Unstarted' /\ Window'
    BY <1>1 DEF Unstarted, Window
  <1>4. Lifecycle'
    BY <1>1 DEF Lifecycle, TransportOwned, DeadlineKept, TerminalIsClean, AttachedIsActive, Open
  <1> QED
    BY <1>2, <1>f, <1>3, <1>4 DEF IInv

\* Losing the transport leaves it in order, whatever the close code.
LEMMA DisconnectStep ==
    ASSUME IInv, NEW code, OnDisconnected(code), started, ~pending,
           connecting' = FALSE, silence' \in Nat
    PROVE  IInv'
  <1>0. transport' = FALSE /\ inbox' = << >> /\ started' = started /\ pending' = pending
    BY DEF OnDisconnected, DropTransport
  <1>1. CASE code = "terminal"
    <2>1. /\ state' = "Terminal" /\ wakeup' = << >> /\ attached' = FALSE
          /\ liveness' = liveness /\ timers' = [t \in {"retry", "release"} |-> FALSE]
      BY <1>1 DEF IInv, Types, OnDisconnected, Disarmed, Tell
    <2>2. Types'
      BY <1>0, <2>1, SMTT(30) DEF IInv, Types, States
    <2>f. Flags'
      BY <1>0, <2>1 DEF IInv, Flags
    <2>3. Unstarted' /\ Window'
      BY <1>0, <2>1 DEF Unstarted, Window
    <2>4. Lifecycle'
      BY <1>0, <2>1 DEF Lifecycle, TransportOwned, DeadlineKept, TerminalIsClean,
                        AttachedIsActive, Open
    <2> QED
      BY <2>2, <2>f, <2>3, <2>4 DEF IInv
  <1>2. CASE code # "terminal"
    <2>1. timers' \in [{"retry", "release"} -> BOOLEAN]
      BY <1>2 DEF IInv, Types, OnDisconnected, RetryDisarmed
    <2>2. attached' = FALSE /\ EnterBackoff /\ DropTransport
      BY <1>2 DEF OnDisconnected, Tell
    <2>3. pending' = FALSE
      BY <1>0 DEF IInv, Flags
    <2> QED
      BY <1>0, <2>1, <2>2, <2>3, BackoffStep
  <1> QED
    BY <1>1, <1>2

\* Every inbound frame keeps the invariant (on_text_negotiating,
\* on_text_awaiting_welcome, on_text_active, on_disconnected).
LEMMA ReadStep ==
    ASSUME IInv, ReadTransport
    PROVE  IInv'
  <1> DEFINE f == Head(inbox)
  <1>1. f \in Frames \cup Closes /\ Tail(inbox) \in Seq(Frames \cup Closes)
    BY ReadArrival DEF IInv, Types, ReadTransport
  <1>2. /\ started /\ connecting = FALSE /\ transport = TRUE /\ state \in Open /\ ~pending
        /\ connecting' = connecting /\ silence' = silence
    BY DEF IInv, Flags, Lifecycle, TransportOwned, ReadTransport, Open
  <1>3. CASE f.kind = "Closed"
    <2>1. OnDisconnected(f.code)
      BY <1>3 DEF ReadTransport
    <2>2. silence' \in Nat /\ connecting' = FALSE
      BY <1>2 DEF IInv, Types
    <2> HIDE DEF f
    <2> QED
      BY <1>2, <2>1, <2>2, DisconnectStep
  <1>4. ASSUME NEW e \in {"Fatal", "Incompatible", "Closed"}, GoTerminal(e)
        PROVE  IInv'
    BY <1>2, <1>4, TerminalStep
  <1>5. CASE f.kind # "Closed" /\ state = "Negotiating"
    <2>1. OnTextNegotiating(f)
      BY <1>5 DEF ReadTransport
    <2>2. CASE GoTerminal("Fatal") \/ GoTerminal("Incompatible")
      BY <2>2, <1>4
    <2>3. CASE /\ state' = "AwaitingWelcome" /\ inbox' = Tail(inbox)
               /\ Idle /\ UNCHANGED <<backoff_step, deadline, liveness, wakeup, history>>
      <3>1. Types'
        BY <1>1, <1>2, <2>3 DEF IInv, Types, Idle, States, Open
      <3>2. Flags'
        BY <1>2, <2>3 DEF IInv, Flags, Idle, history
      <3>3. Unstarted' /\ Window'
        BY <1>2, <2>3 DEF Unstarted, Window, Idle
      <3>4. Lifecycle'
        BY <1>2, <1>5, <2>3 DEF IInv, Lifecycle, TransportOwned, DeadlineKept, TerminalIsClean,
             AttachedIsActive, Open, Idle, history
      <3> QED
        BY <3>1, <3>2, <3>3, <3>4 DEF IInv
    <2> QED
      BY <2>1, <2>2, <2>3 DEF OnTextNegotiating
  <1>6. CASE f.kind # "Closed" /\ state = "AwaitingWelcome"
    <2>1. OnTextAwaitingWelcome(f)
      BY <1>6 DEF ReadTransport
    <2>2. CASE ~Admissible(f)
      BY <2>1, <2>2, <1>4 DEF OnTextAwaitingWelcome
    <2>3. CASE Admissible(f)
      <3>0. f.heartbeat \in Nat
        BY <1>1, <2>3, WelcomeHeartbeat DEF Admissible
      <3>a. f.heartbeat * Multiplier \in Nat
        BY <3>0, DurationsAreTicks
      <3>b. /\ state' = "Active" /\ inbox' = Tail(inbox) /\ attached' = TRUE
            /\ liveness' = f.heartbeat * Multiplier /\ deadline' = f.heartbeat * Multiplier
            /\ wakeup' = <<deadline'>> /\ UNCHANGED <<transport, pending, started, timers>>
        BY <2>1, <2>3 DEF OnTextAwaitingWelcome, ArmLiveness, Tell, Idle
      <3> HIDE DEF f
      <3>1. Types'
        BY <1>1, <1>2, <3>a, <3>b DEF IInv, Types, States, Open
      <3>2. Flags'
        BY <1>2, <3>b DEF IInv, Flags
      <3>3. Unstarted' /\ Window'
        BY <1>2, <3>a, <3>b, SMTT(30) DEF IInv, Types, Unstarted, Window
      <3>4. Lifecycle'
        BY <1>2, <1>6, <3>b DEF IInv, Lifecycle, TransportOwned, DeadlineKept, TerminalIsClean,
             AttachedIsActive, Open
      <3> QED
        BY <3>1, <3>2, <3>3, <3>4 DEF IInv
    <2> QED
      BY <2>2, <2>3
  <1>7. CASE f.kind # "Closed" /\ state = "Active"
    <2>1. OnTextActive(f)
      BY <1>7 DEF ReadTransport
    <2>2. CASE GoTerminal("Fatal")
      BY <2>2, <1>4
    <2>3. CASE f.kind \in {"Heartbeat", "Routed"}
      <3>1. /\ deadline' = liveness /\ wakeup' = <<deadline'>> /\ inbox' = Tail(inbox)
            /\ UNCHANGED <<state, liveness, transport, pending, started, timers, attached>>
        BY <2>1, <2>3 DEF OnTextActive, ArmLiveness, Rearms, Idle, history
      <3>2. Types'
        BY <1>1, <1>2, <3>1 DEF IInv, Types
      <3>3. Flags'
        BY <1>2, <3>1 DEF IInv, Flags
      <3>4. Unstarted' /\ Window'
        BY <1>2, <3>1, SMTT(30) DEF IInv, Types, Unstarted, Window
      <3>5. Lifecycle'
        BY <1>2, <1>7, <3>1 DEF IInv, Lifecycle, TransportOwned, DeadlineKept, TerminalIsClean,
             AttachedIsActive, Open
      <3> QED
        BY <3>2, <3>3, <3>4, <3>5 DEF IInv
    <2> QED
      BY <2>1, <2>2, <2>3 DEF OnTextActive
  <1> QED
    BY <1>2, <1>3, <1>5, <1>6, <1>7 DEF Open

\* A deadline that passes keeps the invariant (Tick in every state).
LEMMA TickStep ==
    ASSUME IInv, Tick
    PROVE  IInv'
  <1>1. /\ started /\ connecting = FALSE /\ ~pending /\ state \notin {"Connecting", "Terminal"}
        /\ connecting' = connecting /\ silence' = silence
    BY DEF IInv, Flags, Lifecycle, TransportOwned, TerminalIsClean, Tick, Due
  <1>2. silence' \in Nat
    BY <1>1 DEF IInv, Types
  <1>3. CASE state \in {"Negotiating", "AwaitingWelcome"}
    <2>1. HandshakeTimesOut
      BY <1>3 DEF Tick
    <2>2. attached' = FALSE
      BY <1>3, <2>1 DEF HandshakeTimesOut, TellNothing, IInv, Flags, Lifecycle, AttachedIsActive
    <2> QED
      BY <1>1, <1>2, <2>1, <2>2, BackoffStep DEF HandshakeTimesOut, CloseTransport, IInv, Types
  <1>4. CASE state = "Active"
    <2>1. Reap
      BY <1>4 DEF Tick
    <2>2. timers' \in [{"retry", "release"} -> BOOLEAN]
      BY <2>1 DEF Reap, RetryDisarmed, IInv, Types
    <2>3. attached' = FALSE
      BY <2>1 DEF Reap, Tell
    <2> QED
      BY <1>1, <1>2, <2>1, <2>2, <2>3, BackoffStep DEF Reap, CloseTransport
  <1>5. CASE state = "Backoff"
    <2>1. /\ state' = "Connecting" /\ wakeup' = <<deadline'>> /\ pending' = TRUE
          /\ UNCHANGED <<liveness, transport, inbox, timers, started, attached>>
      BY <1>5 DEF Tick, BeginConnect, history
    <2>2. Types' /\ Flags'
      BY <1>1, <2>1 DEF IInv, Types, Flags, States
    <2>3. Unstarted' /\ Window'
      BY <1>1, <2>1 DEF Unstarted, Window
    <2>4. Lifecycle'
      BY <1>1, <1>5, <2>1 DEF IInv, Lifecycle, TransportOwned, DeadlineKept, TerminalIsClean,
           AttachedIsActive, Open
    <2> QED
      BY <2>2, <2>3, <2>4 DEF IInv
  <1> QED
    BY <1>1, <1>3, <1>4, <1>5 DEF IInv, Types, States, Open

\* Starting, and taking the pending connect (start, take_pending_connect).
LEMMA ConnectingStep ==
    ASSUME IInv, Start \/ RunConnect
    PROVE  IInv'
  <1>1. CASE Start
    <2>1. Types' /\ Flags'
      BY <1>1 DEF Start, IInv, Types, Flags, connVars, history
    <2>2. Unstarted' /\ Window'
      BY <1>1 DEF Start, Unstarted, Window, connVars
    <2>3. Lifecycle'
      BY <1>1 DEF Start, IInv, Unstarted, Lifecycle, TransportOwned, DeadlineKept,
           TerminalIsClean, AttachedIsActive, Open, connVars, history
    <2> QED
      BY <2>1, <2>2, <2>3 DEF IInv
  <1>2. CASE RunConnect
    <2>1. Types' /\ Flags'
      BY <1>2 DEF RunConnect, IInv, Types, Flags, connVars, history
    <2>2. state = "Connecting"
      BY <1>2 DEF RunConnect, IInv, Lifecycle, TransportOwned
    <2>3. Unstarted' /\ Window'
      BY <1>2, <2>2 DEF RunConnect, Unstarted, Window, connVars
    <2>4. Lifecycle'
      BY <1>2, <2>2 DEF RunConnect, IInv, Lifecycle, TransportOwned, DeadlineKept,
           TerminalIsClean, AttachedIsActive, Open, connVars, history
    <2> QED
      BY <2>1, <2>3, <2>4 DEF IInv
  <1> QED
    BY <1>1, <1>2

\* Every way a connect attempt settles keeps the invariant (connect).
LEMMA SettleStep ==
    ASSUME IInv, ConnectSettles
    PROVE  IInv'
  <1>1. /\ started /\ connecting /\ pending = FALSE /\ state = "Connecting"
        /\ connecting' = FALSE /\ transport = FALSE /\ inbox = << >> /\ attached = FALSE
    BY DEF ConnectSettles, IInv, Flags, Unstarted, Lifecycle, TransportOwned, AttachedIsActive,
           Open
  <1>2. CASE Opened
    <2>0. silence' = 0
      BY <1>2 DEF Opened
    <2>1. CASE OnDisconnected("none")
      BY <1>1, <2>0, <2>1, DisconnectStep
    <2>2. CASE /\ state' = "Negotiating" /\ transport' = TRUE
               /\ UNCHANGED <<backoff_step, version, deadline, liveness, inbox, wakeup, timers,
                              pending, started, history>>
      <3>1. Types' /\ Flags'
        BY <1>1, <2>0, <2>2 DEF IInv, Types, Flags, States, Open, history
      <3>2. Unstarted' /\ Window'
        BY <1>1, <2>2 DEF Unstarted, Window
      <3>3. Lifecycle'
        BY <1>1, <2>2 DEF IInv, Lifecycle, TransportOwned, DeadlineKept, TerminalIsClean,
             AttachedIsActive, Open, history
      <3> QED
        BY <3>1, <3>2, <3>3 DEF IInv
    <2> QED
      BY <1>2, <2>1, <2>2 DEF Opened
  <1>3. CASE /\ EnterBackoff /\ TellNothing
             /\ UNCHANGED <<transport, inbox, timers, pending, started, silence>>
    BY <1>1, <1>3, BackoffStep DEF DropTransport, TellNothing, IInv, Types
  <1>4. CASE HandshakeTimesOut /\ UNCHANGED silence
    BY <1>1, <1>4, BackoffStep DEF HandshakeTimesOut, CloseTransport, TellNothing, IInv, Types
  <1> QED
    BY <1>2, <1>3, <1>4 DEF ConnectSettles

\* What the embedder does keeps the invariant: shutdowns, failed writes and the
\* planes' timers (host_fatal, close, send, set_retry_wakeup,
\* set_release_wakeup).
LEMMA EmbedderStep ==
    ASSUME IInv, HostFatal \/ Close \/ WriteFails \/ ArmTimer \/ TimerDue
    PROVE  IInv'
  <1>1. CASE HostFatal \/ Close
    BY <1>1, TerminalStep DEF HostFatal, Close
  <1>2. CASE WriteFails
    <2>1. started /\ ~pending /\ connecting' = FALSE /\ silence' \in Nat
      BY <1>2 DEF WriteFails, IInv, Types, Flags, Unstarted, Lifecycle, TransportOwned
    <2> QED
      BY <1>2, <2>1, DisconnectStep DEF WriteFails
  <1>3. CASE ArmTimer \/ TimerDue
    <2>1. /\ timers' \in [{"retry", "release"} -> BOOLEAN]
          /\ state = "Terminal" /\ ~timers["retry"] => ~timers'["retry"]
      BY <1>3 DEF ArmTimer, TimerDue, IInv, Types, Lifecycle, AttachedIsActive
    <2>2. UNCHANGED <<connVars, transport, inbox, wakeup, pending, started, connecting, history,
                      silence>>
      BY <1>3 DEF ArmTimer, TimerDue
    <2>3. Types' /\ Flags'
      BY <2>1, <2>2 DEF IInv, Types, Flags, connVars, history
    <2>4. Unstarted' /\ Window'
      BY <2>2 DEF IInv, Unstarted, Window, connVars
    <2>5. Lifecycle'
      BY <2>1, <2>2 DEF IInv, Lifecycle, TransportOwned, DeadlineKept, TerminalIsClean,
           AttachedIsActive, Open, connVars, history
    <2> QED
      BY <2>3, <2>4, <2>5 DEF IInv
  <1> QED
    BY <1>1, <1>2, <1>3

\* Arrivals and the passing of time keep the invariant: an arrival is unread, and
\* a tick moves what is left of the deadline to the silence.
LEMMA WorldStep ==
    ASSUME IInv, PeerActs \/ Clock
    PROVE  IInv'
  <1>1. CASE PeerActs
    <2>1. inbox' \in Seq(Frames \cup Closes) /\ inbox' # << >>
      BY <1>1, SMTT(30) DEF PeerActs, IInv, Types
    <2>2. silence' \in Nat
      BY <1>1, SMTT(30) DEF PeerActs, IInv, Types
    <2>3. transport /\ UNCHANGED <<connVars, transport, wakeup, timers, pending, started,
                                   connecting, history>>
      BY <1>1 DEF PeerActs
    <2>4. Types' /\ Flags'
      BY <2>1, <2>2, <2>3 DEF IInv, Types, Flags, connVars, history
    <2>5. Unstarted' /\ Window'
      BY <2>1, <2>3 DEF IInv, Unstarted, Window, connVars
    <2>6. Lifecycle'
      BY <2>3 DEF IInv, Lifecycle, TransportOwned, DeadlineKept, TerminalIsClean,
           AttachedIsActive, Open, connVars, history
    <2> QED
      BY <2>4, <2>5, <2>6 DEF IInv
  <1>2. CASE Clock
    <2>1. /\ UNCHANGED <<state, liveness, transport, inbox, timers, pending, started, connecting,
                         attached>>
          /\ deadline' = Before(deadline)
          /\ wakeup' = IF wakeup = << >> THEN << >> ELSE <<Before(wakeup[1])>>
          /\ silence' = IF transport THEN AtMost(silence + 1, liveness) ELSE 0
      BY <1>2 DEF Clock, history
    <2>2. Types' /\ Flags'
      BY <2>1, SMTT(30) DEF IInv, Types, Flags, AtMost
    <2>3. Unstarted'
      BY <2>1 DEF IInv, Unstarted
    <2>4. Window'
      <3>1. state = "Active" => transport
        BY DEF IInv, Lifecycle, TransportOwned, Open
      <3> QED
        BY <2>1, <3>1, SMTT(30) DEF IInv, Types, Window, Before, AtMost
    <2>5. DeadlineKept'
      BY <2>1 DEF IInv, Lifecycle, DeadlineKept
    <2>6. TransportOwned' /\ TerminalIsClean' /\ AttachedIsActive'
      BY <2>1 DEF IInv, Lifecycle, TransportOwned, TerminalIsClean, AttachedIsActive, Open
    <2> QED
      BY <2>2, <2>3, <2>4, <2>5, <2>6 DEF IInv, Lifecycle
  <1> QED
    BY <1>1, <1>2

\* Every step of the program keeps the invariant.
LEMMA NextIInv == IInv /\ [Next]_vars => IInv'
  <1> SUFFICES ASSUME IInv, [Next]_vars PROVE IInv'
    OBVIOUS
  <1>1. CASE UNCHANGED vars
    BY <1>1 DEF IInv, Types, Flags, Unstarted, Lifecycle, Window, TransportOwned, DeadlineKept,
         TerminalIsClean, AttachedIsActive, vars, connVars, driverVars, history
  <1> QED
    BY <1>1, ReadStep, TickStep, ConnectingStep, SettleStep, EmbedderStep, WorldStep
       DEF Next, Turns

-----------------------------------------------------------------------------
\* Through every interleaving of frames, closes, failed writes, deadlines,
\* connects and shutdowns: the driver holds a transport or a connect exactly when
\* the connection's state owns one, its timer is the connection's deadline, an
\* attachment that is over holds nothing, and the page believes itself attached
\* exactly while the connection is Active.
THEOREM LifecycleInStep ==
    Spec => [](TransportOwned /\ DeadlineKept /\ TerminalIsClean /\ AttachedIsActive)
  <1>1. IInv => TransportOwned /\ DeadlineKept /\ TerminalIsClean /\ AttachedIsActive
    BY DEF IInv, Lifecycle
  <1> QED
    BY <1>1, InitIInv, NextIInv, PTL DEF Spec

\* The driver's one transport slot follows the connection: a socket exists
\* exactly in the states that talk to a peer, no frame of a dropped socket is
\* left to be read, and exactly one connect is asked for or under way while the
\* connection is Connecting (execute's Connect and DropTransport).
THEOREM TransportIsOwned == Spec => []TransportOwned
  <1>1. IInv => TransportOwned
    BY DEF IInv, Lifecycle
  <1> QED
    BY <1>1, InitIInv, NextIInv, PTL DEF Spec

\* The wakeup the driver sleeps on is the deadline the connection last set, in
\* every state that has one: no handshake, liveness window or backoff can be left
\* without a timer (wait, next_deadline).
THEOREM DeadlineIsArmed == Spec => []DeadlineKept
  <1>1. IInv => DeadlineKept
    BY DEF IInv, Lifecycle
  <1> QED
    BY <1>1, InitIInv, NextIInv, PTL DEF Spec

\* A live attachment is reaped only after a whole liveness window in which its
\* peer sent nothing, with nothing left unread (wait's bias, arm_liveness).
THEOREM OnlySilentPeersAreReaped == Spec => ReapedOnlySilent
  <1> DEFINE A == state = "Active" /\ told' = "LivenessTimeout" /\ state' = "Backoff"
                     => silence >= liveness /\ inbox = << >>
  <1>1. IInv /\ [Next]_vars => [A]_vars
    <2> SUFFICES ASSUME IInv, Next, state = "Active", told' = "LivenessTimeout",
                        state' = "Backoff"
                 PROVE  silence >= liveness /\ inbox = << >>
      BY DEF vars, connVars
    <2>1. Tick
      BY DEF Next, Turns, ReadTransport, OnDisconnected, GoTerminal, OnTextNegotiating,
             OnTextAwaitingWelcome, OnTextActive, Start, RunConnect, ConnectSettles, HostFatal,
             Close, WriteFails, ArmTimer, TimerDue, PeerActs, Clock, Tell, connVars, IInv,
             Unstarted, Lifecycle, TransportOwned, Open
    <2>2. inbox = << >> /\ wakeup = <<0>> /\ started
      BY <2>1 DEF Tick, Due
    <2>3. deadline = 0
      BY <2>2 DEF IInv, Lifecycle, DeadlineKept
    <2> QED
      BY <2>2, <2>3 DEF IInv, Types, Window
  <1> QED
    BY <1>1, InitIInv, NextIInv, PTL DEF Spec, ReapedOnlySilent

=============================================================================
