---------------------------- MODULE DurableBusInv ----------------------------
(***************************************************************************)
(* What every step of the bus keeps: the inductive invariant of the bus    *)
(* and what a step may do to the messages' rows.                           *)
(***************************************************************************)
EXTENDS DurableBus

\* A row with both a position and a release time is one an edit has torn.
BothIsTorn ==
    \A m \in DOMAIN rows : rows[m].release # None /\ rows[m].seq # None => m \in torn

\* RetainedIsFinal, of one step, and the channel with it.
StepIsFinal ==
    \A m \in DOMAIN rows :
        rows[m].seq # None /\ m \notin torn'
            => /\ m \in DOMAIN rows' /\ rows'[m].seq = rows[m].seq
               /\ rows'[m].release = rows[m].release /\ rows'[m].channel = rows[m].channel

\* No row is past the channel's last position.
PositionsBounded == \A m \in DOMAIN rows : rows[m].seq <= last_seq[rows[m].channel]

\* A row of the next state has the position it had, or one the channel had not
\* handed out.
StepAppends ==
    /\ torn \subseteq torn'
    /\ \A c \in Channels : last_seq[c] <= last_seq'[c]
    /\ \A m \in DOMAIN rows' :
          rows'[m].seq # None
              => \/ /\ m \in DOMAIN rows /\ rows'[m].seq = rows[m].seq
                    /\ rows'[m].channel = rows[m].channel
                 \/ last_seq[rows'[m].channel] < rows'[m].seq

\* The inductive invariant.
BusInv == BusTypeOK /\ BothIsTorn /\ PositionsBounded

\* What a step keeps of the messages' rows, and of the clock.
StepKeeps == StepIsFinal /\ StepAppends /\ now' >= now
=============================================================================
