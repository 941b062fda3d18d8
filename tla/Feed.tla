-------------------------------- MODULE Feed --------------------------------
(***************************************************************************)
(* What a channel promises its readers, whatever retains its messages.     *)
(* Messages are numbered from 1 as they are published.  A reader opens at  *)
(* some number; every hand-over takes it from there to some later number,  *)
(* gives it the messages of an unbroken run that ends there, and tells it  *)
(* how many came before the run and are lost to it.  No message is both,   *)
(* neither, or handed over twice.                                          *)
(***************************************************************************)
EXTENDS Integers

CONSTANT Readers

VARIABLES
    published,  \* how many messages there have been
    open,       \* the readers with a position
    at,         \* the number of the next message a reader has not passed
    got,        \* the messages a reader was handed since it opened
    lost        \* how many it was told it lost since it opened

feedvars == <<published, open, at, got, lost>>

Init ==
    /\ published = 0 /\ open = {}
    /\ at = [r \in Readers |-> 1]
    /\ got = [r \in Readers |-> {}]
    /\ lost = [r \in Readers |-> 0]

Publish ==
    /\ published' \in Nat /\ published' > published
    /\ UNCHANGED <<open, at, got, lost>>

\* A reader opens at, or behind, the end of the feed.
Open(r) ==
    /\ r \notin open /\ open' = open \cup {r}
    /\ \E n \in 1..published + 1 : at' = [at EXCEPT ![r] = n]
    /\ got' = [got EXCEPT ![r] = {}]
    /\ lost' = [lost EXCEPT ![r] = 0]
    /\ UNCHANGED published

Close(r) ==
    /\ r \in open /\ open' = open \ {r}
    /\ UNCHANGED <<published, at, got, lost>>

\* The run from..through goes to the reader; at..from - 1 is lost to it.
Hand(r, from, through) ==
    /\ r \in open
    /\ at[r] <= from /\ from <= through /\ through <= published
    /\ at' = [at EXCEPT ![r] = through + 1]
    /\ got' = [got EXCEPT ![r] = @ \cup from..through]
    /\ lost' = [lost EXCEPT ![r] = @ + (from - at[r])]
    /\ UNCHANGED <<published, open>>

Next ==
    \/ Publish
    \/ \E r \in Readers :
          \/ Open(r) \/ Close(r)
          \/ \E from, through \in 1..published : Hand(r, from, through)

Spec == Init /\ [][Next]_feedvars
=============================================================================
