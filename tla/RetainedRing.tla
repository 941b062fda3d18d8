---------------------------- MODULE RetainedRing ----------------------------
(***************************************************************************)
(* The arithmetic of one channel's retained window: brenn-queue's          *)
(* RetainedRing and the cursor rules that read it, as operators.  A ring's *)
(* entries are a sequence, oldest first, of records [seq, message]; what a *)
(* message carries is opaque here.                                         *)
(***************************************************************************)
EXTENDS Naturals, Sequences

Row(M) == [seq : Nat, message : M]

\* A run of entries whose seqs are consecutive and end at `last`.
Dense(s, last) == \A i \in 1..Len(s) : s[i].seq + Len(s) = last + i

\* Each entry is the message the log of every append holds at its seq.
Faithful(s, log) ==
    \A i \in 1..Len(s) : s[i].seq \in 1..Len(log) /\ s[i].message = log[s[i].seq]

\* Rust's saturating_sub on unsigned integers.
Sat(a, b) == IF a > b THEN a - b ELSE 0

Larger(a, b) == IF a > b THEN a ELSE b

\* The newest n of a sequence: RetainedRing::tail, and what trim keeps.
Newest(s, n) == IF Len(s) > n THEN SubSeq(s, Len(s) - n + 1, Len(s)) ELSE s

\* RetainedRing::trim: pop from the front until at most d entries remain.
Trim(s, d) == Newest(s, d)

\* RetainedRing::append over a run of messages, the first taking `first`.
\* One append retires at most the front entry and a depth of zero retains
\* nothing, so a run of appends trims to the same suffix as its last one.
Stamped(msgs, first) ==
    [i \in 1..Len(msgs) |-> [seq |-> first + i - 1, message |-> msgs[i]]]

AppendRun(s, msgs, first, d) == Trim(s \o Stamped(msgs, first), d)

\* The oldest retained seq, or the next to be assigned when nothing is held:
\* the boundary below which every message is gone.
Frontier(s, next) == IF s = << >> THEN next ELSE s[1].seq

\* Mutant of PrimedFrom: does not step behind the first entry it owes.
PrimedAtFirst(s, next, p) ==
    LET t == Newest(s, p) IN IF t = << >> THEN next ELSE t[1].seq

\* RetainedRing::primed_from: the position just behind the newest p entries.
PrimedFrom(s, next, p) ==
    LET t == Newest(s, p) IN IF t = << >> THEN next - 1 ELSE t[1].seq - 1

\* RetainedRing::offset_after and ::since: entries are a dense run, so the
\* entries strictly after seq q start at an offset computed from the front.
OffsetAfter(s, q) ==
    IF s = << >> THEN 0
    ELSE LET skip == Sat(q + 1, s[1].seq)
         IN  IF skip < Len(s) THEN skip ELSE Len(s)

Since(s, q) == SubSeq(s, OffsetAfter(s, q) + 1, Len(s))

\* new_boundary: how many of a window's entries are context.  Entries are
\* unseen at or above `owed`, and at most p of the newest unseen are new.
NewFrom(w, owed, p) ==
    LET unseen == Len(SelectSeq(w, LAMBDA e : e.seq >= owed))
    IN  Len(w) - (IF unseen < p THEN unseen ELSE p)

-----------------------------------------------------------------------------
(***************************************************************************)
(* Resume: what a consumer holding a cursor [epoch, seq] is owed.          *)
(***************************************************************************)

\* The three decisions of RetainedRing::replay that report a gap; the others are
\* "Fresh", "UpToDate" and "Exact".
IsGap(d) == d \in {"EpochChanged", "ResumeAhead", "BeyondRetained"}

\* RetainedRing::replay.  `resume` is << >> for a consumer with no cursor,
\* otherwise <<[epoch |-> e, seq |-> q]>>.
Replay(s, next, epoch, resume) ==
    IF resume = << >> THEN [decision |-> "Fresh", messages |-> s]
    ELSE LET q == resume[1].seq IN
      IF resume[1].epoch # epoch
        THEN [decision |-> "EpochChanged", messages |-> s]
      ELSE IF q > next - 1
        THEN [decision |-> "ResumeAhead", messages |-> s]
      ELSE IF q = next - 1
        THEN [decision |-> "UpToDate", messages |-> << >>]
      ELSE IF s # << >> /\ s[1].seq <= q + 1
        THEN [decision |-> "Exact", messages |-> Since(s, q)]
      ELSE [decision |-> "BeyondRetained", messages |-> s]

\* Mutant of ClampReplay: a truncated answer still claims to be exact.
ClampKeepsDecision(r, limit) == [r EXCEPT !.messages = Newest(@, limit)]

\* clamp_replay: the consumer's own window bound.  Truncating an exact answer
\* loses owed messages, so it becomes a gap.
ClampReplay(r, limit) ==
    IF Len(r.messages) <= limit THEN r
    ELSE [decision |-> IF r.decision = "Exact" THEN "BeyondRetained" ELSE r.decision,
          messages |-> Newest(r.messages, limit)]

\* gap_suffix's filter.  A window's seqs ascend, so what is above q is a suffix.
AboveOf(w, q) ==
    LET above == {i \in 1..Len(w) : w[i].seq > q}
    IN  IF above = {} THEN << >>
        ELSE SubSeq(w, CHOOSE i \in above : \A j \in above : i <= j, Len(w))

\* Mutant of GapSuffix: counts the first delivered row among the lost.
GapSuffixInclusive(w, q) ==
    LET above == AboveOf(w, q)
    IN  [rows |-> above, lost |-> IF above = << >> THEN 0 ELSE above[1].seq - q]

\* gap_suffix: the deliverable part of a gap window above the resume point,
\* and how many positions were lost before it.
GapSuffix(w, q) ==
    LET above == AboveOf(w, q)
    IN  [rows |-> above,
         lost |-> IF above = << >> THEN 0 ELSE above[1].seq - q - 1]
=============================================================================
