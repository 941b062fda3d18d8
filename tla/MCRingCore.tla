----------------------------- MODULE MCRingCore -----------------------------
(***************************************************************************)
(* Model checking RingCore: the server's host and the attach client's      *)
(* host, and, on every ring they reach, the answers a resuming consumer    *)
(* would be given.                                                         *)
(***************************************************************************)
EXTENDS RingCore, TLC

Symmetry == Permutations(Subscribers) \cup Permutations(Senders)

-----------------------------------------------------------------------------
\* Cursors a consumer may present: of the live numbering (epoch 1), beyond its
\* end included, or of another; and the windows it may be clamped to.
Resumes == {<< >>, <<[epoch |-> 2, seq |-> 1]>>}
              \cup {<<[epoch |-> 1, seq |-> q]>> : q \in 0..next_seq + 1}

Limits == 0..Len(entries) + 1

Answer(resume, limit) == ClampReplay(Replay(entries, next_seq, 1, resume), limit)

Seqs(s) == {s[i].seq : i \in 1..Len(s)}

\* What the consumer is owed: everything after its cursor, when the cursor is
\* one this ring could have handed out.
Trusted(resume) == resume # << >> /\ resume[1].epoch = 1 /\ resume[1].seq < next_seq

Owed(resume) == (resume[1].seq + 1)..(next_seq - 1)

\* replay then clamp: an answer claims continuity exactly when the consumer's
\* cursor is trusted and every message it is owed is in the answer; otherwise
\* it says so with a gap.  No answer exceeds the consumer's limit, repeats a
\* message the consumer has under a continuous answer, or skips inside itself.
ContinuityClaimIsExact ==
    \A resume \in Resumes, limit \in Limits :
        LET a == Answer(resume, limit)
            complete == Trusted(resume) /\ Seqs(a.messages) = Owed(resume)
        IN  /\ Len(a.messages) <= limit
            /\ a.decision = "Fresh" <=> resume = << >>
            /\ resume # << >> => (IsGap(a.decision) <=> ~complete)
            /\ \A i \in 1..Len(a.messages) :
                  a.messages[i].seq = next_seq - 1 - Len(a.messages) + i

\* gap_suffix on the live drain's answer: nothing already sent is repeated,
\* and what is neither delivered nor lost is nothing: the loss rides with the
\* first row, or, when no row remains, is left for a later drain.
GapSuffixAccounts ==
    \A resume \in Resumes, limit \in Limits :
        LET a == Answer(resume, limit)
            g == GapSuffix(a.messages, resume[1].seq)
        IN  Trusted(resume) /\ IsGap(a.decision) =>
                /\ g.rows = SelectSeq(a.messages, LAMBDA e : e.seq > resume[1].seq)
                /\ Seqs(g.rows) \subseteq Owed(resume)
                /\ g.rows # << >> =>
                      Len(g.rows) + g.lost = next_seq - 1 - resume[1].seq
=============================================================================
