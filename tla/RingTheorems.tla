---------------------------- MODULE RingTheorems ----------------------------
(***************************************************************************)
(* The channel core's theorems, on both hosts.                             *)
(***************************************************************************)
EXTENDS RingCoreProofs, FiniteSetTheorems

USE ZenonT(30), SMTT(30)

\* The library's facts on finite sets, as the invariant carries them.
LEMMA SizesHold == Sizes
<1>1. IsFiniteSet({}) /\ Cardinality({}) = 0 BY FS_EmptySet
<1>2. \A a, b \in Int : /\ IsFiniteSet(a..b)
                        /\ Cardinality(a..b) = IF a > b THEN 0 ELSE b - a + 1
    BY FS_Interval
<1>3. \A S : IsFiniteSet(S) => Cardinality(S) \in Nat BY FS_CardinalityType
<1>4. ASSUME NEW S, NEW T, IsFiniteSet(S), T \subseteq S
      PROVE  IsFiniteSet(T) /\ Cardinality(T) <= Cardinality(S)
    BY <1>4, FS_Subset
<1>5. ASSUME NEW S, NEW T, IsFiniteSet(S), IsFiniteSet(T), S \cap T = {}
      PROVE  IsFiniteSet(S \cup T) /\ Cardinality(S \cup T) = Cardinality(S) + Cardinality(T)
    <2>1. /\ IsFiniteSet(S \cup T)
          /\ Cardinality(S \cup T) = Cardinality(S) + Cardinality(T) - Cardinality(S \cap T)
        BY <1>5, FS_Union
    <2>2. Cardinality(S \cap T) = 0 BY <1>1, <1>5
    <2>3. Cardinality(S) \in Nat /\ Cardinality(T) \in Nat BY <1>3, <1>5
    <2> QED BY <2>1, <2>2, <2>3
<1> QED BY <1>1, <1>2, <1>3, <1>4, <1>5 DEF Sizes

-----------------------------------------------------------------------------
(* The invariants *)

\* The split host's invariant holds in every state, windows read in one lock hold
\* and passed in another included.
LEMMA SplitHostIsSound == SplitSpec => []IndInv
<1>1. Init => IndInv BY SizesHold, InitEstablishes
<1>2. IndInv /\ [SplitNext]_vars => IndInv' BY SplitKeepsIndInv
<1> QED BY <1>1, <1>2, PTL DEF SplitSpec

\* So does the atomic host's, with losses reported exactly once.
LEMMA AtomicHostIsSound == AtomicSpec => [](Core /\ EachLossReportedOnce)
<1>1. Init => Core /\ EachLossReportedOnce BY SizesHold, InitEstablishes DEF IndInv
<1>2. Core /\ EachLossReportedOnce /\ [AtomicNext]_vars => (Core /\ EachLossReportedOnce)'
    BY AtomicKeepsBooks
<1> QED BY <1>1, <1>2, PTL DEF AtomicSpec

\* On the server's host, where an advance may come any number of appends,
\* trims and detaches after the window it passes: the ring stays the dense
\* suffix of what was published, every passed message is served or counted
\* exactly once, and no loss is left unreported.
THEOREM SplitHostAccounts ==
    SplitSpec => [](TypeOK /\ RetainedIsDenseSuffix /\ ServedOrDroppedOnce /\ NoLossUnreported)
<1>1. IndInv => TypeOK /\ RetainedIsDenseSuffix /\ ServedOrDroppedOnce /\ NoLossUnreported
    BY DEF IndInv, Core, RingInv
<1> QED BY <1>1, SplitHostIsSound, PTL

\* On the same host no position ever has a push depth of zero or runs ahead of
\* the channel, nor does the floor a detach gives up: the assertions of
\* SubscriberCursor::advance and RingCore::attach_from hold.
THEOREM SplitHostPositionsAreSound == SplitSpec => []PositionsAreSound
<1>1. IndInv => PositionsAreSound BY DEF IndInv, Core
<1> QED BY <1>1, SplitHostIsSound, PTL

\* On the attach client's host, where one call serves a window and advances
\* over it, the charges equal the losses: each lost message is reported
\* exactly once, by the eviction that retired it or the advance that passed it.
THEOREM AtomicHostReportsOnce ==
    AtomicSpec => [](ServedOrDroppedOnce /\ EachLossReportedOnce)
<1>1. Core => ServedOrDroppedOnce BY DEF Core
<1> QED BY <1>1, AtomicHostIsSound, PTL

-----------------------------------------------------------------------------
(* The core is a feed *)

\* For any subscribers, depths and bounds, the channel core on the server's host
\* is a feed: whatever is published, trimmed, retuned or detached between a
\* window and the advance over it, each reader is handed unbroken runs, in
\* order, once, and is told exactly what it lost.
THEOREM SplitHostIsAFeed == SplitSpec => ImplementsFeed
<1>1. IndInv /\ [SplitNext]_vars => FeedStep BY SplitFeeds DEF IndInv
<1> QED BY <1>1, SplitHostIsSound, InitIsFeed, PTL
    DEF SplitSpec, ImplementsFeed, F!Spec, FeedStep

\* The same on the attach client's host, where one call serves and advances.
THEOREM AtomicHostIsAFeed == AtomicSpec => ImplementsFeed
<1>1. Core /\ [AtomicNext]_vars => FeedStep BY AtomicFeeds
<1> QED BY <1>1, AtomicHostIsSound, InitIsFeed, PTL
    DEF AtomicSpec, ImplementsFeed, F!Spec, FeedStep
=============================================================================
