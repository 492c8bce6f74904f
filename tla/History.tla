------------------------------ MODULE History -------------------------------
(***************************************************************************)
(* state_history, the deque of (frame number, screen) that each end keeps   *)
(* so that frames can be sent as differences.  Numbers only grow along the  *)
(* deque, so it is a function from frame numbers to screens: the back is    *)
(* the largest number, popping the front removes the smallest.              *)
(***************************************************************************)
EXTENDS Integers, FiniteSets, Functions

CONSTANTS
    HistoryCap,     \* 200: screens kept for reference, at both ends
    PruneLen        \* 100: the server drops acknowledged screens above this

ASSUME HistoryAssumption == HistoryCap \in Nat /\ PruneLen \in Nat

EmptyHistory == [s \in {} |-> TRUE]

NewerOrSame(hist, s) == {t \in DOMAIN hist : t >= s}

With(hist, seq, grid) ==
    [s \in DOMAIN hist \cup {seq} |-> IF s = seq THEN grid ELSE hist[s]]

\* The bound is forgotten.
PushBounded_Unbounded(hist, seq, grid) == With(hist, seq, grid)

\* Push at the back, then pop the front if the deque is over its bound.
PushBounded(hist, seq, grid) ==
    LET pushed == With(hist, seq, grid)
    IN  Restrict(pushed, {s \in DOMAIN pushed :
            Cardinality(NewerOrSame(pushed, s)) <= HistoryCap})

\* Pop the front while it is older than the acknowledgement and the deque is
\* longer than PruneLen.
PruneAcked(hist, ack) ==
    Restrict(hist, {s \in DOMAIN hist :
        s >= ack \/ Cardinality(NewerOrSame(hist, s)) <= PruneLen})

\* The last entry shows this very screen.
IdenticalToLast(hist, grid) ==
    \E s \in DOMAIN hist : (\A t \in DOMAIN hist : t <= s) /\ hist[s] = grid

=============================================================================
