-------------------------- MODULE CommitLaneRefinement --------------------------
(***************************************************************************)
(* The lane of CommitLane is a first-in-first-out lock: its word, queue    *)
(* and claimants mapped to the holder and the line of FifoLock.            *)
(***************************************************************************)
EXTENDS CommitLane

OwnerOf(w) == CHOOSE p \in Claimants : waiter[p] = w

Holder ==
    IF \E p \in Claimants : Reserves(p)
    THEN CHOOSE p \in Claimants : Reserves(p)
    ELSE NoClaimant

\* Who has popped a waiter and not granted it yet.
Popping ==
    {p \in Claimants : pc[p] \in {"handoff_store", "handoff_grant"}
                         /\ next[p] # NoWaiter}

\* Popped but not yet granted is still the head of the line.
Nodes ==
    IF Popping = {} THEN queue
    ELSE << next[CHOOSE p \in Popping : TRUE] >> \o queue

Line == [i \in DOMAIN Nodes |-> OwnerOf(Nodes[i])]

Abstract == INSTANCE FifoLock WITH holder <- Holder, line <- Line

\* ordered.rs implements FifoLock: no claim overtakes a waiting one, a release
\* passes to the oldest waiter, a cancelled waiter reorders nobody.
RefinesFifoLock == Abstract!Spec

===============================================================================
