------------------------------ MODULE CommitLane ------------------------------
(***************************************************************************)
(* The per-key mutation lane of src/commit/ordered.rs.                     *)
(*                                                                         *)
(* One KeyLane: its admission word (gate), the shard mutex that guards the *)
(* waiter queue, and claimants that acquire, hold, release and cancel.     *)
(* Every access to the admission word is a step of its own, because the    *)
(* lock-free claim and release_ready run while another claimant is inside  *)
(* the shard mutex.  The queue and the granted flags change only under the *)
(* mutex, so an access to them is merged with the step that locks it.      *)
(*                                                                         *)
(* A claimant is whatever carries one LaneAcquisition or LaneGuard at a    *)
(* time: a foreground mutation, a background commit, a replay.             *)
(***************************************************************************)
EXTENDS Integers, Sequences, FiniteSets, Functions

CONSTANTS
    Claimants,   \* carriers of an acquisition or a guard
    Waiters,     \* identities of heap-allocated Waiter nodes
    NoClaimant,  \* nobody: the unlocked shard mutex, an empty waker cell
    NoWaiter     \* no Waiter node

ASSUME NoClaimantAssumption == NoClaimant \notin Claimants
ASSUME NoWaiterAssumption == NoWaiter \notin Waiters

GateState == {"Free", "Held", "Queued"}

\* Where a claimant stands in the code of LaneAcquisition, LaneGuard, QueueRef.
Place == {"idle", "enqueue", "enqueue_cas", "enqueue_push", "register",
          "check", "parked", "withdraw", "withdraw_store", "owner",
          "release", "handoff", "handoff_store", "handoff_grant", "wake"}

VARIABLES
    gate,      \* Admission.state
    mutex,     \* holder of the shard mutex
    queue,     \* the lane's VecDeque<Arc<Waiter>> (empty when the map has none)
    pc,        \* Place of every claimant
    seen,      \* gate value an enqueueing claimant loaded
    waiter,    \* the Waiter node an acquisition owns
    next,      \* the Waiter node a releasing claimant popped
    granted,   \* Waiter.granted
    waker,     \* Waiter.waker: the task it would wake
    notified   \* external: the executor has scheduled the claimant's task

vars == <<gate, mutex, queue, pc, seen, waiter, next, granted, waker, notified>>

Init ==
    /\ gate = "Free"
    /\ mutex = NoClaimant
    /\ queue = << >>
    /\ pc = [p \in Claimants |-> "idle"]
    /\ seen = [p \in Claimants |-> "Free"]
    /\ waiter = [p \in Claimants |-> NoWaiter]
    /\ next = [p \in Claimants |-> NoWaiter]
    /\ granted = [w \in Waiters |-> FALSE]
    /\ waker = [w \in Waiters |-> NoClaimant]
    /\ notified = [p \in Claimants |-> FALSE]

Goto(p, place) == pc' = [pc EXCEPT ![p] = place]

\* VecDeque::remove: the others close up and keep their order.
RemoveAt(s, i) == SubSeq(s, 1, i - 1) \o SubSeq(s, i + 1, Len(s))

\* A node nobody holds an Arc to: the allocator may hand it out again.
Unreferenced(w) == \A p \in Claimants : waiter[p] # w /\ next[p] # w

\* An Arc to w is dropped: what the node holds goes with its last one.
DropArc(w, shared) ==
    /\ granted' = [granted EXCEPT ![w] = shared /\ @]
    /\ waker' = [waker EXCEPT ![w] = IF shared THEN @ ELSE NoClaimant]

PoppedBy(w) == {q \in Claimants : next[q] = w}

-------------------------------------------------------------------------------
(* Acquisition *)

\* Admission::claim succeeds, for KeyLane::try_lock and for the first poll of
\* an acquisition (LaneAcquisition::start).  A failed try_lock changes nothing.
Claim(p) ==
    /\ pc[p] = "idle"
    /\ gate = "Free"
    /\ gate' = "Held"
    /\ Goto(p, "owner")
    /\ UNCHANGED <<mutex, queue, seen, waiter, next, granted, waker, notified>>

\* LaneAcquisition::start whose claim fails allocates a Waiter and enqueues.  Which of
\* the free nodes the allocator hands out makes no difference.
StartEnqueues(p) ==
    /\ pc[p] = "idle"
    /\ gate # "Free"
    /\ \E w \in Waiters :
        /\ Unreferenced(w)
        /\ w = CHOOSE free \in Waiters : Unreferenced(free)
        /\ waiter' = [waiter EXCEPT ![p] = w]
        /\ granted' = [granted EXCEPT ![w] = FALSE]
        /\ waker' = [waker EXCEPT ![w] = NoClaimant]
    /\ Goto(p, "enqueue")
    /\ UNCHANGED <<gate, mutex, queue, seen, next, notified>>

\* QueueRef::enqueue locks the shard (or loops under it) and loads the gate.
EnqueueLoad(p) ==
    /\ pc[p] = "enqueue"
    /\ mutex \in {NoClaimant, p}
    /\ mutex' = p
    /\ seen' = [seen EXCEPT ![p] = gate]
    /\ Goto(p, "enqueue_cas")
    /\ UNCHANGED <<gate, queue, waiter, next, granted, waker, notified>>

\* The match arms of enqueue: claim a free gate, mark a held one, or push.
\* A failed compare-exchange is the `continue` arm.
EnqueueCas(p) ==
    /\ pc[p] = "enqueue_cas"
    /\ \/ /\ seen[p] = "Free" /\ gate = "Free"
          /\ gate' = "Held"
          /\ mutex' = NoClaimant
          /\ waiter' = [waiter EXCEPT ![p] = NoWaiter]
          /\ Goto(p, "owner")
       \/ /\ seen[p] = "Held" /\ gate = "Held"
          /\ gate' = "Queued"
          /\ Goto(p, "enqueue_push")
          /\ UNCHANGED <<mutex, waiter>>
       \/ /\ seen[p] = "Queued"
          /\ Goto(p, "enqueue_push")
          /\ UNCHANGED <<gate, mutex, waiter>>
       \/ /\ seen[p] # "Queued" /\ gate # seen[p]
          /\ Goto(p, "enqueue")
          /\ UNCHANGED <<gate, mutex, waiter>>
    /\ seen' = [seen EXCEPT ![p] = "Free"]
    /\ UNCHANGED <<queue, next, granted, waker, notified>>

\* push_back, unlock; LaneAcquisition is Queued and goes on to poll_waiter.
EnqueuePush(p) ==
    /\ pc[p] = "enqueue_push"
    /\ queue' = Append(queue, waiter[p])
    /\ mutex' = NoClaimant
    /\ Goto(p, "register")
    /\ UNCHANGED <<gate, seen, waiter, next, granted, waker, notified>>

\* poll_waiter stores the waker first ...
Register(p) ==
    /\ pc[p] = "register"
    /\ waker' = [waker EXCEPT ![waiter[p]] = p]
    /\ Goto(p, "check")
    /\ UNCHANGED <<gate, mutex, queue, seen, waiter, next, granted, notified>>

\* ... and then loads granted: complete() or Poll::Pending.
Check(p) ==
    /\ pc[p] = "check"
    /\ IF granted[waiter[p]]
       THEN /\ waiter' = [waiter EXCEPT ![p] = NoWaiter]
            /\ DropArc(waiter[p], PoppedBy(waiter[p]) # {})
            /\ Goto(p, "owner")
       ELSE Goto(p, "parked") /\ UNCHANGED <<waiter, granted, waker>>
    /\ UNCHANGED <<gate, mutex, queue, seen, next, notified>>

\* The executor polls a task it was told to wake.
Poll(p) ==
    /\ pc[p] = "parked"
    /\ notified[p]
    /\ notified' = [notified EXCEPT ![p] = FALSE]
    /\ Goto(p, "register")
    /\ UNCHANGED <<gate, mutex, queue, seen, waiter, next, granted, waker>>

\* A combinator around the acquisition polls it for another event's sake.
SpuriousPoll(p) ==
    /\ pc[p] = "parked"
    /\ ~notified[p]
    /\ Goto(p, "register")
    /\ UNCHANGED <<gate, mutex, queue, seen, waiter, next, granted, waker, notified>>

-------------------------------------------------------------------------------
(* Cancellation *)

\* The future of a queued acquisition is dropped.
Cancel(p) ==
    /\ pc[p] = "parked"
    /\ Goto(p, "withdraw")
    /\ UNCHANGED <<gate, mutex, queue, seen, waiter, next, granted, waker, notified>>

\* Mutant: a cancelled grant is forgotten instead of released.
WithdrawLeaksGrant(p) ==
    /\ pc[p] = "withdraw"
    /\ mutex = NoClaimant
    /\ waiter' = [waiter EXCEPT ![p] = NoWaiter]
    /\ \/ /\ granted[waiter[p]]
          /\ Goto(p, "idle")
          /\ UNCHANGED <<mutex, queue>>
       \/ /\ ~granted[waiter[p]]
          /\ \E i \in DOMAIN queue :
              /\ queue[i] = waiter[p]
              /\ queue' = RemoveAt(queue, i)
          /\ IF queue' = << >>
             THEN mutex' = p /\ Goto(p, "withdraw_store")
             ELSE Goto(p, "idle") /\ UNCHANGED mutex
    /\ UNCHANGED <<gate, seen, next, granted, waker, notified>>

\* QueueRef::withdraw.  A granted claim is released as a real owner; another
\* leaves the queue, and restores the gate if it was the last one.
Withdraw(p) ==
    /\ pc[p] = "withdraw"
    /\ mutex = NoClaimant
    /\ waiter' = [waiter EXCEPT ![p] = NoWaiter]
    /\ DropArc(waiter[p], PoppedBy(waiter[p]) # {})
    /\ \/ /\ granted[waiter[p]]
          /\ Goto(p, "release")
          /\ UNCHANGED <<mutex, queue>>
       \/ /\ ~granted[waiter[p]]
          /\ \E i \in DOMAIN queue :
              /\ queue[i] = waiter[p]
              /\ queue' = RemoveAt(queue, i)
          /\ IF queue' = << >>
             THEN mutex' = p /\ Goto(p, "withdraw_store")
             ELSE Goto(p, "idle") /\ UNCHANGED mutex
    /\ UNCHANGED <<gate, seen, next, notified>>

WithdrawStore(p) ==
    /\ pc[p] = "withdraw_store"
    /\ gate' = "Held"
    /\ mutex' = NoClaimant
    /\ Goto(p, "idle")
    /\ UNCHANGED <<queue, seen, waiter, next, granted, waker, notified>>

-------------------------------------------------------------------------------
(* Release *)

\* Mutant: the guard is leaked and its lane never released.
DropGuardLeaked(p) == FALSE

\* LaneGuard::drop.
DropGuard(p) ==
    /\ pc[p] = "owner"
    /\ Goto(p, "release")
    /\ UNCHANGED <<gate, mutex, queue, seen, waiter, next, granted, waker, notified>>

\* QueueRef::release tries release_ready before it takes the shard mutex.
Release(p) ==
    /\ pc[p] = "release"
    /\ IF gate = "Held"
       THEN gate' = "Free" /\ Goto(p, "idle")
       ELSE Goto(p, "handoff") /\ UNCHANGED gate
    /\ UNCHANGED <<mutex, queue, seen, waiter, next, granted, waker, notified>>

\* Mutant: the newest waiter is popped.
HandoffPopsBack(p) ==
    /\ pc[p] = "handoff"
    /\ mutex = NoClaimant
    /\ mutex' = p
    /\ IF queue = << >>
       THEN UNCHANGED <<queue, next>>
       ELSE /\ next' = [next EXCEPT ![p] = queue[Len(queue)]]
            /\ queue' = SubSeq(queue, 1, Len(queue) - 1)
    /\ Goto(p, "handoff_store")
    /\ UNCHANGED <<gate, seen, waiter, granted, waker, notified>>

\* QueueRef::handoff locks the shard and pops the oldest waiter, if any is left.
HandoffPop(p) ==
    /\ pc[p] = "handoff"
    /\ mutex = NoClaimant
    /\ mutex' = p
    /\ IF queue = << >>
       THEN UNCHANGED <<queue, next>>
       ELSE /\ next' = [next EXCEPT ![p] = Head(queue)]
            /\ queue' = Tail(queue)
    /\ Goto(p, "handoff_store")
    /\ UNCHANGED <<gate, seen, waiter, granted, waker, notified>>

HandoffStore(p) ==
    /\ pc[p] = "handoff_store"
    /\ gate' = IF next[p] = NoWaiter THEN "Free"
               ELSE IF queue # << >> THEN "Queued" ELSE "Held"
    /\ IF next[p] = NoWaiter
       THEN mutex' = NoClaimant /\ Goto(p, "idle")
       ELSE Goto(p, "handoff_grant") /\ UNCHANGED mutex
    /\ UNCHANGED <<queue, seen, waiter, next, granted, waker, notified>>

HandoffGrant(p) ==
    /\ pc[p] = "handoff_grant"
    /\ granted' = [granted EXCEPT ![next[p]] = TRUE]
    /\ mutex' = NoClaimant
    /\ Goto(p, "wake")
    /\ UNCHANGED <<gate, queue, seen, waiter, next, waker, notified>>

\* Waiter::wake takes the registered waker, after the shard is unlocked.
Wake(p) ==
    /\ pc[p] = "wake"
    /\ LET w == next[p] IN
        /\ notified' = IF waker[w] = NoClaimant THEN notified
                       ELSE [notified EXCEPT ![waker[w]] = TRUE]
        /\ waker' = [waker EXCEPT ![w] = NoClaimant]
        /\ granted' = [granted EXCEPT ![w] = @ /\ \E q \in Claimants : waiter[q] = w]
    /\ next' = [next EXCEPT ![p] = NoWaiter]
    /\ Goto(p, "idle")
    /\ UNCHANGED <<gate, mutex, queue, seen, waiter>>

-------------------------------------------------------------------------------
Step(p) ==
    \/ Claim(p) \/ StartEnqueues(p)
    \/ EnqueueLoad(p) \/ EnqueueCas(p) \/ EnqueuePush(p)
    \/ Register(p) \/ Check(p) \/ Poll(p) \/ SpuriousPoll(p)
    \/ Cancel(p) \/ Withdraw(p) \/ WithdrawStore(p)
    \/ DropGuard(p) \/ Release(p)
    \/ HandoffPop(p) \/ HandoffStore(p) \/ HandoffGrant(p) \/ Wake(p)

Next == \E p \in Claimants : Step(p)

Spec == Init /\ [][Next]_vars

\* What runs to completion once it has begun: a poll is synchronous code, a
\* guard is dropped when its pipeline ends, a woken task is polled.  Nothing
\* obliges a claimant to start, to cancel, or an executor to poll spuriously.
Progress(p) ==
    \/ EnqueueLoad(p) \/ EnqueueCas(p) \/ EnqueuePush(p)
    \/ Register(p) \/ Check(p) \/ Poll(p)
    \/ Withdraw(p) \/ WithdrawStore(p)
    \/ DropGuard(p) \/ Release(p)
    \/ HandoffPop(p) \/ HandoffStore(p) \/ HandoffGrant(p) \/ Wake(p)

\* Every claimant runs on.  The shard mutex is a parking_lot mutex: a thread that
\* keeps asking for it gets it (eventual fairness), hence SF; a step that needs no
\* mutex stays enabled until it is taken.
FairSpec == Spec /\ \A p \in Claimants : SF_vars(Progress(p))

-------------------------------------------------------------------------------
(* Properties *)

TypeOK ==
    /\ gate \in GateState
    /\ mutex \in Claimants \cup {NoClaimant}
    /\ queue \in Seq(Waiters)
    /\ pc \in [Claimants -> Place]
    /\ seen \in [Claimants -> GateState]
    /\ waiter \in [Claimants -> Waiters \cup {NoWaiter}]
    /\ next \in [Claimants -> Waiters \cup {NoWaiter}]
    /\ granted \in [Waiters -> BOOLEAN]
    /\ waker \in [Waiters -> Claimants \cup {NoClaimant}]
    /\ notified \in [Claimants -> BOOLEAN]

\* An acquisition whose node is in the queue or has left it granted.
Suspended == {"register", "check", "parked", "withdraw"}

Releasing == {"release", "handoff", "handoff_store", "handoff_grant"}

\* The lane is reserved for p: it holds the guard, has not finished giving it
\* away, or was granted it and has not been polled since.
Reserves(p) ==
    \/ pc[p] \in {"owner"} \cup Releasing
    \/ pc[p] \in Suspended /\ granted[waiter[p]]

\* At most one claimant owns a key's lane, counting a grant that was not
\* polled yet ("Reserve ownership before waking; a new ready claim cannot
\* steal it", ordered.rs:168), whatever claims, releases and cancellations
\* interleave with the admission word.
MutualExclusion ==
    \A p, q \in Claimants : Reserves(p) /\ Reserves(q) => p = q

\* The admission word is Free exactly when nobody owns the lane: a release can
\* neither leak the reservation nor free a lane that was handed on.
FreeIffUnreserved ==
    gate = "Free" <=> \A p \in Claimants : ~Reserves(p)

\* The two unreachable! arms of withdraw (ordered.rs:180, 183): a suspended
\* claim that is not granted is in the queue whenever the shard mutex is free.
WaitingClaimIsQueued ==
    \A p \in Claimants :
        /\ pc[p] \in Suspended
        /\ ~granted[waiter[p]]
        /\ mutex = NoClaimant
        => waiter[p] \in Range(queue)

\* Outside the shard mutex the word is Queued exactly when somebody waits, so
\* that release_ready cannot skip a waiter and the last withdrawal restores
\* the fast release.
QueuedIffWaiting ==
    mutex = NoClaimant => (gate = "Queued" <=> queue # << >>)

\* Register-then-check against grant-then-wake: a parked claim that owns the
\* lane is scheduled, or its wake is still on the way with a waker to take.
NoLostWakeup ==
    \A p \in Claimants :
        /\ pc[p] = "parked"
        /\ granted[waiter[p]]
        => \/ notified[p]
           \/ /\ waker[waiter[p]] = p
              /\ \E q \in Claimants : pc[q] = "wake" /\ next[q] = waiter[p]

\* A claim that has reached the queue, and is not cancelled, eventually owns
\* the lane: claims, releases and cancellations of others cannot starve it and
\* no wake is lost.  (Before the push, the compare-exchange loop of enqueue may
\* lose to ready claims any number of times.)
QueuedClaimAcquires ==
    \A p \in Claimants :
        pc[p] = "enqueue_push" ~> pc[p] \in {"owner", "withdraw"}

-------------------------------------------------------------------------------
(* The inductive invariant behind the safety properties, in named parts. *)

Enqueueing == {"enqueue", "enqueue_cas", "enqueue_push"}

\* q has popped w and has not granted it yet.
Popped(q, w) == pc[q] \in {"handoff_store", "handoff_grant"} /\ next[q] = w

\* Who is inside the shard mutex.
MutexInv ==
    \A p \in Claimants :
        /\ pc[p] \in {"enqueue_cas", "enqueue_push", "withdraw_store",
                      "handoff_store", "handoff_grant"} => mutex = p
        /\ mutex = p => pc[p] \in Enqueueing \cup {"withdraw_store",
                                    "handoff_store", "handoff_grant"}

\* Who owns a node, and that no two acquisitions share one.
WaiterInv ==
    /\ \A p \in Claimants :
        waiter[p] # NoWaiter <=> pc[p] \in Enqueueing \cup Suspended
    /\ \A p, q \in Claimants : waiter[p] # NoWaiter /\ waiter[p] = waiter[q] => p = q
    /\ \A p \in Claimants : pc[p] \in Enqueueing => ~granted[waiter[p]]

\* A popped node belongs to a suspended claim, left the queue, is granted exactly
\* from the grant on, and was popped by one claimant.
NextInv ==
    \A q \in Claimants :
        /\ \A r \in Claimants : next[q] # NoWaiter /\ next[q] = next[r] => q = r
        /\ next[q] # NoWaiter => pc[q] \in {"handoff_store", "handoff_grant", "wake"}
        /\ pc[q] \in {"handoff_grant", "wake"} => next[q] # NoWaiter
        /\ pc[q] = "wake" => granted[next[q]]
        /\ pc[q] \in {"handoff_store", "handoff_grant"} /\ next[q] # NoWaiter =>
            /\ ~granted[next[q]]
            /\ next[q] \notin Range(queue)
            /\ \E p \in Claimants : pc[p] \in Suspended /\ waiter[p] = next[q]

\* The queue holds the nodes of suspended claims, each once, none granted.
QueueInv ==
    /\ IsInjective(queue)
    /\ \A w \in Range(queue) :
        /\ ~granted[w]
        /\ \E p \in Claimants : pc[p] \in Suspended /\ waiter[p] = w

\* A suspended claim waits in the queue, was popped, or was granted.
SuspendedInv ==
    \A p \in Claimants :
        pc[p] \in Suspended /\ ~granted[waiter[p]]
            => waiter[p] \in Range(queue) \/ \E q \in Claimants : Popped(q, waiter[p])

\* What the admission word says while the shard mutex is held.
GateInv ==
    /\ queue # << >> => gate = "Queued"
    /\ mutex = NoClaimant /\ gate = "Queued" => queue # << >>
    /\ \A p \in Claimants :
        /\ pc[p] \in {"enqueue_push", "withdraw_store"} => gate = "Queued"
        /\ pc[p] = "enqueue_cas" /\ seen[p] = "Queued" => gate = "Queued"
        /\ pc[p] = "withdraw_store" => queue = << >>
        /\ pc[p] = "handoff_store" /\ next[p] # NoWaiter => gate = "Queued"
        /\ pc[p] = "handoff_store" /\ next[p] = NoWaiter => queue = << >>
        /\ pc[p] = "handoff_grant" => gate # "Free" /\ (gate = "Queued" => queue # << >>)

\* Who will wake a claim that is about to park or has parked.
WakeInv ==
    \A p \in Claimants :
        pc[p] \in {"check", "parked"} /\ ~granted[waiter[p]] => waker[waiter[p]] = p

\* The gate word, the queue, the grants and the wakers agree at every moment of every
\* claim, hand-off and cancellation (KeyLane, QueueRef, Waiter).  It is inductive, and
\* implies that one claimant has the lane, that no reservation leaks and that no
\* grant goes unnoticed.
LaneInv ==
    /\ TypeOK
    /\ MutexInv
    /\ WaiterInv
    /\ NextInv
    /\ QueueInv
    /\ SuspendedInv
    /\ GateInv
    /\ WakeInv
    /\ MutualExclusion
    /\ FreeIffUnreserved
    /\ NoLostWakeup

===============================================================================
