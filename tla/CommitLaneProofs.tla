--------------------------- MODULE CommitLaneProofs ---------------------------
(***************************************************************************)
(* Proofs about the mutation lane of CommitLane, for any set of claimants  *)
(* and any supply of waiter nodes: its inductive invariant, and that it    *)
(* implements the first-in-first-out lock of FifoLock.                     *)
(***************************************************************************)
EXTENDS CommitLaneRefinement, SequenceTheorems, TLAPS

-------------------------------------------------------------------------------
(* Sequences *)

\* VecDeque::remove(i): one element shorter, the others keep their order.
LEMMA RemoveAtFacts ==
    ASSUME NEW S, NEW s \in Seq(S), NEW i \in DOMAIN s
    PROVE  /\ RemoveAt(s, i) \in Seq(S)
           /\ Len(RemoveAt(s, i)) = Len(s) - 1
           /\ \A j \in 1 .. (Len(s) - 1) :
                RemoveAt(s, i)[j] = IF j < i THEN s[j] ELSE s[j + 1]
  <1> DEFINE a == SubSeq(s, 1, i - 1)
             b == SubSeq(s, i + 1, Len(s))
  <1>0. i \in 1 .. Len(s) /\ Len(s) \in Nat /\ i \in Int
    OBVIOUS
  <1>1. a \in Seq(S) /\ Len(a) = i - 1 /\ \A j \in 1 .. (i - 1) : a[j] = s[j]
    BY <1>0
  <1>2. b \in Seq(S) /\ Len(b) = Len(s) - i
        /\ \A j \in 1 .. (Len(s) - i) : b[j] = s[j + i]
    BY <1>0
  <1>3. RemoveAt(s, i) = a \o b
    BY Zenon DEF RemoveAt
  <1> HIDE DEF a, b
  <1>4. /\ a \o b \in Seq(S)
        /\ Len(a \o b) = Len(s) - 1
        /\ \A j \in 1 .. (Len(s) - 1) :
             (a \o b)[j] = IF j <= Len(a) THEN a[j] ELSE b[j - Len(a)]
    <2>1. Len(a) + Len(b) = Len(s) - 1
      BY <1>0, <1>1, <1>2
    <2>2. a \in Seq(S) /\ b \in Seq(S)
      BY <1>1, <1>2, Zenon
    <2>3. /\ a \o b \in Seq(S)
          /\ Len(a \o b) = Len(a) + Len(b)
          /\ \A j \in 1 .. Len(a) + Len(b) :
               (a \o b)[j] = IF j <= Len(a) THEN a[j] ELSE b[j - Len(a)]
      BY <2>2, ConcatProperties, Zenon
    <2> QED
      BY <2>1, <2>3, Zenon
  <1>5. ASSUME NEW j \in 1 .. (Len(s) - 1)
        PROVE  (a \o b)[j] = IF j < i THEN s[j] ELSE s[j + 1]
    <2>1. CASE j < i
      <3>1. j \in 1 .. (i - 1) /\ j <= Len(a)
        BY <1>0, <1>1, <2>1
      <3> QED
        BY <1>1, <1>4, <2>1, <3>1, Zenon
    <2>2. CASE ~(j < i)
      <3>1. /\ j - Len(a) \in 1 .. (Len(s) - i)
            /\ (j - Len(a)) + i = j + 1
            /\ ~(j <= Len(a))
        BY <1>0, <1>1, <2>2
      <3> QED
        BY <1>2, <1>4, <2>2, <3>1, Zenon
    <2> QED
      BY <2>1, <2>2, ZenonT(60)
  <1> QED
    BY <1>3, <1>4, <1>5, Zenon

LEMMA EmptyFacts ==
    ASSUME NEW S, NEW s \in Seq(S)
    PROVE  s = << >> <=> Range(s) = {}
  <1>1. s = << >> <=> DOMAIN s = {}
    OBVIOUS
  <1> QED
    BY <1>1, Zenon DEF Range

LEMMA PushFacts ==
    ASSUME NEW S, NEW s \in Seq(S), NEW w \in S
    PROVE  /\ Append(s, w) \in Seq(S)
           /\ Append(s, w) # << >>
           /\ Range(Append(s, w)) = Range(s) \cup {w}
           /\ IsInjective(s) /\ w \notin Range(s) => IsInjective(Append(s, w))
  <1> DEFINE t == Append(s, w)
  <1>1. /\ t \in Seq(S) /\ t # << >> /\ Len(t) = Len(s) + 1 /\ Len(s) \in Nat
        /\ DOMAIN s = 1 .. Len(s) /\ DOMAIN t = 1 .. (Len(s) + 1)
        /\ \A i \in 1 .. Len(s) : t[i] = s[i]
        /\ t[Len(s) + 1] = w
    OBVIOUS
  <1> HIDE DEF t
  <1>2. Range(t) = Range(s) \cup {w}
    BY <1>1 DEF Range
  <1>3. IsInjective(s) /\ w \notin Range(s) => IsInjective(t)
    BY <1>1 DEF Range, IsInjective
  <1> QED
    BY <1>1, <1>2, <1>3, Zenon DEF t

LEMMA PopFacts ==
    ASSUME NEW S, NEW s \in Seq(S), s # << >>, IsInjective(s)
    PROVE  /\ Head(s) \in S
           /\ Head(s) \in Range(s)
           /\ Tail(s) \in Seq(S)
           /\ Range(Tail(s)) = Range(s) \ {Head(s)}
           /\ IsInjective(Tail(s))
  <1> DEFINE t == Tail(s)
             h == Head(s)
  <1>1. /\ t \in Seq(S) /\ Len(s) \in Nat /\ Len(s) > 0 /\ Len(t) = Len(s) - 1
        /\ DOMAIN s = 1 .. Len(s) /\ DOMAIN t = 1 .. (Len(s) - 1)
        /\ \A i \in 1 .. (Len(s) - 1) : t[i] = s[i + 1]
        /\ h = s[1] /\ h \in S
    OBVIOUS
  <1> HIDE DEF t, h
  <1>2. h \in Range(s)
    BY <1>1 DEF Range
  <1>3. ASSUME NEW x
        PROVE  x \in Range(t) <=> x \in Range(s) /\ x # h
    <2>1. ASSUME NEW i \in DOMAIN t, x = t[i]
          PROVE  x \in Range(s) /\ x # h
      BY <1>1, <2>1, SMTT(60) DEF Range, IsInjective
    <2>2. ASSUME NEW i \in DOMAIN s, x = s[i], x # h
          PROVE  x \in Range(t)
      <3>1. i - 1 \in DOMAIN t /\ t[i - 1] = x
        BY <1>1, <2>2
      <3> QED
        BY <3>1, Zenon DEF Range
    <2> QED
      BY <2>1, <2>2, Zenon DEF Range
  <1>4. ASSUME NEW a \in DOMAIN t, NEW b \in DOMAIN t, t[a] = t[b]
        PROVE  a = b
    <2>1. /\ a \in Int /\ b \in Int
          /\ a + 1 \in DOMAIN s /\ b + 1 \in DOMAIN s
          /\ s[a + 1] = s[b + 1]
      BY <1>1, <1>4
    <2>2. a + 1 = b + 1
      BY <2>1, Zenon DEF IsInjective
    <2> QED
      BY <2>1, <2>2
  <1> QED
    BY <1>1, <1>2, <1>3, <1>4, Zenon DEF t, h, IsInjective

LEMMA RemoveFacts ==
    ASSUME NEW S, NEW s \in Seq(S), NEW k \in DOMAIN s, IsInjective(s)
    PROVE  /\ RemoveAt(s, k) \in Seq(S)
           /\ Range(RemoveAt(s, k)) = Range(s) \ {s[k]}
           /\ IsInjective(RemoveAt(s, k))
  <1> DEFINE t == RemoveAt(s, k)
  <1>1. /\ t \in Seq(S) /\ Len(s) \in Nat /\ k \in 1 .. Len(s)
        /\ DOMAIN s = 1 .. Len(s) /\ DOMAIN t = 1 .. (Len(s) - 1)
        /\ \A j \in 1 .. (Len(s) - 1) : t[j] = IF j < k THEN s[j] ELSE s[j + 1]
    <2>1. t \in Seq(S) /\ Len(t) = Len(s) - 1
      BY RemoveAtFacts, Zenon
    <2>2. DOMAIN t = 1 .. Len(t)
      BY <2>1
    <2> QED
      BY RemoveAtFacts, <2>1, <2>2, SMTT(60)
  <1> HIDE DEF t
  <1>2. ASSUME NEW x
        PROVE  x \in Range(t) <=> x \in Range(s) /\ x # s[k]
    <2>1. ASSUME NEW i \in DOMAIN t, x = t[i]
          PROVE  x \in Range(s) /\ x # s[k]
      <3>1. CASE i < k
        BY <1>1, <2>1, <3>1 DEF Range, IsInjective
      <3>2. CASE ~(i < k)
        BY <1>1, <2>1, <3>2, SMTT(60) DEF Range, IsInjective
      <3> QED
        BY <3>1, <3>2, Zenon
    <2>2. ASSUME NEW i \in DOMAIN s, x = s[i], x # s[k]
          PROVE  x \in Range(t)
      <3>1. CASE i < k
        <4>1. i \in DOMAIN t /\ t[i] = x
          BY <1>1, <2>2, <3>1
        <4> QED
          BY <4>1, Zenon DEF Range
      <3>2. CASE ~(i < k)
        <4>1. i - 1 \in DOMAIN t /\ t[i - 1] = x
          BY <1>1, <2>2, <3>2
        <4> QED
          BY <4>1, Zenon DEF Range
      <3> QED
        BY <3>1, <3>2, Zenon
    <2> QED
      BY <2>1, <2>2, Zenon DEF Range
  <1>3. ASSUME NEW a \in DOMAIN t, NEW b \in DOMAIN t, t[a] = t[b]
        PROVE  a = b
    <2> DEFINE At(j) == IF j < k THEN j ELSE j + 1
    <2>1. /\ a \in Int /\ b \in Int /\ k \in Int
          /\ At(a) \in DOMAIN s /\ At(b) \in DOMAIN s
      BY <1>1
    <2>2. t[a] = s[At(a)] /\ t[b] = s[At(b)]
      BY <1>1, Zenon
    <2>3. At(a) = At(b)
      <3> HIDE DEF At
      <3> QED
        BY <1>3, <2>1, <2>2, ZenonT(60) DEF IsInjective
    <2> QED
      BY <2>1, <2>3
  <1> QED
    BY <1>1, <1>2, <1>3, Zenon DEF t, IsInjective

-------------------------------------------------------------------------------
(* Nodes *)

\* Dropping one Arc leaves every other node alone, and this one too while the claimant
\* that popped it still has its own.
LEMMA DropArcFacts ==
    ASSUME TypeOK, NEW w \in Waiters, DropArc(w, PoppedBy(w) # {})
    PROVE  /\ granted' \in [Waiters -> BOOLEAN]
           /\ waker' \in [Waiters -> Claimants \cup {NoClaimant}]
           /\ \A v \in Waiters \ {w} : granted'[v] = granted[v] /\ waker'[v] = waker[v]
           /\ ~granted[w] => ~granted'[w]
           /\ (\E q \in Claimants : next[q] = w) => granted'[w] = granted[w]
  <1>1. PoppedBy(w) # {} <=> \E q \in Claimants : next[q] = w
    BY Zenon DEF PoppedBy
  <1>2. /\ granted' \in [Waiters -> BOOLEAN]
        /\ \A v \in Waiters \ {w} : granted'[v] = granted[v]
        /\ granted'[w] = (PoppedBy(w) # {} /\ granted[w])
    BY Zenon DEF DropArc, TypeOK
  <1>3. /\ waker' \in [Waiters -> Claimants \cup {NoClaimant}]
        /\ \A v \in Waiters \ {w} : waker'[v] = waker[v]
    BY Zenon DEF DropArc, TypeOK
  <1>4. granted[w] \in BOOLEAN /\ granted'[w] \in BOOLEAN
    BY <1>2, Zenon DEF TypeOK
  <1>5. /\ ~granted[w] => ~granted'[w]
        /\ (\E q \in Claimants : next[q] = w) => granted'[w] = granted[w]
    BY <1>1, <1>2, <1>4, Zenon
  <1> QED
    BY <1>2, <1>3, <1>5, Zenon

-------------------------------------------------------------------------------
(* Every action preserves the inductive invariant.  The five steps of each    *)
(* proof: owners of nodes and of the mutex, where nodes are, the word,        *)
(* exclusion, wakeups.                                                        *)

\* Taking a free lane.
LEMMA ClaimPreserves ==
    ASSUME LaneInv, NEW p \in Claimants, Claim(p)
    PROVE  LaneInv'
  <1> USE NoClaimantAssumption, NoWaiterAssumption
      DEF Place, GateState, Enqueueing, Suspended, Releasing, LaneInv, Goto, Claim
  <1>1. TypeOK' /\ MutexInv' /\ WaiterInv'
    BY Zenon DEF TypeOK, MutexInv, WaiterInv
  <1>2. NextInv' /\ QueueInv' /\ SuspendedInv'
    BY SMTT(60) DEF TypeOK, MutexInv, WaiterInv, NextInv, QueueInv, SuspendedInv,
           Popped
  <1>3. GateInv'
    BY DEF TypeOK, MutexInv, NextInv, QueueInv, GateInv
  <1>4. MutualExclusion' /\ FreeIffUnreserved'
    BY DEF TypeOK, WaiterInv, NextInv, GateInv, MutualExclusion,
           FreeIffUnreserved, Reserves
  <1>5. WakeInv' /\ NoLostWakeup'
    BY DEF TypeOK, WaiterInv, NextInv, QueueInv, WakeInv, NoLostWakeup
  <1> QED
    BY <1>1, <1>2, <1>3, <1>4, <1>5, Zenon

\* A fresh node is nobody's, so nothing that was said of nodes changes.
LEMMA StartEnqueuesPreserves ==
    ASSUME LaneInv, NEW p \in Claimants, StartEnqueues(p)
    PROVE  LaneInv'
  <1> USE NoClaimantAssumption, NoWaiterAssumption
      DEF Place, GateState, Enqueueing, Suspended, Releasing, LaneInv, Goto
  <1>0. /\ pc[p] = "idle" /\ gate # "Free"
        /\ pc' = [pc EXCEPT ![p] = "enqueue"]
        /\ UNCHANGED <<gate, mutex, queue, seen, next, notified>>
    BY Zenon DEF StartEnqueues
  <1>a. PICK w \in Waiters :
          /\ \A q \in Claimants : waiter[q] # w /\ next[q] # w
          /\ waiter' = [waiter EXCEPT ![p] = w]
          /\ granted' = [granted EXCEPT ![w] = FALSE]
          /\ waker' = [waker EXCEPT ![w] = NoClaimant]
    BY ZenonT(60) DEF Unreferenced, StartEnqueues
  <1>b. w \notin Range(queue)
    BY <1>a, Zenon DEF QueueInv
  <1>1. TypeOK' /\ MutexInv' /\ WaiterInv'
    BY <1>0, <1>a DEF TypeOK, MutexInv, WaiterInv
  <1>2. NextInv' /\ QueueInv' /\ SuspendedInv'
    <2>1. NextInv'
      BY <1>0, <1>a DEF TypeOK, WaiterInv, NextInv
    <2>2. QueueInv'
      BY <1>0, <1>a, <1>b DEF TypeOK, WaiterInv, QueueInv
    <2>3. SuspendedInv'
      BY <1>0, <1>a DEF TypeOK, WaiterInv, SuspendedInv, Popped
    <2> QED
      BY <2>1, <2>2, <2>3, Zenon
  <1>3. GateInv'
    BY <1>0, <1>a DEF TypeOK, MutexInv, NextInv, QueueInv, GateInv
  <1>4. MutualExclusion' /\ FreeIffUnreserved'
    BY <1>0, <1>a DEF TypeOK, WaiterInv, NextInv, GateInv, MutualExclusion,
           FreeIffUnreserved, Reserves
  <1>5. WakeInv' /\ NoLostWakeup'
    BY <1>0, <1>a DEF TypeOK, WaiterInv, NextInv, QueueInv, WakeInv, NoLostWakeup
  <1> QED
    BY <1>1, <1>2, <1>3, <1>4, <1>5, Zenon

\* Entering the shard mutex.
LEMMA EnqueueLoadPreserves ==
    ASSUME LaneInv, NEW p \in Claimants, EnqueueLoad(p)
    PROVE  LaneInv'
  <1> USE NoClaimantAssumption, NoWaiterAssumption
      DEF Place, GateState, Enqueueing, Suspended, Releasing, LaneInv, Goto, EnqueueLoad
  <1>1. TypeOK' /\ MutexInv' /\ WaiterInv'
    BY DEF TypeOK, MutexInv, WaiterInv
  <1>2. NextInv' /\ QueueInv' /\ SuspendedInv'
    BY SMTT(60) DEF TypeOK, MutexInv, WaiterInv, NextInv, QueueInv, SuspendedInv,
           Popped
  <1>3. GateInv'
    BY DEF TypeOK, MutexInv, NextInv, QueueInv, GateInv
  <1>4. MutualExclusion' /\ FreeIffUnreserved'
    BY DEF TypeOK, WaiterInv, NextInv, GateInv, MutualExclusion,
           FreeIffUnreserved, Reserves
  <1>5. WakeInv' /\ NoLostWakeup'
    BY DEF TypeOK, WaiterInv, NextInv, QueueInv, WakeInv, NoLostWakeup
  <1> QED
    BY <1>1, <1>2, <1>3, <1>4, <1>5, Zenon

\* The word changes under the claimant's own mutex, or to its own benefit.
LEMMA EnqueueCasPreserves ==
    ASSUME LaneInv, NEW p \in Claimants, EnqueueCas(p)
    PROVE  LaneInv'
  <1> USE NoClaimantAssumption, NoWaiterAssumption
      DEF Place, GateState, Enqueueing, Suspended, Releasing, LaneInv, Goto, EnqueueCas
  <1>1. TypeOK' /\ MutexInv' /\ WaiterInv'
    BY DEF TypeOK, MutexInv, WaiterInv
  <1>2. NextInv' /\ QueueInv' /\ SuspendedInv'
    BY SMTT(60) DEF TypeOK, MutexInv, WaiterInv, NextInv, QueueInv, SuspendedInv,
           Popped
  <1>3. GateInv'
    <2>1. CASE seen[p] = "Free" /\ gate = "Free"
      BY <2>1 DEF TypeOK, MutexInv, NextInv, QueueInv, GateInv
    <2>2. CASE seen[p] = "Held" /\ gate = "Held"
      BY <2>2 DEF TypeOK, MutexInv, NextInv, QueueInv, GateInv
    <2>3. CASE seen[p] = "Queued"
      BY <2>3 DEF TypeOK, MutexInv, NextInv, QueueInv, GateInv
    <2>4. CASE seen[p] # "Queued" /\ gate # seen[p]
      BY <2>4 DEF TypeOK, MutexInv, NextInv, QueueInv, GateInv
    <2> QED
      BY <2>1, <2>2, <2>3, <2>4, Zenon
  <1>4. MutualExclusion' /\ FreeIffUnreserved'
    BY DEF TypeOK, WaiterInv, NextInv, GateInv, MutualExclusion,
           FreeIffUnreserved, Reserves
  <1>5. WakeInv' /\ NoLostWakeup'
    BY DEF TypeOK, WaiterInv, NextInv, QueueInv, WakeInv, NoLostWakeup
  <1> QED
    BY <1>1, <1>2, <1>3, <1>4, <1>5, Zenon

\* The pushed node was in no queue: it belonged to a claim still enqueueing.
LEMMA EnqueuePushPreserves ==
    ASSUME LaneInv, NEW p \in Claimants, EnqueuePush(p)
    PROVE  LaneInv'
  <1> USE NoClaimantAssumption, NoWaiterAssumption
      DEF Place, GateState, Enqueueing, Suspended, Releasing, LaneInv, Goto, EnqueuePush
  <1>a. waiter[p] \in Waiters /\ waiter[p] \notin Range(queue)
    BY DEF TypeOK, WaiterInv, QueueInv
  <1>b. /\ queue' \in Seq(Waiters) /\ queue' # << >>
        /\ Range(queue') = Range(queue) \cup {waiter[p]}
        /\ IsInjective(queue')
    BY <1>a, PushFacts DEF TypeOK, QueueInv
  <1>1. TypeOK' /\ MutexInv' /\ WaiterInv'
    BY <1>b, Zenon DEF TypeOK, MutexInv, WaiterInv
  <1>2. NextInv' /\ QueueInv' /\ SuspendedInv'
    BY <1>a, <1>b DEF TypeOK, MutexInv, WaiterInv, NextInv, QueueInv, SuspendedInv,
           Popped
  <1>3. GateInv'
    BY <1>b DEF TypeOK, MutexInv, NextInv, QueueInv, GateInv
  <1>4. MutualExclusion' /\ FreeIffUnreserved'
    BY DEF TypeOK, WaiterInv, NextInv, GateInv, MutualExclusion,
           FreeIffUnreserved, Reserves
  <1>5. WakeInv' /\ NoLostWakeup'
    BY DEF TypeOK, WaiterInv, NextInv, QueueInv, WakeInv, NoLostWakeup
  <1> QED
    BY <1>1, <1>2, <1>3, <1>4, <1>5, Zenon

\* Registering a waker.
LEMMA RegisterPreserves ==
    ASSUME LaneInv, NEW p \in Claimants, Register(p)
    PROVE  LaneInv'
  <1> USE NoClaimantAssumption, NoWaiterAssumption
      DEF Place, GateState, Enqueueing, Suspended, Releasing, LaneInv, Goto, Register
  <1>1. TypeOK' /\ MutexInv' /\ WaiterInv'
    BY Zenon DEF TypeOK, MutexInv, WaiterInv
  <1>2. NextInv' /\ QueueInv' /\ SuspendedInv'
    BY SMTT(60) DEF TypeOK, MutexInv, WaiterInv, NextInv, QueueInv, SuspendedInv,
           Popped
  <1>3. GateInv'
    BY DEF TypeOK, MutexInv, NextInv, QueueInv, GateInv
  <1>4. MutualExclusion' /\ FreeIffUnreserved'
    BY DEF TypeOK, WaiterInv, NextInv, GateInv, MutualExclusion,
           FreeIffUnreserved, Reserves
  <1>5. WakeInv' /\ NoLostWakeup'
    BY DEF TypeOK, WaiterInv, NextInv, QueueInv, WakeInv, NoLostWakeup
  <1> QED
    BY <1>1, <1>2, <1>3, <1>4, <1>5, Zenon

\* Seeing the grant moves the reservation from the node to the guard.
LEMMA CheckPreserves ==
    ASSUME LaneInv, NEW p \in Claimants, Check(p)
    PROVE  LaneInv'
  <1> USE NoClaimantAssumption, NoWaiterAssumption
      DEF Place, GateState, Enqueueing, Suspended, Releasing, LaneInv, Goto, Check
  <1>a. waiter[p] \in Waiters /\ TypeOK
    BY Zenon DEF TypeOK, WaiterInv
  <1>b. CASE granted[waiter[p]]
    <2> DEFINE w == waiter[p]
    <2>a. /\ granted' \in [Waiters -> BOOLEAN]
          /\ waker' \in [Waiters -> Claimants \cup {NoClaimant}]
          /\ \A v \in Waiters \ {w} : granted'[v] = granted[v] /\ waker'[v] = waker[v]
          /\ (\E q \in Claimants : next[q] = w) => granted'[w] = granted[w]
      BY <1>a, <1>b, DropArcFacts, Zenon
    <2>1. TypeOK' /\ MutexInv' /\ WaiterInv'
      BY <1>a, <1>b, <2>a DEF TypeOK, MutexInv, WaiterInv
    <2>2. NextInv' /\ QueueInv' /\ SuspendedInv'
      <3>1. /\ w \notin Range(queue)
            /\ \A q \in Claimants : pc[q] \in {"handoff_store", "handoff_grant"} => next[q] # w
            /\ \A q \in Claimants \ {p} : waiter[q] # w
        BY <1>a, <1>b, Zenon DEF QueueInv, NextInv, WaiterInv
      <3>2. NextInv'
        <4>0. /\ pc' = [pc EXCEPT ![p] = "owner"] /\ pc[p] = "check"
              /\ waiter' = [waiter EXCEPT ![p] = NoWaiter]
              /\ UNCHANGED <<queue, next>>
          BY <1>b, Zenon
        <4>1. ASSUME NEW q \in Claimants, pc'[q] = "wake"
              PROVE  granted'[next'[q]]
          <5>1. q # p /\ pc[q] = "wake" /\ next[q] \in Waiters /\ granted[next[q]]
            BY <4>0, <4>1, Zenon DEF TypeOK, NextInv
          <5>2. granted'[next[q]] = granted[next[q]]
            BY <2>a, <5>1, Zenon
          <5> QED
            BY <4>0, <5>1, <5>2, Zenon
        <4>2. ASSUME NEW q \in Claimants, pc'[q] \in {"handoff_store", "handoff_grant"},
                     next'[q] # NoWaiter
              PROVE  /\ ~granted'[next'[q]] /\ next'[q] \notin Range(queue')
                     /\ \E r \in Claimants : pc'[r] \in Suspended /\ waiter'[r] = next'[q]
          <5>1. q # p /\ pc[q] \in {"handoff_store", "handoff_grant"} /\ next[q] \in Waiters \ {w}
            BY <3>1, <4>0, <4>2, Zenon DEF TypeOK
          <5>2. PICK r \in Claimants : pc[r] \in Suspended /\ waiter[r] = next[q]
            BY <4>0, <4>2, <5>1, Zenon DEF NextInv
          <5>3. r # p /\ pc'[r] = pc[r] /\ waiter'[r] = waiter[r]
            BY <4>0, <5>1, <5>2, Zenon DEF TypeOK
          <5> QED
            BY <2>a, <4>0, <4>2, <5>1, <5>2, <5>3 DEF NextInv
        <4> QED
          BY <4>0, <4>1, <4>2 DEF TypeOK, NextInv
      <3>3. QueueInv'
        BY <1>a, <1>b, <2>a, <3>1, SMTT(60) DEF TypeOK, WaiterInv, QueueInv, Range
      <3>4. SuspendedInv'
        BY <1>a, <1>b, <2>a, <3>1, SMTT(60) DEF TypeOK, WaiterInv, SuspendedInv, Popped
      <3> QED
        BY <3>2, <3>3, <3>4, Zenon
    <2>3. GateInv'
      BY <1>b DEF TypeOK, MutexInv, NextInv, QueueInv, GateInv
    <2>4. MutualExclusion' /\ FreeIffUnreserved'
      BY <1>a, <1>b, <2>a, SMTT(60) DEF TypeOK, WaiterInv, NextInv, GateInv, MutualExclusion,
         FreeIffUnreserved, Reserves
    <2>5. WakeInv' /\ NoLostWakeup'
      BY <1>a, <1>b, <2>a, SMTT(60) DEF TypeOK, WaiterInv, NextInv, QueueInv, WakeInv, NoLostWakeup
    <2> QED
      BY <2>1, <2>2, <2>3, <2>4, <2>5, Zenon
  <1>c. CASE ~granted[waiter[p]]
    <2>1. TypeOK' /\ MutexInv' /\ WaiterInv'
      BY <1>c, SMTT(60) DEF TypeOK, MutexInv, WaiterInv
    <2>2. NextInv' /\ QueueInv' /\ SuspendedInv'
      BY <1>c, SMTT(60) DEF TypeOK, MutexInv, WaiterInv, NextInv, QueueInv, SuspendedInv,
             Popped
    <2>3. GateInv'
      BY <1>c DEF TypeOK, MutexInv, NextInv, QueueInv, GateInv
    <2>4. MutualExclusion' /\ FreeIffUnreserved'
      BY <1>c DEF TypeOK, WaiterInv, NextInv, GateInv, MutualExclusion,
             FreeIffUnreserved, Reserves
    <2>5. WakeInv' /\ NoLostWakeup'
      BY <1>c DEF TypeOK, WaiterInv, NextInv, QueueInv, WakeInv, NoLostWakeup
    <2> QED
      BY <2>1, <2>2, <2>3, <2>4, <2>5, Zenon
  <1> QED
    BY <1>b, <1>c, Zenon

\* A scheduled poll.
LEMMA PollPreserves ==
    ASSUME LaneInv, NEW p \in Claimants, Poll(p)
    PROVE  LaneInv'
  <1> USE NoClaimantAssumption, NoWaiterAssumption
      DEF Place, GateState, Enqueueing, Suspended, Releasing, LaneInv, Goto, Poll
  <1>1. TypeOK' /\ MutexInv' /\ WaiterInv'
    BY Zenon DEF TypeOK, MutexInv, WaiterInv
  <1>2. NextInv' /\ QueueInv' /\ SuspendedInv'
    BY SMTT(60) DEF TypeOK, MutexInv, WaiterInv, NextInv, QueueInv, SuspendedInv,
           Popped
  <1>3. GateInv'
    BY DEF TypeOK, MutexInv, NextInv, QueueInv, GateInv
  <1>4. MutualExclusion' /\ FreeIffUnreserved'
    BY DEF TypeOK, WaiterInv, NextInv, GateInv, MutualExclusion,
           FreeIffUnreserved, Reserves
  <1>5. WakeInv' /\ NoLostWakeup'
    BY DEF TypeOK, WaiterInv, NextInv, QueueInv, WakeInv, NoLostWakeup
  <1> QED
    BY <1>1, <1>2, <1>3, <1>4, <1>5, Zenon

\* An unscheduled poll.
LEMMA SpuriousPollPreserves ==
    ASSUME LaneInv, NEW p \in Claimants, SpuriousPoll(p)
    PROVE  LaneInv'
  <1> USE NoClaimantAssumption, NoWaiterAssumption
      DEF Place, GateState, Enqueueing, Suspended, Releasing, LaneInv, Goto, SpuriousPoll
  <1>1. TypeOK' /\ MutexInv' /\ WaiterInv'
    BY Zenon DEF TypeOK, MutexInv, WaiterInv
  <1>2. NextInv' /\ QueueInv' /\ SuspendedInv'
    BY SMTT(60) DEF TypeOK, MutexInv, WaiterInv, NextInv, QueueInv, SuspendedInv,
           Popped
  <1>3. GateInv'
    BY DEF TypeOK, MutexInv, NextInv, QueueInv, GateInv
  <1>4. MutualExclusion' /\ FreeIffUnreserved'
    BY DEF TypeOK, WaiterInv, NextInv, GateInv, MutualExclusion,
           FreeIffUnreserved, Reserves
  <1>5. WakeInv' /\ NoLostWakeup'
    BY DEF TypeOK, WaiterInv, NextInv, QueueInv, WakeInv, NoLostWakeup
  <1> QED
    BY <1>1, <1>2, <1>3, <1>4, <1>5, Zenon

\* Beginning to withdraw.
LEMMA CancelPreserves ==
    ASSUME LaneInv, NEW p \in Claimants, Cancel(p)
    PROVE  LaneInv'
  <1> USE NoClaimantAssumption, NoWaiterAssumption
      DEF Place, GateState, Enqueueing, Suspended, Releasing, LaneInv, Goto, Cancel
  <1>1. TypeOK' /\ MutexInv' /\ WaiterInv'
    BY Zenon DEF TypeOK, MutexInv, WaiterInv
  <1>2. NextInv' /\ QueueInv' /\ SuspendedInv'
    BY SMTT(60) DEF TypeOK, MutexInv, WaiterInv, NextInv, QueueInv, SuspendedInv,
           Popped
  <1>3. GateInv'
    BY DEF TypeOK, MutexInv, NextInv, QueueInv, GateInv
  <1>4. MutualExclusion' /\ FreeIffUnreserved'
    BY DEF TypeOK, WaiterInv, NextInv, GateInv, MutualExclusion,
           FreeIffUnreserved, Reserves
  <1>5. WakeInv' /\ NoLostWakeup'
    BY DEF TypeOK, WaiterInv, NextInv, QueueInv, WakeInv, NoLostWakeup
  <1> QED
    BY <1>1, <1>2, <1>3, <1>4, <1>5, Zenon

\* A granted claim goes on to release; another leaves the queue it was in.
LEMMA WithdrawPreserves ==
    ASSUME LaneInv, NEW p \in Claimants, Withdraw(p)
    PROVE  LaneInv'
  <1> USE NoClaimantAssumption, NoWaiterAssumption
      DEF Place, GateState, Enqueueing, Suspended, Releasing, LaneInv, Goto, Withdraw
  <1>a. /\ waiter[p] \in Waiters
        /\ queue' \in Seq(Waiters) /\ IsInjective(queue')
        /\ granted[waiter[p]] => queue' = queue
        /\ ~granted[waiter[p]] =>
            waiter[p] \in Range(queue) /\ Range(queue') = Range(queue) \ {waiter[p]}
    <2>1. waiter[p] \in Waiters
      BY Zenon DEF TypeOK, WaiterInv
    <2>2. CASE granted[waiter[p]]
      BY <2>1, <2>2, Zenon DEF TypeOK, QueueInv
    <2>3. CASE ~granted[waiter[p]]
      <3>1. PICK i \in DOMAIN queue : queue[i] = waiter[p] /\ queue' = RemoveAt(queue, i)
        BY <2>3, Zenon
      <3>2. queue \in Seq(Waiters) /\ IsInjective(queue)
        BY Zenon DEF TypeOK, QueueInv
      <3>3. /\ queue' \in Seq(Waiters) /\ IsInjective(queue')
            /\ Range(queue') = Range(queue) \ {waiter[p]}
        BY <3>1, <3>2, RemoveFacts, SMTT(60)
      <3>4. waiter[p] \in Range(queue)
        BY <3>1, Zenon DEF Range
      <3> QED
        BY <2>1, <2>3, <3>3, <3>4, Zenon
    <2> QED
      BY <2>2, <2>3, Zenon
  <1>b. /\ queue # << >> <=> Range(queue) # {}
        /\ queue' # << >> <=> Range(queue') # {}
    BY <1>a, EmptyFacts, Zenon DEF TypeOK
  <1>c. /\ granted' \in [Waiters -> BOOLEAN]
        /\ waker' \in [Waiters -> Claimants \cup {NoClaimant}]
        /\ \A v \in Waiters \ {waiter[p]} : granted'[v] = granted[v] /\ waker'[v] = waker[v]
        /\ ~granted[waiter[p]] => ~granted'[waiter[p]]
        /\ (\E q \in Claimants : next[q] = waiter[p]) => granted'[waiter[p]] = granted[waiter[p]]
    BY <1>a, DropArcFacts, Zenon
  <1>1. TypeOK' /\ MutexInv' /\ WaiterInv'
    BY <1>a, <1>c, SMTT(60) DEF TypeOK, MutexInv, WaiterInv
  <1>2. NextInv' /\ QueueInv' /\ SuspendedInv'
    BY <1>a, <1>c, SMTT(60) DEF TypeOK, MutexInv, WaiterInv, NextInv, QueueInv, SuspendedInv,
           Popped
  <1>3. GateInv'
    BY <1>a, <1>b, <1>c, SMTT(60) DEF TypeOK, MutexInv, NextInv, QueueInv, GateInv
  <1>4. MutualExclusion' /\ FreeIffUnreserved'
    BY <1>a, <1>c, SMTT(60) DEF TypeOK, WaiterInv, NextInv, GateInv, MutualExclusion,
           FreeIffUnreserved, Reserves
  <1>5. WakeInv' /\ NoLostWakeup'
    BY <1>a, <1>c, SMTT(60) DEF TypeOK, WaiterInv, NextInv, QueueInv, WakeInv, NoLostWakeup
  <1> QED
    BY <1>1, <1>2, <1>3, <1>4, <1>5, Zenon

\* Restoring the fast release of the current owner.
LEMMA WithdrawStorePreserves ==
    ASSUME LaneInv, NEW p \in Claimants, WithdrawStore(p)
    PROVE  LaneInv'
  <1> USE NoClaimantAssumption, NoWaiterAssumption
      DEF Place, GateState, Enqueueing, Suspended, Releasing, LaneInv, Goto, WithdrawStore
  <1>1. TypeOK' /\ MutexInv' /\ WaiterInv'
    BY Zenon DEF TypeOK, MutexInv, WaiterInv
  <1>2. NextInv' /\ QueueInv' /\ SuspendedInv'
    BY SMTT(60) DEF TypeOK, MutexInv, WaiterInv, NextInv, QueueInv, SuspendedInv,
           Popped
  <1>3. GateInv'
    BY DEF TypeOK, MutexInv, NextInv, QueueInv, GateInv
  <1>4. MutualExclusion' /\ FreeIffUnreserved'
    BY DEF TypeOK, WaiterInv, NextInv, GateInv, MutualExclusion,
           FreeIffUnreserved, Reserves
  <1>5. WakeInv' /\ NoLostWakeup'
    BY DEF TypeOK, WaiterInv, NextInv, QueueInv, WakeInv, NoLostWakeup
  <1> QED
    BY <1>1, <1>2, <1>3, <1>4, <1>5, Zenon

\* Beginning to release.
LEMMA DropGuardPreserves ==
    ASSUME LaneInv, NEW p \in Claimants, DropGuard(p)
    PROVE  LaneInv'
  <1> USE NoClaimantAssumption, NoWaiterAssumption
      DEF Place, GateState, Enqueueing, Suspended, Releasing, LaneInv, Goto, DropGuard
  <1>1. TypeOK' /\ MutexInv' /\ WaiterInv'
    BY Zenon DEF TypeOK, MutexInv, WaiterInv
  <1>2. NextInv' /\ QueueInv' /\ SuspendedInv'
    BY SMTT(60) DEF TypeOK, MutexInv, WaiterInv, NextInv, QueueInv, SuspendedInv,
           Popped
  <1>3. GateInv'
    BY DEF TypeOK, MutexInv, NextInv, QueueInv, GateInv
  <1>4. MutualExclusion' /\ FreeIffUnreserved'
    BY DEF TypeOK, WaiterInv, NextInv, GateInv, MutualExclusion,
           FreeIffUnreserved, Reserves
  <1>5. WakeInv' /\ NoLostWakeup'
    BY DEF TypeOK, WaiterInv, NextInv, QueueInv, WakeInv, NoLostWakeup
  <1> QED
    BY <1>1, <1>2, <1>3, <1>4, <1>5, Zenon

\* The word says Held only while nobody waits, and only for the releasing owner.
LEMMA ReleasePreserves ==
    ASSUME LaneInv, NEW p \in Claimants, Release(p)
    PROVE  LaneInv'
  <1> USE NoClaimantAssumption, NoWaiterAssumption
      DEF Place, GateState, Enqueueing, Suspended, Releasing, LaneInv, Goto, Release
  <1>1. TypeOK' /\ MutexInv' /\ WaiterInv'
    BY DEF TypeOK, MutexInv, WaiterInv
  <1>2. NextInv' /\ QueueInv' /\ SuspendedInv'
    BY SMTT(60) DEF TypeOK, MutexInv, WaiterInv, NextInv, QueueInv, SuspendedInv,
           Popped
  <1>3. GateInv'
    BY SMTT(60) DEF TypeOK, MutexInv, NextInv, QueueInv, GateInv,
           MutualExclusion, Reserves
  <1>4. MutualExclusion' /\ FreeIffUnreserved'
    BY DEF TypeOK, WaiterInv, NextInv, GateInv, MutualExclusion,
           FreeIffUnreserved, Reserves
  <1>5. WakeInv' /\ NoLostWakeup'
    BY SMTT(60) DEF TypeOK, WaiterInv, NextInv, QueueInv, WakeInv, NoLostWakeup
  <1> QED
    BY <1>1, <1>2, <1>3, <1>4, <1>5, Zenon

\* The head of the queue becomes the popped node.
LEMMA HandoffPopPreserves ==
    ASSUME LaneInv, NEW p \in Claimants, HandoffPop(p)
    PROVE  LaneInv'
  <1> USE NoClaimantAssumption, NoWaiterAssumption
      DEF Place, GateState, Enqueueing, Suspended, Releasing, LaneInv, Goto, HandoffPop
  <1>a. /\ queue' \in Seq(Waiters) /\ IsInjective(queue')
        /\ queue = << >> => queue' = queue /\ next' = next
        /\ queue # << >> =>
            /\ next' = [next EXCEPT ![p] = Head(queue)]
            /\ Head(queue) \in Range(queue) /\ Head(queue) \in Waiters
            /\ Range(queue') = Range(queue) \ {Head(queue)}
    <2>1. queue \in Seq(Waiters) /\ IsInjective(queue)
      BY Zenon DEF TypeOK, QueueInv
    <2>2. CASE queue = << >>
      BY <2>1, <2>2, Zenon
    <2>3. CASE queue # << >>
      <3>1. queue' = Tail(queue) /\ next' = [next EXCEPT ![p] = Head(queue)]
        BY <2>3, Zenon
      <3> QED
        BY <2>1, <2>3, <3>1, PopFacts, Zenon
    <2> QED
      BY <2>2, <2>3, Zenon
  <1>b. /\ queue # << >> <=> Range(queue) # {}
        /\ queue' # << >> <=> Range(queue') # {}
    BY <1>a, EmptyFacts, Zenon DEF TypeOK
  <1>1. TypeOK' /\ MutexInv' /\ WaiterInv'
    BY <1>a DEF TypeOK, MutexInv, WaiterInv
  <1>2. NextInv' /\ QueueInv' /\ SuspendedInv'
    <2>1. CASE queue = << >>
      BY <1>a, <1>b, <2>1, SMTT(60) DEF TypeOK, MutexInv, NextInv, QueueInv, SuspendedInv, Popped
    <2>2. CASE queue # << >>
      <3>1. NextInv'
        BY <1>a, <2>2, SMTT(60) DEF TypeOK, MutexInv, NextInv, QueueInv
      <3>2. QueueInv'
        BY <1>a, <2>2, ZenonT(60) DEF TypeOK, MutexInv, QueueInv
      <3>3. SuspendedInv'
        BY <1>a, <2>2, SMTT(60) DEF TypeOK, MutexInv, SuspendedInv, Popped
      <3> QED
        BY <3>1, <3>2, <3>3, Zenon
    <2> QED
      BY <2>1, <2>2, Zenon
  <1>3. GateInv'
    BY <1>a, <1>b, SMTT(60) DEF TypeOK, MutexInv, NextInv, QueueInv, GateInv
  <1>4. MutualExclusion' /\ FreeIffUnreserved'
    BY <1>a, SMTT(60) DEF TypeOK, WaiterInv, NextInv, GateInv, MutualExclusion,
           FreeIffUnreserved, Reserves
  <1>5. WakeInv' /\ NoLostWakeup'
    BY <1>a DEF TypeOK, WaiterInv, NextInv, QueueInv, WakeInv, NoLostWakeup
  <1> QED
    BY <1>1, <1>2, <1>3, <1>4, <1>5, Zenon

\* The word says what the queue will be once the popped claim owns the lane.
LEMMA HandoffStorePreserves ==
    ASSUME LaneInv, NEW p \in Claimants, HandoffStore(p)
    PROVE  LaneInv'
  <1> USE NoClaimantAssumption, NoWaiterAssumption
      DEF Place, GateState, Enqueueing, Suspended, Releasing, LaneInv, Goto, HandoffStore
  <1>1. TypeOK' /\ MutexInv' /\ WaiterInv'
    BY DEF TypeOK, MutexInv, WaiterInv
  <1>2. NextInv' /\ QueueInv' /\ SuspendedInv'
    BY SMTT(60) DEF TypeOK, MutexInv, WaiterInv, NextInv, QueueInv, SuspendedInv,
           Popped
  <1>3. GateInv'
    BY DEF TypeOK, MutexInv, NextInv, QueueInv, GateInv
  <1>4. MutualExclusion' /\ FreeIffUnreserved'
    BY DEF TypeOK, WaiterInv, NextInv, GateInv, MutualExclusion,
           FreeIffUnreserved, Reserves
  <1>5. WakeInv' /\ NoLostWakeup'
    BY SMTT(60) DEF TypeOK, WaiterInv, NextInv, QueueInv, WakeInv, NoLostWakeup
  <1> QED
    BY <1>1, <1>2, <1>3, <1>4, <1>5, Zenon

\* The reservation passes to the one claim that owns the popped node.
LEMMA HandoffGrantPreserves ==
    ASSUME LaneInv, NEW p \in Claimants, HandoffGrant(p)
    PROVE  LaneInv'
  <1> USE NoClaimantAssumption, NoWaiterAssumption
      DEF Place, GateState, Enqueueing, Suspended, Releasing, LaneInv, Goto, HandoffGrant
  <1>1. TypeOK' /\ MutexInv' /\ WaiterInv'
    BY DEF TypeOK, MutexInv, WaiterInv, NextInv
  <1>2. NextInv' /\ QueueInv' /\ SuspendedInv'
    BY SMTT(60) DEF TypeOK, MutexInv, WaiterInv, NextInv, QueueInv, SuspendedInv,
           Popped
  <1>3. GateInv'
    BY DEF TypeOK, MutexInv, NextInv, QueueInv, GateInv
  <1>4. MutualExclusion' /\ FreeIffUnreserved'
    BY DEF TypeOK, WaiterInv, NextInv, GateInv, MutualExclusion,
           FreeIffUnreserved, Reserves
  <1>5. WakeInv' /\ NoLostWakeup'
    BY SMTT(60) DEF TypeOK, WaiterInv, NextInv, QueueInv, WakeInv, NoLostWakeup
  <1> QED
    BY <1>1, <1>2, <1>3, <1>4, <1>5, Zenon

\* The granted claim is scheduled if it had registered.
LEMMA WakePreserves ==
    ASSUME LaneInv, NEW p \in Claimants, Wake(p)
    PROVE  LaneInv'
  <1> USE NoClaimantAssumption, NoWaiterAssumption
      DEF Place, GateState, Enqueueing, Suspended, Releasing, LaneInv, Goto, Wake
  <1>1. TypeOK' /\ MutexInv' /\ WaiterInv'
    BY ZenonT(60) DEF TypeOK, MutexInv, WaiterInv
  <1>a. /\ next[p] \in Waiters /\ granted[next[p]]
        /\ granted' \in [Waiters -> BOOLEAN]
        /\ \A v \in Waiters \ {next[p]} : granted'[v] = granted[v]
        /\ (\E q \in Claimants : waiter[q] = next[p]) => granted'[next[p]]
    BY DEF TypeOK, NextInv
  <1>2. NextInv' /\ QueueInv' /\ SuspendedInv'
    <2>1. NextInv'
      BY <1>a, SMTT(60) DEF TypeOK, WaiterInv, NextInv
    <2>2. QueueInv'
      BY <1>a, SMTT(60) DEF TypeOK, WaiterInv, QueueInv
    <2>3. SuspendedInv'
      BY <1>a, SMTT(60) DEF TypeOK, WaiterInv, SuspendedInv, Popped
    <2> QED
      BY <2>1, <2>2, <2>3, Zenon
  <1>3. GateInv'
    BY DEF TypeOK, MutexInv, NextInv, QueueInv, GateInv
  <1>4. MutualExclusion' /\ FreeIffUnreserved'
    BY DEF TypeOK, WaiterInv, NextInv, GateInv, MutualExclusion,
           FreeIffUnreserved, Reserves
  <1>5. WakeInv' /\ NoLostWakeup'
    BY DEF TypeOK, WaiterInv, NextInv, QueueInv, WakeInv, NoLostWakeup
  <1> QED
    BY <1>1, <1>2, <1>3, <1>4, <1>5, Zenon

-------------------------------------------------------------------------------
(* The theorems. *)

\* The inductive invariant of the lane holds in every reachable state, for any
\* number of claimants and nodes: it relates the admission word, the shard
\* mutex, the queue and the nodes of ordered.rs at every atomic step.
THEOREM LaneInvariant == Spec => []LaneInv
  <1>1. Init => LaneInv
    <2> SUFFICES ASSUME Init PROVE LaneInv
      BY Zenon
    <2> USE NoClaimantAssumption, NoWaiterAssumption DEF Init
    <2>1. TypeOK
      BY DEF TypeOK, Place, GateState
    <2>2. Range(queue) = {} /\ IsInjective(queue)
      BY DEF Range, IsInjective
    <2>3. MutexInv /\ WaiterInv /\ NextInv
      BY Zenon DEF MutexInv, WaiterInv, NextInv, Enqueueing, Suspended
    <2>4. QueueInv /\ SuspendedInv
      BY <2>2, Zenon DEF QueueInv, SuspendedInv, Suspended
    <2>5. GateInv /\ WakeInv /\ NoLostWakeup
      BY Zenon DEF GateInv, WakeInv, NoLostWakeup
    <2>6. MutualExclusion /\ FreeIffUnreserved
      BY Zenon DEF MutualExclusion, FreeIffUnreserved, Reserves, Suspended, Releasing
    <2> QED
      BY <2>1, <2>3, <2>4, <2>5, <2>6, Zenon DEF LaneInv
  <1>2. LaneInv /\ [Next]_vars => LaneInv'
    <2> SUFFICES ASSUME LaneInv, [Next]_vars PROVE LaneInv'
      BY Zenon
    <2>1. ASSUME NEW p \in Claimants, Step(p) PROVE LaneInv'
      BY <2>1, ClaimPreserves, StartEnqueuesPreserves, EnqueueLoadPreserves,
         EnqueueCasPreserves, EnqueuePushPreserves, RegisterPreserves,
         CheckPreserves, PollPreserves, SpuriousPollPreserves,
         CancelPreserves, WithdrawPreserves, WithdrawStorePreserves,
         DropGuardPreserves, ReleasePreserves, HandoffPopPreserves,
         HandoffStorePreserves, HandoffGrantPreserves, WakePreserves, Zenon DEF Step
    <2>2. CASE UNCHANGED vars
      BY <2>2 DEF vars, LaneInv, TypeOK, MutexInv, WaiterInv, NextInv, QueueInv,
         SuspendedInv, GateInv, WakeInv, MutualExclusion, FreeIffUnreserved,
         NoLostWakeup, Reserves, Popped
    <2> QED
      BY <2>1, <2>2, Zenon DEF Next
  <1> QED
    BY <1>1, <1>2, PTL DEF Spec

\* Every variable of the lane keeps its type.
THEOREM LaneTypes == Spec => []TypeOK
  BY LaneInvariant, PTL DEF LaneInv

\* At most one claimant owns the lane, an unpolled grant included
\* (Admission::claim, release_ready and QueueRef::handoff).
THEOREM LaneExclusion == Spec => []MutualExclusion
  BY LaneInvariant, PTL DEF LaneInv

\* The lane is free exactly when nobody owns it: QueueRef::release and withdraw
\* neither leak a reservation nor free a lane that was handed on.
THEOREM LaneNeverLeaks == Spec => []FreeIffUnreserved
  BY LaneInvariant, PTL DEF LaneInv

\* The unreachable! arms of QueueRef::withdraw are unreachable.
THEOREM LaneWithdrawFinds == Spec => []WaitingClaimIsQueued
  <1>1. LaneInv => WaitingClaimIsQueued
    BY NoClaimantAssumption
      , Zenon DEF LaneInv, MutexInv, SuspendedInv, WaitingClaimIsQueued, Popped
  <1> QED
    BY <1>1, LaneInvariant, PTL

\* Outside the shard mutex the word is Queued exactly when somebody waits.
THEOREM LaneWordTellsWaiters == Spec => []QueuedIffWaiting
  <1>1. LaneInv => QueuedIffWaiting
    BY Zenon DEF LaneInv, GateInv, QueuedIffWaiting
  <1> QED
    BY <1>1, LaneInvariant, PTL

\* A parked claim that owns the lane is scheduled or about to be
\* (poll_waiter against Waiter::wake).
THEOREM LaneWakes == Spec => []NoLostWakeup
  BY LaneInvariant, PTL DEF LaneInv

-------------------------------------------------------------------------------
(* The mapping *)

\* Whoever reserves the lane is its holder.
LEMMA HolderFacts ==
    LaneInv => /\ \A p \in Claimants : Reserves(p) => Holder = p
               /\ (\A p \in Claimants : ~Reserves(p)) => Holder = NoClaimant
  BY Zenon DEF LaneInv, MutualExclusion, Holder

\* Nobody reserves a lane without a holder.
LEMMA NoHolderFacts ==
    LaneInv /\ Holder = NoClaimant => \A p \in Claimants : ~Reserves(p)
  BY HolderFacts, NoClaimantAssumption, Zenon

\* The line without and with a popped waiter.
LEMMA NodesFacts ==
    LaneInv => /\ (\A p \in Claimants : p \notin Popping) => Nodes = queue
               /\ \A p \in Popping : Nodes = << next[p] >> \o queue
  <1> SUFFICES ASSUME LaneInv
               PROVE  /\ (\A p \in Claimants : p \notin Popping) => Nodes = queue
                      /\ \A p \in Popping : Nodes = << next[p] >> \o queue
    BY Zenon
  <1>1. \A p, q \in Popping : p = q
    BY Zenon DEF LaneInv, MutexInv, Popping
  <1>2. (\A p \in Claimants : p \notin Popping) => Popping = {}
    BY Zenon DEF Popping
  <1>3. ASSUME NEW p \in Popping
        PROVE  Nodes = << next[p] >> \o queue
    <2>1. (CHOOSE q \in Popping : TRUE) \in Popping
      BY <1>3, Zenon
    <2>2. (CHOOSE q \in Popping : TRUE) = p
      BY <1>1, <2>1, Zenon
    <2> QED
      BY <1>3, <2>2, Zenon DEF Nodes
  <1> QED
    BY <1>2, <1>3, Zenon DEF Nodes

\* The node of a claim tells the claim.
LEMMA OwnerFacts ==
    LaneInv => \A p \in Claimants : waiter[p] # NoWaiter => OwnerOf(waiter[p]) = p
  BY Zenon DEF LaneInv, WaiterInv, OwnerOf

\* Who pops holds the lane, and the shard mutex.
LEMMA PoppingFacts ==
    LaneInv => \A p \in Popping : /\ p \in Claimants /\ Reserves(p) /\ mutex = p
                                  /\ next[p] \in Waiters /\ ~granted[next[p]]
                                  /\ \E q \in Claimants : pc[q] \in Suspended /\ waiter[q] = next[p]
  BY Zenon DEF LaneInv, TypeOK, MutexInv, NextInv, Popping, Reserves, Releasing

\* What waits in line are the nodes of suspended claims that were not granted.
LEMMA WaitingFacts ==
    LaneInv => /\ Nodes \in Seq(Waiters)
               /\ \A i \in DOMAIN Nodes :
                    /\ ~granted[Nodes[i]]
                    /\ \E q \in Claimants : pc[q] \in Suspended /\ waiter[q] = Nodes[i]
  <1> SUFFICES ASSUME LaneInv
               PROVE  /\ Nodes \in Seq(Waiters)
                      /\ \A i \in DOMAIN Nodes :
                           /\ ~granted[Nodes[i]]
                           /\ \E q \in Claimants : pc[q] \in Suspended /\ waiter[q] = Nodes[i]
    BY Zenon
  <1> DEFINE Good(w) == ~granted[w]
                        /\ \E q \in Claimants : pc[q] \in Suspended /\ waiter[q] = w
  <1>0. queue \in Seq(Waiters)
    BY Zenon DEF LaneInv, TypeOK
  <1>1. \A i \in DOMAIN queue : Good(queue[i])
    BY Zenon DEF LaneInv, QueueInv, Range
  <1>2. CASE \A p \in Claimants : p \notin Popping
    BY <1>0, <1>1, <1>2, NodesFacts, Zenon
  <1>3. ASSUME NEW p \in Popping
        PROVE  Nodes \in Seq(Waiters) /\ \A i \in DOMAIN Nodes : Good(Nodes[i])
    <2>1. next[p] \in Waiters /\ Good(next[p])
      BY PoppingFacts, Zenon
    <2>2. Nodes = << next[p] >> \o queue
      BY NodesFacts, Zenon
    <2> HIDE DEF Good
    <2> DEFINE w == next[p]
    <2>3. w \in Waiters /\ Good(w) /\ Nodes = << w >> \o queue
      BY <2>1, <2>2, Zenon
    <2> HIDE DEF w
    <2> QED
      BY <1>0, <1>1, <2>3
  <1> QED
    BY <1>2, <1>3, Zenon

\* The line is the owners of its nodes, in their order.
LEMMA LineFacts ==
    LaneInv => /\ Line \in Seq(Claimants)
               /\ Len(Line) = Len(Nodes)
               /\ \A i \in DOMAIN Nodes : waiter[Line[i]] = Nodes[i]
  <1> SUFFICES ASSUME LaneInv
               PROVE  /\ Line \in Seq(Claimants)
                      /\ Len(Line) = Len(Nodes)
                      /\ \A i \in DOMAIN Nodes : waiter[Line[i]] = Nodes[i]
    BY Zenon
  <1>1. \A i \in DOMAIN Nodes : OwnerOf(Nodes[i]) \in Claimants
                                /\ waiter[OwnerOf(Nodes[i])] = Nodes[i]
    BY WaitingFacts, Zenon DEF OwnerOf
  <1>2. Nodes \in Seq(Waiters)
    BY WaitingFacts, Zenon
  <1>3. DOMAIN Nodes = 1 .. Len(Nodes) /\ Len(Nodes) \in Nat
    BY <1>2
  <1>4. Line \in [1 .. Len(Nodes) -> Claimants]
    BY <1>1, <1>3, Zenon DEF Line
  <1>5. Line \in Seq(Claimants) /\ Len(Line) = Len(Nodes)
    BY <1>3, <1>4
  <1> QED
    BY <1>1, <1>5, Zenon DEF Line

\* No other sequence of claims has these nodes.
LEMMA LineIs ==
    LaneInv => \A s \in Seq(Claimants) :
                 Len(s) = Len(Nodes) /\ (\A i \in DOMAIN s : waiter[s[i]] = Nodes[i])
                   => Line = s
  <1> SUFFICES ASSUME LaneInv, NEW s \in Seq(Claimants), Len(s) = Len(Nodes),
                      \A i \in DOMAIN s : waiter[s[i]] = Nodes[i]
               PROVE  Line = s
    BY Zenon
  <1>1. Nodes \in Seq(Waiters)
    BY WaitingFacts, Zenon
  <1>2. DOMAIN s = DOMAIN Nodes
    BY <1>1
  <1>3. \A i \in DOMAIN s : s[i] \in Claimants /\ Nodes[i] \in Waiters
    BY <1>1, <1>2
  <1>4. \A i \in DOMAIN s : OwnerOf(Nodes[i]) = s[i]
    <2> TAKE i \in DOMAIN s
    <2>1. waiter[s[i]] # NoWaiter /\ s[i] \in Claimants
      BY <1>3, NoWaiterAssumption, Zenon
    <2> QED
      BY <2>1, OwnerFacts, Zenon
  <1>5. Line = [i \in DOMAIN s |-> s[i]]
    BY <1>2, <1>4, Zenon DEF Line
  <1> QED
    BY <1>5

\* The same facts about the state a step leads to.
LEMMA PrimedFacts ==
    /\ LaneInv' => /\ \A p \in Claimants : Reserves(p)' => Holder' = p
                   /\ (\A p \in Claimants : ~Reserves(p)') => Holder' = NoClaimant
    /\ LaneInv' => /\ (\A p \in Claimants : p \notin Popping') => Nodes' = queue'
                   /\ \A p \in Popping' : Nodes' = << next'[p] >> \o queue'
    /\ LaneInv' => \A s \in Seq(Claimants) :
                     Len(s) = Len(Nodes') /\ (\A i \in DOMAIN s : waiter'[s[i]] = Nodes'[i])
                       => Line' = s
  <1>1. (LaneInv => /\ \A p \in Claimants : Reserves(p) => Holder = p
                    /\ (\A p \in Claimants : ~Reserves(p)) => Holder = NoClaimant)'
    BY HolderFacts, PTL
  <1>2. (LaneInv => /\ (\A p \in Claimants : p \notin Popping) => Nodes = queue
                    /\ \A p \in Popping : Nodes = << next[p] >> \o queue)'
    BY NodesFacts, PTL
  <1>3. (LaneInv => \A s \in Seq(Claimants) :
                      Len(s) = Len(Nodes) /\ (\A i \in DOMAIN s : waiter[s[i]] = Nodes[i])
                        => Line = s)'
    BY LineIs, PTL
  <1> QED
    BY <1>1, <1>2, <1>3, Zenon

-------------------------------------------------------------------------------
(* Steps that leave holder and line alone *)

LEMMA SameNodes ==
    Popping' = Popping /\ UNCHANGED <<queue, next>> => Nodes' = Nodes
  BY DEF Nodes

\* Nobody begins or ends to hold, the nodes in line and their owners stay.
LEMMA Stutters ==
    ASSUME LaneInv, LaneInv',
           \A p \in Claimants : Reserves(p)' <=> Reserves(p),
           Nodes' = Nodes,
           \A p \in Claimants : \A i \in DOMAIN Nodes :
                waiter[p] = Nodes[i] => waiter'[p] = waiter[p]
    PROVE  UNCHANGED <<Holder, Line>>
  <1>1. Holder' = Holder
    BY HolderFacts, PrimedFacts, Zenon
  <1>2. Line' = Line
    <2>1. Line \in Seq(Claimants) /\ Len(Line) = Len(Nodes')
      BY LineFacts, Zenon
    <2>2. DOMAIN Line = DOMAIN Nodes /\ \A i \in DOMAIN Line : Line[i] \in Claimants
      <3>1. DOMAIN Line = DOMAIN Nodes
        BY Zenon DEF Line
      <3>2. \A i \in DOMAIN Line : Line[i] \in Claimants
        BY <2>1
      <3> QED
        BY <3>1, <3>2, Zenon
    <2>3. \A i \in DOMAIN Line : waiter'[Line[i]] = Nodes'[i]
      BY <2>2, LineFacts, Zenon
    <2> QED
      BY <2>1, <2>3, PrimedFacts, Zenon
  <1> QED
    BY <1>1, <1>2, Zenon

\* QueueRef::enqueue has only locked and loaded.
LEMMA EnqueueLoadQuiet ==
    ASSUME LaneInv, LaneInv', NEW p \in Claimants, EnqueueLoad(p)
    PROVE  UNCHANGED <<Holder, Line>>
  <1> USE DEF Place, Enqueueing, Suspended, Releasing, Goto, EnqueueLoad
  <1>1. Popping' = Popping /\ UNCHANGED <<queue, next, waiter>>
    BY Zenon DEF LaneInv, TypeOK, Popping
  <1>2. \A q \in Claimants : Reserves(q)' <=> Reserves(q)
    BY Zenon DEF LaneInv, TypeOK, Reserves
  <1> QED
    BY <1>1, <1>2, SameNodes, Stutters, Zenon

\* A waker is stored.
LEMMA RegisterQuiet ==
    ASSUME LaneInv, LaneInv', NEW p \in Claimants, Register(p)
    PROVE  UNCHANGED <<Holder, Line>>
  <1> USE DEF Place, Enqueueing, Suspended, Releasing, Goto, Register
  <1>1. Popping' = Popping /\ UNCHANGED <<queue, next, waiter>>
    BY Zenon DEF LaneInv, TypeOK, Popping
  <1>2. \A q \in Claimants : Reserves(q)' <=> Reserves(q)
    BY Zenon DEF LaneInv, TypeOK, Reserves
  <1> QED
    BY <1>1, <1>2, SameNodes, Stutters, Zenon

\* A waiting claim is polled.
LEMMA PollQuiet ==
    ASSUME LaneInv, LaneInv', NEW p \in Claimants, Poll(p)
    PROVE  UNCHANGED <<Holder, Line>>
  <1> USE DEF Place, Enqueueing, Suspended, Releasing, Goto, Poll
  <1>1. Popping' = Popping /\ UNCHANGED <<queue, next, waiter>>
    BY Zenon DEF LaneInv, TypeOK, Popping
  <1>2. \A q \in Claimants : Reserves(q)' <=> Reserves(q)
    BY Zenon DEF LaneInv, TypeOK, Reserves
  <1> QED
    BY <1>1, <1>2, SameNodes, Stutters, Zenon

\* Likewise for another event's sake.
LEMMA SpuriousPollQuiet ==
    ASSUME LaneInv, LaneInv', NEW p \in Claimants, SpuriousPoll(p)
    PROVE  UNCHANGED <<Holder, Line>>
  <1> USE DEF Place, Enqueueing, Suspended, Releasing, Goto, SpuriousPoll
  <1>1. Popping' = Popping /\ UNCHANGED <<queue, next, waiter>>
    BY Zenon DEF LaneInv, TypeOK, Popping
  <1>2. \A q \in Claimants : Reserves(q)' <=> Reserves(q)
    BY Zenon DEF LaneInv, TypeOK, Reserves
  <1> QED
    BY <1>1, <1>2, SameNodes, Stutters, Zenon

\* A cancelled claim waits until it has withdrawn.
LEMMA CancelQuiet ==
    ASSUME LaneInv, LaneInv', NEW p \in Claimants, Cancel(p)
    PROVE  UNCHANGED <<Holder, Line>>
  <1> USE DEF Place, Enqueueing, Suspended, Releasing, Goto, Cancel
  <1>1. Popping' = Popping /\ UNCHANGED <<queue, next, waiter>>
    BY Zenon DEF LaneInv, TypeOK, Popping
  <1>2. \A q \in Claimants : Reserves(q)' <=> Reserves(q)
    BY Zenon DEF LaneInv, TypeOK, Reserves
  <1> QED
    BY <1>1, <1>2, SameNodes, Stutters, Zenon

\* The last withdrawal restores the word.
LEMMA WithdrawStoreQuiet ==
    ASSUME LaneInv, LaneInv', NEW p \in Claimants, WithdrawStore(p)
    PROVE  UNCHANGED <<Holder, Line>>
  <1> USE DEF Place, Enqueueing, Suspended, Releasing, Goto, WithdrawStore
  <1>1. Popping' = Popping /\ UNCHANGED <<queue, next, waiter>>
    BY Zenon DEF LaneInv, TypeOK, Popping
  <1>2. \A q \in Claimants : Reserves(q)' <=> Reserves(q)
    BY Zenon DEF LaneInv, TypeOK, Reserves
  <1> QED
    BY <1>1, <1>2, SameNodes, Stutters, Zenon

\* A dropped guard holds the lane until it is released.
LEMMA DropGuardQuiet ==
    ASSUME LaneInv, LaneInv', NEW p \in Claimants, DropGuard(p)
    PROVE  UNCHANGED <<Holder, Line>>
  <1> USE DEF Place, Enqueueing, Suspended, Releasing, Goto, DropGuard
  <1>1. Popping' = Popping /\ UNCHANGED <<queue, next, waiter>>
    BY Zenon DEF LaneInv, TypeOK, Popping
  <1>2. \A q \in Claimants : Reserves(q)' <=> Reserves(q)
    BY Zenon DEF LaneInv, TypeOK, Reserves
  <1> QED
    BY <1>1, <1>2, SameNodes, Stutters, Zenon

\* A fresh node is in nobody's line.
LEMMA StartEnqueuesQuiet ==
    ASSUME LaneInv, LaneInv', NEW p \in Claimants, StartEnqueues(p)
    PROVE  UNCHANGED <<Holder, Line>>
  <1> USE NoWaiterAssumption DEF Place, Enqueueing, Suspended, Releasing, Goto
  <1>0. /\ pc[p] = "idle" /\ pc' = [pc EXCEPT ![p] = "enqueue"]
        /\ UNCHANGED <<queue, next>>
    BY Zenon DEF StartEnqueues
  <1>a. PICK w \in Waiters :
          /\ \A q \in Claimants : waiter[q] # w /\ next[q] # w
          /\ waiter' = [waiter EXCEPT ![p] = w]
          /\ granted' = [granted EXCEPT ![w] = FALSE]
    BY ZenonT(60) DEF Unreferenced, StartEnqueues
  <1>b. waiter[p] = NoWaiter
    BY <1>0, Zenon DEF LaneInv, WaiterInv
  <1>1. Popping' = Popping
    BY <1>0, Zenon DEF LaneInv, TypeOK, Popping
  <1>2. \A q \in Claimants : Reserves(q)' <=> Reserves(q)
    BY <1>0, <1>a DEF LaneInv, TypeOK, WaiterInv, Reserves
  <1>3. \A q \in Claimants : \A i \in DOMAIN Nodes :
            waiter[q] = Nodes[i] => waiter'[q] = waiter[q]
    <2>1. \A i \in DOMAIN Nodes : Nodes[i] # NoWaiter
      <3>1. Nodes \in Seq(Waiters)
        BY WaitingFacts, Zenon
      <3>2. \A i \in DOMAIN Nodes : Nodes[i] \in Waiters
        BY <3>1
      <3> QED
        BY <3>2, Zenon
    <2>2. \A q \in Claimants \ {p} : waiter'[q] = waiter[q]
      BY <1>a, Zenon DEF LaneInv, TypeOK
    <2> QED
      BY <1>b, <2>1, <2>2, Zenon
  <1> QED
    BY <1>0, <1>1, <1>2, <1>3, SameNodes, Stutters, Zenon

\* Polling Ready turns a reservation into a guard, Pending changes nothing.
LEMMA CheckQuiet ==
    ASSUME LaneInv, LaneInv', NEW p \in Claimants, Check(p)
    PROVE  UNCHANGED <<Holder, Line>>
  <1> USE NoWaiterAssumption DEF Place, Enqueueing, Suspended, Releasing, Goto
  <1>0. pc[p] = "check" /\ UNCHANGED <<queue, next>>
    BY Zenon DEF Check
  <1>w. waiter[p] \in Waiters
    BY <1>0, Zenon DEF LaneInv, TypeOK, WaiterInv
  <1>1. CASE granted[waiter[p]]
    <2>0. /\ pc' = [pc EXCEPT ![p] = "owner"]
          /\ waiter' = [waiter EXCEPT ![p] = NoWaiter]
          /\ DropArc(waiter[p], PoppedBy(waiter[p]) # {})
      BY <1>1, Zenon DEF Check
    <2>1. Popping' = Popping
      BY <1>0, <2>0, Zenon DEF LaneInv, TypeOK, Popping
    <2>2. \A v \in Waiters \ {waiter[p]} : granted'[v] = granted[v]
      BY <1>w, <2>0, DropArcFacts, Zenon DEF LaneInv
    <2>3. \A q \in Claimants \ {p} : waiter'[q] = waiter[q] /\ pc'[q] = pc[q]
      BY <2>0, Zenon DEF LaneInv, TypeOK
    <2>4. \A q \in Claimants \ {p} : pc[q] \in Suspended => waiter[q] \in Waiters \ {waiter[p]}
      BY <1>w, Zenon DEF LaneInv, TypeOK, WaiterInv
    <2>5. \A q \in Claimants : Reserves(q)' <=> Reserves(q)
      <3>1. Reserves(p) /\ Reserves(p)'
        BY <1>0, <1>1, <2>0, Zenon DEF LaneInv, TypeOK, Reserves
      <3>2. \A q \in Claimants \ {p} : Reserves(q)' <=> Reserves(q)
        BY <2>2, <2>3, <2>4, Zenon DEF Reserves
      <3> QED
        BY <3>1, <3>2, Zenon
    <2>6. \A q \in Claimants : \A i \in DOMAIN Nodes :
              waiter[q] = Nodes[i] => waiter'[q] = waiter[q]
      BY <1>1, <2>3, WaitingFacts, Zenon
    <2> QED
      BY <1>0, <2>1, <2>5, <2>6, SameNodes, Stutters, Zenon
  <1>2. CASE ~granted[waiter[p]]
    <2>0. pc' = [pc EXCEPT ![p] = "parked"] /\ UNCHANGED <<waiter, granted>>
      BY <1>2, Zenon DEF Check
    <2>1. Popping' = Popping
      BY <1>0, <2>0, Zenon DEF LaneInv, TypeOK, Popping
    <2>2. \A q \in Claimants : Reserves(q)' <=> Reserves(q)
      BY <1>0, <2>0, Zenon DEF LaneInv, TypeOK, Reserves
    <2> QED
      BY <1>0, <2>0, <2>1, <2>2, SameNodes, Stutters, Zenon
  <1> QED
    BY <1>1, <1>2, Zenon

\* A wake drops the last Arc only of a node that no claim owns.
LEMMA WakeQuiet ==
    ASSUME LaneInv, LaneInv', NEW p \in Claimants, Wake(p)
    PROVE  UNCHANGED <<Holder, Line>>
  <1> USE NoWaiterAssumption DEF Place, Enqueueing, Suspended, Releasing, Goto
  <1>0. /\ pc[p] = "wake" /\ pc' = [pc EXCEPT ![p] = "idle"]
        /\ next' = [next EXCEPT ![p] = NoWaiter]
        /\ granted' = [granted EXCEPT ![next[p]] =
                          @ /\ \E q \in Claimants : waiter[q] = next[p]]
        /\ UNCHANGED <<queue, waiter>>
    BY Zenon DEF Wake
  <1>1. Popping' = Popping /\ \A q \in Popping : next'[q] = next[q]
    BY <1>0, Zenon DEF LaneInv, TypeOK, Popping
  <1>2. \A q \in Claimants : waiter[q] \in Waiters => granted'[waiter[q]] = granted[waiter[q]]
    <2> TAKE q \in Claimants
    <2>1. CASE waiter[q] = next[p]
      <3>1. waiter[q] \in Waiters => granted'[waiter[q]] = (granted[waiter[q]] /\ TRUE)
        BY <1>0, <2>1, Zenon DEF LaneInv, TypeOK
      <3>2. waiter[q] \in Waiters => granted[waiter[q]] \in BOOLEAN
        BY Zenon DEF LaneInv, TypeOK
      <3> QED
        BY <3>1, <3>2
    <2>2. CASE waiter[q] # next[p]
      BY <1>0, <2>2, Zenon DEF LaneInv, TypeOK
    <2> QED
      BY <2>1, <2>2, Zenon
  <1>3. \A q \in Claimants : pc[q] \in Suspended => waiter[q] \in Waiters
    BY Zenon DEF LaneInv, TypeOK, WaiterInv
  <1>4. \A q \in Claimants : Reserves(q)' <=> Reserves(q)
    <2>1. ~Reserves(p) /\ ~Reserves(p)'
      BY <1>0, Zenon DEF LaneInv, TypeOK, Reserves
    <2>2. \A q \in Claimants \ {p} : pc'[q] = pc[q]
      BY <1>0, Zenon DEF LaneInv, TypeOK
    <2>3. \A q \in Claimants \ {p} : Reserves(q)' <=> Reserves(q)
      BY <1>0, <1>2, <1>3, <2>2, Zenon DEF Reserves
    <2> QED
      BY <2>1, <2>3, Zenon
  <1>5. Nodes' = Nodes
    <2>1. CASE \A q \in Claimants : q \notin Popping
      BY <1>0, <1>1, <2>1, NodesFacts, PrimedFacts, Zenon
    <2>2. ASSUME NEW q \in Popping
          PROVE  Nodes' = Nodes
      <3>1. Nodes = << next[q] >> \o queue
        BY NodesFacts, Zenon
      <3>2. Nodes' = << next'[q] >> \o queue'
        BY <1>1, PrimedFacts, Zenon
      <3> QED
        BY <1>0, <1>1, <3>1, <3>2, Zenon
    <2> QED
      BY <2>1, <2>2, Zenon
  <1> QED
    BY <1>0, <1>4, <1>5, Stutters, Zenon

\* Popping moves the oldest waiter from the queue to the front of it.
LEMMA HandoffPopQuiet ==
    ASSUME LaneInv, LaneInv', NEW p \in Claimants, HandoffPop(p)
    PROVE  UNCHANGED <<Holder, Line>>
  <1> USE NoClaimantAssumption, NoWaiterAssumption
      DEF Place, Enqueueing, Suspended, Releasing, Goto
  <1>0. /\ pc[p] = "handoff" /\ pc' = [pc EXCEPT ![p] = "handoff_store"]
        /\ mutex = NoClaimant
        /\ UNCHANGED <<waiter, granted>>
    BY Zenon DEF HandoffPop
  <1>1. \A q \in Claimants : Reserves(q)' <=> Reserves(q)
    BY <1>0, Zenon DEF LaneInv, TypeOK, Reserves
  <1>2. Nodes = queue
    BY <1>0, PoppingFacts, NodesFacts, Zenon
  <1>3. Nodes' = queue
    <2>1. CASE queue = << >>
      <3>1. UNCHANGED <<queue, next>>
        BY <2>1, Zenon DEF HandoffPop
      <3>2. next[p] = NoWaiter
        BY <1>0, Zenon DEF LaneInv, NextInv
      <3>3. \A q \in Claimants : q \notin Popping'
        <4>1. p \notin Popping'
          BY <3>1, <3>2, Zenon DEF Popping
        <4>2. \A q \in Claimants \ {p} : pc'[q] = pc[q]
          BY <1>0, Zenon DEF LaneInv, TypeOK
        <4>3. \A q \in Claimants \ {p} : q \notin Popping'
          BY <1>0, <3>1, <4>2, PoppingFacts, Zenon DEF Popping
        <4> QED
          BY <4>1, <4>3, Zenon
      <3> QED
        BY <3>1, <3>3, PrimedFacts, Zenon
    <2>2. CASE queue # << >>
      <3>1. next' = [next EXCEPT ![p] = Head(queue)] /\ queue' = Tail(queue)
        BY <2>2, Zenon DEF HandoffPop
      <3>2. queue \in Seq(Waiters) /\ IsInjective(queue)
        BY Zenon DEF LaneInv, TypeOK, QueueInv
      <3>3. Head(queue) \in Waiters
        BY <2>2, <3>2, PopFacts, Zenon
      <3>4. p \in Popping' /\ next'[p] = Head(queue)
        BY <1>0, <3>1, <3>3, Zenon DEF LaneInv, TypeOK, Popping
      <3>5. Nodes' = << Head(queue) >> \o Tail(queue)
        BY <3>1, <3>4, PrimedFacts, Zenon
      <3>6. << Head(queue) >> \o Tail(queue) = queue
        BY <2>2, <3>2, HeadTailProperties
      <3> QED
        BY <3>5, <3>6, Zenon
    <2> QED
      BY <2>1, <2>2, Zenon
  <1> QED
    BY <1>0, <1>1, <1>2, <1>3, Stutters, Zenon

-------------------------------------------------------------------------------
(* Steps of the lock *)

\* Nobody holds, nobody waits.
LEMMA FreeLane ==
    LaneInv /\ gate = "Free" => Holder = NoClaimant /\ Nodes = << >> /\ Line = << >>
  <1> SUFFICES ASSUME LaneInv, gate = "Free"
               PROVE  Holder = NoClaimant /\ Nodes = << >> /\ Line = << >>
    BY Zenon
  <1>1. \A q \in Claimants : ~Reserves(q)
    BY Zenon DEF LaneInv, FreeIffUnreserved
  <1>2. \A q \in Claimants : q \notin Popping
    BY <1>1, PoppingFacts, Zenon
  <1>3. queue = << >>
    BY Zenon DEF LaneInv, GateInv
  <1>4. Holder = NoClaimant /\ Nodes = << >>
    BY <1>1, <1>2, <1>3, HolderFacts, NodesFacts, Zenon
  <1>5. Line \in Seq(Claimants) /\ Len(Line) = 0
    BY <1>4, LineFacts
  <1>6. Line = << >>
    BY <1>5
  <1> QED
    BY <1>4, <1>6, Zenon

\* One claimant takes a free lane.
LEMMA Takes ==
    ASSUME LaneInv, LaneInv', NEW p \in Claimants, gate = "Free",
           pc' = [pc EXCEPT ![p] = "owner"],
           pc[p] \notin {"handoff_store", "handoff_grant"},
           UNCHANGED <<queue, next>>
    PROVE  Abstract!Take(p)
  <1>1. Holder = NoClaimant /\ Nodes = << >> /\ Line = << >>
    BY FreeLane, Zenon
  <1>2. Popping' = Popping
    BY Zenon DEF LaneInv, TypeOK, Popping
  <1>3. Nodes' = << >>
    BY <1>1, <1>2, SameNodes, Zenon
  <1>4. Holder' = p
    <2>1. Reserves(p)'
      BY Zenon DEF LaneInv, TypeOK, Reserves
    <2> QED
      BY <2>1, PrimedFacts, Zenon
  <1>5. Line' = << >>
    <2>1. << >> \in Seq(Claimants) /\ DOMAIN << >> = {}
      OBVIOUS
    <2> QED
      BY <1>3, <2>1, PrimedFacts, Zenon
  <1> QED
    BY <1>1, <1>4, <1>5, Zenon DEF Abstract!Take

\* The holder of a lane nobody waits for leaves it.
LEMMA Leaves ==
    ASSUME LaneInv, LaneInv', NEW p \in Claimants, gate' = "Free",
           Reserves(p), Nodes = << >>
    PROVE  Abstract!Pass
  <1>1. Holder = p /\ Holder # NoClaimant
    BY HolderFacts, NoClaimantAssumption, Zenon
  <1>2. Line \in Seq(Claimants) /\ Len(Line) = 0
    BY LineFacts
  <1>3. Line = << >>
    BY <1>2
  <1>4. (LaneInv /\ gate = "Free" => Holder = NoClaimant /\ Nodes = << >> /\ Line = << >>)'
    BY FreeLane, PTL
  <1> QED
    BY <1>1, <1>3, <1>4, Zenon DEF Abstract!Pass

\* LaneAcquisition::start and try_lock take only a lane nobody waits for.
LEMMA ClaimTakes ==
    ASSUME LaneInv, LaneInv', NEW p \in Claimants, Claim(p)
    PROVE  Abstract!Take(p)
  BY Takes, Zenon DEF Claim, Goto

\* QueueRef::enqueue takes a lane it finds free, or changes nothing yet.
LEMMA EnqueueCasRefines ==
    ASSUME LaneInv, LaneInv', NEW p \in Claimants, EnqueueCas(p)
    PROVE  Abstract!Take(p) \/ UNCHANGED <<Holder, Line>>
  <1>0. pc[p] = "enqueue_cas" /\ UNCHANGED <<queue, next, granted>>
    BY Zenon DEF EnqueueCas
  <1>1. CASE gate = "Free" /\ pc' = [pc EXCEPT ![p] = "owner"]
    BY <1>0, <1>1, Takes, Zenon
  <1>2. CASE UNCHANGED waiter /\ (pc' = [pc EXCEPT ![p] = "enqueue_push"]
                                  \/ pc' = [pc EXCEPT ![p] = "enqueue"])
    <2>1. Popping' = Popping
      BY <1>0, <1>2, Zenon DEF LaneInv, TypeOK, Popping
    <2>2. \A q \in Claimants : Reserves(q)' <=> Reserves(q)
      BY <1>0, <1>2 DEF LaneInv, TypeOK, Reserves, Releasing, Suspended
    <2> QED
      BY <1>0, <1>2, <2>1, <2>2, SameNodes, Stutters, Zenon
  <1> QED
    BY <1>1, <1>2, Zenon DEF EnqueueCas, Goto

\* push_back joins the line behind everybody in it.
LEMMA EnqueuePushJoins ==
    ASSUME LaneInv, LaneInv', NEW p \in Claimants, EnqueuePush(p)
    PROVE  Abstract!Join(p)
  <1> USE NoClaimantAssumption, NoWaiterAssumption
      DEF Place, Enqueueing, Suspended, Releasing, Goto
  <1>0. /\ pc[p] = "enqueue_push" /\ pc' = [pc EXCEPT ![p] = "register"]
        /\ queue' = Append(queue, waiter[p])
        /\ UNCHANGED <<next, waiter, granted>>
    BY Zenon DEF EnqueuePush
  <1>w. waiter[p] \in Waiters /\ ~granted[waiter[p]] /\ mutex = p /\ gate = "Queued"
    BY <1>0 DEF LaneInv, TypeOK, WaiterInv, MutexInv, GateInv
  <1>1. \A q \in Claimants : q \notin Popping /\ q \notin Popping'
    <2>1. \A q \in Claimants : q \notin Popping
      BY <1>0, <1>w, PoppingFacts, Zenon DEF Popping
    <2>2. Popping' = Popping
      BY <1>0, Zenon DEF LaneInv, TypeOK, Popping
    <2> QED
      BY <2>1, <2>2, Zenon
  <1>2. Nodes = queue /\ Nodes' = Append(queue, waiter[p])
    BY <1>0, <1>1, NodesFacts, PrimedFacts, Zenon
  <1>3. \A q \in Claimants : Reserves(q)' <=> Reserves(q)
    BY <1>0, <1>w, Zenon DEF LaneInv, TypeOK, Reserves
  <1>4. Holder' = Holder
    BY <1>3, HolderFacts, PrimedFacts, Zenon
  <1>5. Holder # NoClaimant /\ p # Holder
    <2>1. \E q \in Claimants : Reserves(q)
      BY <1>w, Zenon DEF LaneInv, FreeIffUnreserved
    <2>2. ~Reserves(p)
      BY <1>0, Zenon DEF Reserves
    <2> QED
      BY <2>1, <2>2, HolderFacts, Zenon
  <1>6. Line \in Seq(Claimants) /\ Len(Line) = Len(queue) /\ queue \in Seq(Waiters)
        /\ \A i \in DOMAIN queue : waiter[Line[i]] = queue[i]
    BY <1>2, LineFacts, Zenon DEF LaneInv, TypeOK
  <1>7. \A i \in DOMAIN Line : Line[i] # p
    <2>1. waiter[p] \notin Range(queue)
      BY <1>0, <1>w DEF LaneInv, QueueInv, WaiterInv
    <2>2. DOMAIN Line = DOMAIN queue
      BY <1>6
    <2> QED
      BY <1>6, <2>1, <2>2, Zenon DEF Range
  <1>8. Line' = Append(Line, p)
    <2> DEFINE l == Append(Line, p)
               n == Append(queue, waiter[p])
    <2>1. l \in Seq(Claimants) /\ Len(l) = Len(n)
      BY <1>6
    <2>2. \A i \in DOMAIN l : waiter[l[i]] = n[i]
      BY <1>6
    <2> HIDE DEF l, n
    <2>3. Nodes' = n
      BY <1>2, Zenon DEF n
    <2>4. Line' = l
      BY <1>0, <2>1, <2>2, <2>3, PrimedFacts, Zenon
    <2> QED
      BY <2>4, Zenon DEF l
  <1> QED
    BY <1>4, <1>5, <1>7, <1>8, Zenon DEF Abstract!Join

\* A waiter that was granted before it withdrew holds the lane; another leaves the
\* line from wherever it stands in it.
LEMMA WithdrawRefines ==
    ASSUME LaneInv, LaneInv', NEW p \in Claimants, Withdraw(p)
    PROVE  Abstract!Leave(p) \/ UNCHANGED <<Holder, Line>>
  <1> USE NoClaimantAssumption, NoWaiterAssumption
      DEF Place, Enqueueing, Suspended, Releasing, Goto
  <1>0. /\ pc[p] = "withdraw" /\ mutex = NoClaimant
        /\ waiter' = [waiter EXCEPT ![p] = NoWaiter]
        /\ DropArc(waiter[p], PoppedBy(waiter[p]) # {})
        /\ UNCHANGED next
    BY Zenon DEF Withdraw
  <1>w. waiter[p] \in Waiters
    BY <1>0, Zenon DEF LaneInv, TypeOK, WaiterInv
  <1>p. PICK x \in {"release", "withdraw_store", "idle"} : pc' = [pc EXCEPT ![p] = x]
    BY Zenon DEF Withdraw
  <1>1. \A q \in Claimants : q \notin Popping /\ q \notin Popping'
    <2>1. \A q \in Claimants : q \notin Popping
      BY <1>0, PoppingFacts, Zenon DEF Popping
    <2>2. Popping' = Popping
      BY <1>0, <1>p, Zenon DEF LaneInv, TypeOK, Popping
    <2> QED
      BY <2>1, <2>2, Zenon
  <1>2. Nodes = queue /\ Nodes' = queue'
    BY <1>1, NodesFacts, PrimedFacts, Zenon
  <1>3. \A q \in Claimants \ {p} : waiter'[q] = waiter[q] /\ pc'[q] = pc[q]
    BY <1>0, <1>p, Zenon DEF LaneInv, TypeOK
  <1>4. \A q \in Claimants \ {p} : Reserves(q)' <=> Reserves(q)
    <2>1. \A v \in Waiters \ {waiter[p]} : granted'[v] = granted[v]
      BY <1>0, <1>w, DropArcFacts, Zenon DEF LaneInv
    <2>2. \A q \in Claimants \ {p} : pc[q] \in Suspended => waiter[q] \in Waiters \ {waiter[p]}
      BY <1>w, Zenon DEF LaneInv, TypeOK, WaiterInv
    <2> QED
      BY <1>3, <2>1, <2>2, Zenon DEF Reserves
  <1>5. CASE granted[waiter[p]]
    <2>1. pc' = [pc EXCEPT ![p] = "release"] /\ UNCHANGED queue
      BY <1>5, Zenon DEF Withdraw
    <2>2. Reserves(p) /\ Reserves(p)'
      BY <1>0, <1>5, <2>1, Zenon DEF LaneInv, TypeOK, Reserves
    <2>3. \A q \in Claimants : \A i \in DOMAIN Nodes :
              waiter[q] = Nodes[i] => waiter'[q] = waiter[q]
      BY <1>3, <1>5, WaitingFacts, Zenon
    <2>4. Nodes' = Nodes /\ \A q \in Claimants : Reserves(q)' <=> Reserves(q)
      BY <1>2, <1>4, <2>1, <2>2, Zenon
    <2> QED
      BY <2>3, <2>4, Stutters, Zenon
  <1>6. CASE ~granted[waiter[p]]
    <2>1. PICK i \in DOMAIN queue : queue[i] = waiter[p] /\ queue' = RemoveAt(queue, i)
      BY <1>6, Zenon DEF Withdraw
    <2>2. ~Reserves(p) /\ ~Reserves(p)'
      <3>1. pc' = [pc EXCEPT ![p] = "withdraw_store"] \/ pc' = [pc EXCEPT ![p] = "idle"]
        BY <1>6, Zenon DEF Withdraw
      <3> QED
        BY <1>0, <1>6, <3>1, Zenon DEF LaneInv, TypeOK, Reserves
    <2>3. Holder' = Holder
      BY <1>4, <2>2, HolderFacts, PrimedFacts, Zenon
    <2>4. /\ Line \in Seq(Claimants) /\ Len(Line) = Len(queue) /\ queue \in Seq(Waiters)
          /\ \A j \in DOMAIN queue : waiter[Line[j]] = queue[j]
          /\ IsInjective(queue)
      BY <1>2, LineFacts, Zenon DEF LaneInv, TypeOK, QueueInv
    <2>5. /\ DOMAIN Line = 1 .. Len(queue) /\ DOMAIN queue = 1 .. Len(queue)
          /\ Len(queue) \in Nat
          /\ \A j \in DOMAIN Line : Line[j] \in Claimants
      BY <2>4
    <2>6. Line[i] = p
      BY <1>w, <2>1, <2>4, <2>5, Zenon DEF LaneInv, WaiterInv
    <2>7. \A j \in DOMAIN Line \ {i} : Line[j] # p
      BY <2>1, <2>4, <2>5, Zenon DEF IsInjective
    <2> DEFINE l == RemoveAt(Line, i)
               n == RemoveAt(queue, i)
    <2>8. /\ l \in Seq(Claimants) /\ Len(l) = Len(queue) - 1
          /\ \A j \in 1 .. (Len(queue) - 1) : l[j] = IF j < i THEN Line[j] ELSE Line[j + 1]
      <3>1. Line \in Seq(Claimants) /\ i \in DOMAIN Line /\ Len(Line) = Len(queue)
        BY <2>4, <2>5, Zenon
      <3>2. /\ l \in Seq(Claimants) /\ Len(l) = Len(Line) - 1
            /\ \A j \in 1 .. (Len(Line) - 1) : l[j] = IF j < i THEN Line[j] ELSE Line[j + 1]
        BY <3>1, RemoveAtFacts, Zenon
      <3> HIDE DEF l
      <3> QED
        BY <3>1, <3>2, Zenon
    <2>9. /\ n \in Seq(Waiters) /\ Len(n) = Len(queue) - 1
          /\ \A j \in 1 .. (Len(queue) - 1) : n[j] = IF j < i THEN queue[j] ELSE queue[j + 1]
      BY <2>4, RemoveAtFacts, Zenon
    <2> HIDE DEF l, n
    <2>10. ASSUME NEW j \in DOMAIN l
           PROVE  waiter'[l[j]] = n[j]
      <3>1. j \in 1 .. (Len(queue) - 1) /\ j \in Int /\ i \in Int
        BY <2>5, <2>8
      <3> DEFINE k == IF j < i THEN j ELSE j + 1
      <3>2. k \in DOMAIN Line /\ k \in DOMAIN queue /\ k # i
        BY <2>5, <3>1
      <3>3. l[j] = Line[k] /\ n[j] = queue[k]
        BY <2>8, <2>9, <3>1, Zenon
      <3> HIDE DEF k
      <3>4. Line[k] \in Claimants \ {p}
        BY <2>5, <2>7, <3>2, Zenon
      <3> QED
        BY <1>3, <2>4, <3>2, <3>3, <3>4, Zenon
    <2>11. Line' = l
      <3>1. Nodes' = n
        BY <1>2, <2>1, Zenon DEF n
      <3> QED
        BY <2>8, <2>9, <2>10, <3>1, PrimedFacts, Zenon
    <2>12. i \in DOMAIN Line
      BY <2>5, Zenon
    <2>13. l = SubSeq(Line, 1, i - 1) \o SubSeq(Line, i + 1, Len(Line))
      BY Zenon DEF l, RemoveAt
    <2> QED
      BY <2>3, <2>6, <2>11, <2>12, <2>13, Zenon DEF Abstract!Leave
  <1> QED
    BY <1>5, <1>6, Zenon

\* release_ready frees a lane nobody waits for; otherwise the shard mutex is next.
LEMMA ReleaseRefines ==
    ASSUME LaneInv, LaneInv', NEW p \in Claimants, Release(p)
    PROVE  Abstract!Pass \/ UNCHANGED <<Holder, Line>>
  <1> USE DEF Place, Enqueueing, Suspended, Releasing, Goto
  <1>0. pc[p] = "release" /\ UNCHANGED <<queue, next, waiter, granted>> /\ Reserves(p)
    BY Zenon DEF Release, Reserves
  <1>1. CASE gate = "Held"
    <2>1. gate' = "Free"
      BY <1>1, Zenon DEF Release
    <2>2. queue = << >>
      BY <1>1, Zenon DEF LaneInv, GateInv
    <2>3. \A q \in Claimants : q \notin Popping
      <3>1. \A q \in Popping : q = p
        BY <1>0, PoppingFacts, Zenon DEF LaneInv, MutualExclusion
      <3>2. p \notin Popping
        BY <1>0, Zenon DEF Popping
      <3> QED
        BY <3>1, <3>2, Zenon
    <2>4. Nodes = << >>
      BY <2>2, <2>3, NodesFacts, Zenon
    <2> QED
      BY <1>0, <2>1, <2>4, Leaves, Zenon
  <1>2. CASE gate # "Held"
    <2>0. pc' = [pc EXCEPT ![p] = "handoff"]
      BY <1>2, Zenon DEF Release
    <2>1. Popping' = Popping
      BY <1>0, <2>0, Zenon DEF LaneInv, TypeOK, Popping
    <2>2. \A q \in Claimants : Reserves(q)' <=> Reserves(q)
      BY <1>0, <2>0, Zenon DEF LaneInv, TypeOK, Reserves
    <2> QED
      BY <1>0, <2>1, <2>2, SameNodes, Stutters, Zenon
  <1> QED
    BY <1>1, <1>2, Zenon

\* QueueRef::handoff frees the lane when the queue was empty, and otherwise has stored
\* the word before it grants.
LEMMA HandoffStoreRefines ==
    ASSUME LaneInv, LaneInv', NEW p \in Claimants, HandoffStore(p)
    PROVE  Abstract!Pass \/ UNCHANGED <<Holder, Line>>
  <1> USE DEF Place, Enqueueing, Suspended, Releasing, Goto
  <1>0. /\ pc[p] = "handoff_store" /\ Reserves(p)
        /\ UNCHANGED <<queue, next, waiter, granted>>
    BY Zenon DEF HandoffStore, Reserves
  <1>1. CASE next[p] = NoWaiter
    <2>1. gate' = "Free"
      BY <1>1, Zenon DEF HandoffStore
    <2>2. queue = << >>
      BY <1>0, <1>1, Zenon DEF LaneInv, GateInv
    <2>3. \A q \in Claimants : q \notin Popping
      <3>1. \A q \in Popping : q = p
        BY <1>0, PoppingFacts, Zenon DEF LaneInv, MutualExclusion
      <3>2. p \notin Popping
        BY <1>1, Zenon DEF Popping
      <3> QED
        BY <3>1, <3>2, Zenon
    <2>4. Nodes = << >>
      BY <2>2, <2>3, NodesFacts, Zenon
    <2> QED
      BY <1>0, <2>1, <2>4, Leaves, Zenon
  <1>2. CASE next[p] # NoWaiter
    <2>0. pc' = [pc EXCEPT ![p] = "handoff_grant"]
      BY <1>2, Zenon DEF HandoffStore
    <2>1. Popping' = Popping
      BY <1>0, <2>0, Zenon DEF LaneInv, TypeOK, Popping
    <2>2. \A q \in Claimants : Reserves(q)' <=> Reserves(q)
      BY <1>0, <2>0, Zenon DEF LaneInv, TypeOK, Reserves
    <2> QED
      BY <1>0, <2>1, <2>2, SameNodes, Stutters, Zenon
  <1> QED
    BY <1>1, <1>2, Zenon

\* The grant passes the lane to the oldest waiter.
LEMMA HandoffGrantPasses ==
    ASSUME LaneInv, LaneInv', NEW p \in Claimants, HandoffGrant(p)
    PROVE  Abstract!Pass
  <1> USE NoClaimantAssumption, NoWaiterAssumption
      DEF Place, Enqueueing, Suspended, Releasing, Goto
  <1>0. /\ pc[p] = "handoff_grant" /\ pc' = [pc EXCEPT ![p] = "wake"]
        /\ granted' = [granted EXCEPT ![next[p]] = TRUE]
        /\ UNCHANGED <<queue, next, waiter>>
    BY Zenon DEF HandoffGrant
  <1>1. p \in Popping /\ Reserves(p)
    BY <1>0, Zenon DEF LaneInv, NextInv, Popping, Reserves
  <1>2. PICK q \in Claimants : pc[q] \in Suspended /\ waiter[q] = next[p]
    BY <1>1, PoppingFacts, Zenon
  <1>3. next[p] \in Waiters
    BY <1>1, PoppingFacts, Zenon
  <1>4. Holder = p /\ Holder # NoClaimant
    BY <1>1, HolderFacts, Zenon
  <1>5. Holder' = q
    <2>1. pc'[q] = pc[q]
      BY <1>0, <1>2, Zenon DEF LaneInv, TypeOK
    <2>2. granted'[waiter'[q]]
      BY <1>0, <1>2, <1>3, Zenon DEF LaneInv, TypeOK
    <2>3. Reserves(q)'
      BY <1>2, <2>1, <2>2, Zenon DEF Reserves
    <2> QED
      BY <2>3, PrimedFacts, Zenon
  <1>6. Nodes = << next[p] >> \o queue
    BY <1>1, NodesFacts, Zenon
  <1>7. Nodes' = queue
    <2>1. \A r \in Popping' : r \in Popping /\ r # p
      BY <1>0, Zenon DEF LaneInv, TypeOK, Popping
    <2>2. \A r \in Popping : r = p
      BY <1>1, PoppingFacts, Zenon
    <2> QED
      BY <1>0, <2>1, <2>2, PrimedFacts, Zenon
  <1> DEFINE w == next[p]
  <1>8. w \in Waiters /\ Nodes = << w >> \o queue /\ queue \in Seq(Waiters)
    BY <1>3, <1>6, Zenon DEF LaneInv, TypeOK
  <1> HIDE DEF w
  <1>9. /\ Line \in Seq(Claimants) /\ Len(Line) = Len(Nodes)
        /\ \A i \in DOMAIN Nodes : waiter[Line[i]] = Nodes[i]
    BY LineFacts, Zenon
  <1>10. /\ Line # << >> /\ Head(Line) = Line[1] /\ 1 \in DOMAIN Nodes
         /\ Nodes[1] = w /\ Line[1] \in Claimants
    BY <1>8, <1>9
  <1>11. Head(Line) = q
    <2>1. waiter[Line[1]] = w /\ waiter[q] = w /\ w # NoWaiter
      BY <1>2, <1>8, <1>9, <1>10, Zenon DEF w
    <2>2. Line[1] = q
      BY <1>10, <2>1, OwnerFacts, Zenon
    <2> QED
      BY <1>10, <2>2, Zenon
  <1>12. Line' = Tail(Line)
    <2> DEFINE l == Tail(Line)
    <2>1. /\ l \in Seq(Claimants) /\ Len(l) = Len(queue)
          /\ \A i \in DOMAIN l : i + 1 \in DOMAIN Nodes
                                 /\ l[i] = Line[i + 1] /\ queue[i] = Nodes[i + 1]
      BY <1>8, <1>9, <1>10
    <2> HIDE DEF l
    <2>2. \A i \in DOMAIN l : waiter'[l[i]] = Nodes'[i]
      BY <1>0, <1>7, <1>9, <2>1, Zenon
    <2>3. Line' = l
      BY <1>7, <2>1, <2>2, PrimedFacts, Zenon
    <2> QED
      BY <2>3, Zenon DEF l
  <1> QED
    BY <1>4, <1>5, <1>10, <1>11, <1>12, Zenon DEF Abstract!Pass

-------------------------------------------------------------------------------
(* The refinement *)

\* Every step of ordered.rs is a step of the lock, or none.
LEMMA StepRefines ==
    ASSUME LaneInv, LaneInv', [Next]_vars
    PROVE  [Abstract!Next]_(Abstract!vars)
  <1>1. ASSUME NEW p \in Claimants, Step(p)
        PROVE  \/ Abstract!Pass \/ Abstract!Take(p) \/ Abstract!Join(p) \/ Abstract!Leave(p)
               \/ UNCHANGED <<Holder, Line>>
    <2>1. CASE Claim(p) \/ EnqueueCas(p) \/ EnqueuePush(p) \/ Withdraw(p)
      BY <2>1, ClaimTakes, EnqueueCasRefines, EnqueuePushJoins, WithdrawRefines, Zenon
    <2>2. CASE Release(p) \/ HandoffStore(p) \/ HandoffGrant(p)
      BY <2>2, ReleaseRefines, HandoffStoreRefines, HandoffGrantPasses, Zenon
    <2>3. CASE StartEnqueues(p) \/ EnqueueLoad(p) \/ HandoffPop(p) \/ WithdrawStore(p)
      BY <2>3, StartEnqueuesQuiet, EnqueueLoadQuiet, HandoffPopQuiet, WithdrawStoreQuiet,
         Zenon
    <2>4. CASE Register(p) \/ Check(p) \/ Poll(p) \/ SpuriousPoll(p)
      BY <2>4, RegisterQuiet, CheckQuiet, PollQuiet, SpuriousPollQuiet, Zenon
    <2>5. CASE Cancel(p) \/ DropGuard(p) \/ Wake(p)
      BY <2>5, CancelQuiet, DropGuardQuiet, WakeQuiet, Zenon
    <2> QED
      BY <1>1, <2>1, <2>2, <2>3, <2>4, <2>5, Zenon DEF Step
  <1>2. CASE Next
    <2>1. PICK p \in Claimants : Step(p)
      BY <1>2, Zenon DEF Next
    <2> QED
      BY <1>1, <2>1, Zenon DEF Abstract!Next, Abstract!vars
  <1>3. CASE UNCHANGED vars
    <2>1. Popping' = Popping /\ UNCHANGED <<queue, next, waiter>>
      BY <1>3, Zenon DEF vars, Popping
    <2>2. \A q \in Claimants : Reserves(q)' <=> Reserves(q)
      BY <1>3, Zenon DEF vars, Reserves
    <2>3. UNCHANGED <<Holder, Line>>
      BY <2>1, <2>2, SameNodes, Stutters, Zenon
    <2> QED
      BY <2>3, Zenon DEF Abstract!vars
  <1> QED
    BY <1>2, <1>3, Zenon

\* ordered.rs implements the first-in-first-out lock, for any number of claimants: one
\* holder, admission in the order of the pushes, a release passes to the oldest waiter in
\* one step, a withdrawal reorders nobody.
THEOREM LaneIsFifo == Spec => RefinesFifoLock
  <1>1. Init => Abstract!Init
    <2> SUFFICES ASSUME Init
                 PROVE  Abstract!Init
      BY Zenon
    <2>1. \A p \in Claimants : ~Reserves(p) /\ p \notin Popping
      BY Zenon DEF Init, Reserves, Suspended, Releasing, Popping
    <2>2. Holder = NoClaimant
      BY <2>1, Zenon DEF Holder
    <2>3. Nodes = << >>
      <3>1. Popping = {}
        BY <2>1, Zenon DEF Popping
      <3> QED
        BY <3>1, Zenon DEF Nodes, Init
    <2>4. Line = << >>
      BY <2>3 DEF Line
    <2> QED
      BY <2>2, <2>4, Zenon DEF Abstract!Init
  <1>2. LaneInv /\ LaneInv' /\ [Next]_vars => [Abstract!Next]_(Abstract!vars)
    BY StepRefines, Zenon
  <1> QED
    BY <1>1, <1>2, LaneInvariant, PTL DEF Spec, RefinesFifoLock, Abstract!Spec

===============================================================================
