-------------------------- MODULE AutoRecoveryProofs --------------------------
(***************************************************************************)
(* Proofs about the recovery queue of AutoRecovery, for any keys, any      *)
(* number of producers, drains and shutdowns, any capacity and any retry   *)
(* budget.                                                                 *)
(***************************************************************************)
EXTENDS AutoRecovery, FiniteSetTheorems, TLAPS

-------------------------------------------------------------------------------
(* Records *)

LEMMA WorkFields ==
    ASSUME NEW w \in Work
    PROVE  /\ w.key \in Keys /\ w.ts \in 0 .. MaxTime /\ w.exp \in 0 .. Never
           /\ w.gen \in 0 .. MaxGen /\ w # None
  BY NoneAssumption DEF Work

LEMMA QueuedFields ==
    ASSUME NEW q \in Queued
    PROVE  /\ q.id \in 1 .. MaxId /\ q.work \in Work /\ q.gen \in Nat
           /\ q.left \in 0 .. MaxRetries + 1 /\ q.inflight \in BOOLEAN /\ q # None
  BY NoneAssumption DEF Queued

\* The three ways a queued entry changes in place.
LEMMA QueuedUpdates ==
    ASSUME NEW q \in Queued, NEW b \in BOOLEAN
    PROVE  /\ [q EXCEPT !.inflight = b] \in Queued
           /\ [q EXCEPT !.inflight = b].id = q.id
           /\ [q EXCEPT !.inflight = b].work = q.work
           /\ [q EXCEPT !.inflight = b].left = q.left
           /\ [q EXCEPT !.inflight = b].inflight = b
           /\ [q EXCEPT !.stage = "notify"] \in Queued
           /\ [q EXCEPT !.stage = "notify"].id = q.id
           /\ [q EXCEPT !.stage = "notify"].work = q.work
           /\ [q EXCEPT !.stage = "notify"].left = q.left
           /\ [q EXCEPT !.stage = "notify"].inflight = q.inflight
  BY DEF Queued

LEMMA FailureUpdates ==
    ASSUME NEW q \in Queued, q.left - 1 \in 0 .. MaxRetries + 1
    PROVE  /\ OneLess(q) \in Queued
           /\ OneLess(q).id = q.id
           /\ OneLess(q).work = q.work
           /\ OneLess(q).left = q.left - 1
           /\ OneLess(q).inflight = FALSE
  BY Zenon DEF Queued, OneLess

DrainPlaces == {"out", "gate", "scan", "claimed", "replay", "gone"}

LEMMA DrainFields ==
    ASSUME NEW x \in DrainStates
    PROVE  /\ x.at \in DrainPlaces /\ x.keys \in SUBSET Keys
           /\ x.ticket \in Queued \cup {None}
  BY DEF DrainStates, DrainPlaces

LEMMA DrainUpdates ==
    ASSUME NEW x \in DrainStates, NEW a \in DrainPlaces, NEW K \in SUBSET Keys
    PROVE  /\ [x EXCEPT !.at = a] \in DrainStates
           /\ [x EXCEPT !.at = a].at = a
           /\ [x EXCEPT !.at = a].ticket = x.ticket
           /\ [x EXCEPT !.keys = K] \in DrainStates
           /\ [x EXCEPT !.keys = K].at = x.at
           /\ [x EXCEPT !.keys = K].ticket = x.ticket
  BY DEF DrainStates, DrainPlaces

LEMMA ScanUpdates ==
    ASSUME NEW x \in DrainStates, NEW K \in SUBSET Keys
    PROVE  /\ [x EXCEPT !.at = "scan", !.keys = K] \in DrainStates
           /\ [x EXCEPT !.at = "scan", !.keys = K].at = "scan"
           /\ [x EXCEPT !.at = "scan", !.keys = K].ticket = x.ticket
  BY Zenon DEF DrainStates

LEMMA TicketUpdates ==
    ASSUME NEW x \in DrainStates, NEW t \in Queued \cup {None}
    PROVE  /\ [x EXCEPT !.ticket = t] \in DrainStates
           /\ [x EXCEPT !.ticket = t].at = x.at
           /\ [x EXCEPT !.ticket = t].ticket = t
  BY DEF DrainStates

LEMMA EndUpdates ==
    ASSUME NEW x \in DrainStates
    PROVE  /\ [x EXCEPT !.at = "scan", !.ticket = None] \in DrainStates
           /\ [x EXCEPT !.at = "scan", !.ticket = None].at = "scan"
           /\ [x EXCEPT !.at = "scan", !.ticket = None].ticket = None
  BY Zenon DEF DrainStates

LEMMA NewDrains ==
    ASSUME NEW a \in DrainPlaces, NEW K \in SUBSET Keys, NEW t \in Queued \cup {None}
    PROVE  /\ [at |-> a, keys |-> K, ticket |-> t] \in DrainStates
           /\ Resting(a) \in DrainStates /\ Resting(a).at = a /\ Resting(a).ticket = None
  BY DEF DrainStates, DrainPlaces, Resting

LEMMA KeysFinite == IsFiniteSet(Keys) /\ IsFiniteSet(Pending) /\ Cardinality(Pending) \in Nat
  <1>1. IsFiniteSet(Keys)
    BY RecoveryAssumption, Zenon DEF Keys
  <1>2. Pending \in SUBSET Keys
    BY Zenon DEF Pending
  <1> QED
    BY <1>1, <1>2, FS_Subset, FS_CardinalityType, Zenon

-------------------------------------------------------------------------------
(* Steps that leave a part alone *)

LEMMA SameTickets ==
    TicketsInv /\ UNCHANGED <<queue, nextId, failed, drain>> => TicketsInv'
  BY DEF TicketsInv, EntryInv, UniqueIds, FailedInv, TicketInv, Attempting, OneAttempt,
         InFlightIsHeld, Pending

LEMMA SameOwnership ==
    OwnershipInv /\ ShutdownJoins /\ UNCHANGED ownership => OwnershipInv' /\ ShutdownJoins'
  BY DEF OwnershipInv, ShutdownJoins, ownership

LEMMA SameQueue ==
    StoppedStaysEmpty /\ Bounded /\ UNCHANGED <<queue, taken>> => StoppedStaysEmpty' /\ Bounded'
  BY DEF StoppedStaysEmpty, Bounded, Pending

LEMMA SameRequests == ReqInv /\ UNCHANGED req => ReqInv'
  BY DEF ReqInv

\* The connection, the barrier and the health snapshot say nothing about the queue.
LEMMA HealthStep ==
    ASSUME ServiceInv, UNCHANGED <<admission, ownership, lane, now, req, drain>>,
           barrier' \in {"Ready", "Disconnected", "After"},
           conn' \in Conns, ConnInv',
           seen' \in Conns, look' \in [Callers -> Conns \cup {None}],
           lag' \in BOOLEAN, events' \in 0 .. MaxEvents
    PROVE  ServiceInv'
  <1>1. UNCHANGED <<queue, nextId, failed, drain, taken, req>>
    BY Zenon DEF admission, ownership
  <1>2. TypeOK'
    BY Zenon DEF ServiceInv, TypeOK, admission, ownership
  <1> QED
    BY <1>1, <1>2, SameTickets, SameOwnership, SameQueue, SameRequests, Zenon DEF ServiceInv

LEMMA Events ==
    ASSUME TypeOK, Event
    PROVE  events' \in 0 .. MaxEvents
  BY RecoveryAssumption DEF TypeOK, Event

LEMMA BarrierElapsesPreserves ==
    ASSUME ServiceInv, BarrierElapses
    PROVE  ServiceInv'
  <1>1. TypeOK /\ ConnInv'
    BY Zenon DEF ServiceInv, ConnInv, BarrierElapses
  <1> QED
    BY <1>1, HealthStep, Zenon DEF BarrierElapses, TypeOK

LEMMA DisconnectPreserves ==
    ASSUME ServiceInv, Disconnect
    PROVE  ServiceInv'
  <1>1. TypeOK
    BY Zenon DEF ServiceInv
  <1>2. conn' \in Conns /\ ConnInv'
    BY <1>1, Zenon DEF TypeOK, Disconnect, Conns, ConnInv
  <1>3. events' \in 0 .. MaxEvents
    BY <1>1, Events, Zenon DEF Disconnect
  <1> QED
    BY <1>1, <1>2, <1>3, HealthStep, Zenon DEF Disconnect, TypeOK

LEMMA ReconnectPreserves ==
    ASSUME ServiceInv, Reconnect
    PROVE  ServiceInv'
  <1>1. TypeOK /\ ConnInv
    BY Zenon DEF ServiceInv
  <1>2. conn' \in Conns /\ ConnInv'
    BY <1>1, RecoveryAssumption DEF TypeOK, Reconnect, Conns, ConnInv
  <1> QED
    BY <1>1, <1>2, HealthStep, Zenon DEF Reconnect, TypeOK

LEMMA LagPreserves ==
    ASSUME ServiceInv, Lag
    PROVE  ServiceInv'
  <1>1. TypeOK /\ ConnInv'
    BY Zenon DEF ServiceInv, ConnInv, Lag
  <1>2. events' \in 0 .. MaxEvents
    BY <1>1, Events, Zenon DEF Lag
  <1> QED
    BY <1>1, <1>2, HealthStep, Zenon DEF Lag, TypeOK

LEMMA LagResumesPreserves ==
    ASSUME ServiceInv, LagResumes
    PROVE  ServiceInv'
  <1>1. TypeOK /\ ConnInv'
    BY Zenon DEF ServiceInv, ConnInv, LagResumes
  <1> QED
    BY <1>1, HealthStep, Zenon DEF LagResumes, TypeOK

LEMMA ObserveHealthPreserves ==
    ASSUME ServiceInv, NEW c \in Callers, ObserveHealth(c)
    PROVE  ServiceInv'
  <1>1. TypeOK /\ ConnInv'
    BY Zenon DEF ServiceInv, ConnInv, ObserveHealth
  <1>2. look' \in [Callers -> Conns \cup {None}]
    BY <1>1, Zenon DEF ObserveHealth, TypeOK
  <1> QED
    BY <1>1, <1>2, HealthStep, Zenon DEF ObserveHealth, TypeOK

LEMMA EnsureHealthPreserves ==
    ASSUME ServiceInv, NEW c \in Callers, EnsureHealth(c)
    PROVE  ServiceInv'
  <1>1. TypeOK /\ ConnInv'
    BY Zenon DEF ServiceInv, ConnInv, EnsureHealth
  <1>2. look' \in [Callers -> Conns \cup {None}] /\ seen' \in Conns
    BY <1>1, Zenon DEF EnsureHealth, TypeOK
  <1>3. barrier' \in {"Ready", "Disconnected", "After"}
    BY <1>1, Zenon DEF EnsureHealth, TypeOK
  <1> QED
    BY <1>1, <1>2, <1>3, HealthStep, Zenon DEF EnsureHealth, TypeOK

-------------------------------------------------------------------------------
(* Admission *)

\* Time and the commit lanes go on without the queue.
LEMMA TickPreserves ==
    ASSUME ServiceInv, Tick
    PROVE  ServiceInv'
  <1>0. UNCHANGED <<admission, ownership, health, lane, req, drain>> /\ Event
    BY Zenon DEF Tick
  <1>1. UNCHANGED <<queue, nextId, failed, drain, taken, req, conn>>
    BY <1>0, Zenon DEF admission, ownership, health
  <1>2. now' \in 0 .. MaxTime
    BY RecoveryAssumption DEF ServiceInv, TypeOK, Tick
  <1>3. events' \in 0 .. MaxEvents
    BY <1>0, Events, Zenon DEF ServiceInv
  <1>4. TypeOK' /\ ConnInv'
    BY <1>0, <1>1, <1>2, <1>3, Zenon DEF ServiceInv, TypeOK, ConnInv, admission, ownership, health
  <1> QED
    BY <1>0, <1>1, <1>4, SameTickets, SameOwnership, SameQueue, SameRequests, Zenon DEF ServiceInv

LEMMA AdvanceLanePreserves ==
    ASSUME ServiceInv, NEW k \in DataKeys, AdvanceLane(k)
    PROVE  ServiceInv'
  <1>0. UNCHANGED <<admission, ownership, health, now, req, drain>> /\ Event
    BY Zenon DEF AdvanceLane
  <1>1. UNCHANGED <<queue, nextId, failed, drain, taken, req, conn>>
    BY <1>0, Zenon DEF admission, ownership, health
  <1>2. lane' \in [DataKeys -> 0 .. MaxGen]
    BY RecoveryAssumption DEF ServiceInv, TypeOK, AdvanceLane
  <1>3. events' \in 0 .. MaxEvents
    BY <1>0, Events, Zenon DEF ServiceInv
  <1>4. TypeOK' /\ ConnInv'
    BY <1>0, <1>1, <1>2, <1>3, Zenon DEF ServiceInv, TypeOK, ConnInv, admission, ownership, health
  <1> QED
    BY <1>0, <1>1, <1>4, SameTickets, SameOwnership, SameQueue, SameRequests, Zenon DEF ServiceInv

\* What passes the unlocked checks is work of a known key; marker work never expires.
LEMMA EnqueueChecksPreserves ==
    ASSUME ServiceInv, NEW p \in Producers, NEW w \in Work, Offered(w), EnqueueChecks(p, w)
    PROVE  ServiceInv'
  <1>0. /\ UNCHANGED <<admission, ownership, health, lane, now, drain>> /\ Event
        /\ req' = [req EXCEPT ![p] = w]
    BY Zenon DEF EnqueueChecks
  <1>1. UNCHANGED <<queue, nextId, failed, drain, taken, conn>>
    BY <1>0, Zenon DEF admission, ownership, health
  <1>2. req' \in [Producers -> Work \cup {None}]
    BY <1>0, Zenon DEF ServiceInv, TypeOK
  <1>3. events' \in 0 .. MaxEvents
    BY <1>0, Events, Zenon DEF ServiceInv
  <1>4. TypeOK' /\ ConnInv'
    BY <1>0, <1>1, <1>2, <1>3, Zenon DEF ServiceInv, TypeOK, ConnInv, admission, ownership, health
  <1>5. ReqInv'
    <2>1. w.key \in MarkerKeys => w.exp = Never
      BY RecoveryAssumption, Zenon DEF Offered
    <2>2. \A q \in Producers : req'[q] = req[q] \/ req'[q] = w
      BY <1>0, Zenon DEF ServiceInv, TypeOK
    <2> QED
      BY <2>1, <2>2, Zenon DEF ServiceInv, ReqInv
  <1> QED
    BY <1>0, <1>1, <1>4, <1>5, SameTickets, SameOwnership, SameQueue, Zenon DEF ServiceInv

\* Entries that leave the queue leave the others, and the attempts under way, as they were.
LEMMA ShrinkKeeps ==
    ASSUME TicketsInv, UNCHANGED <<nextId, failed>>,
           \A k \in Keys : queue'[k] = queue[k] \/ queue'[k] = None,
           \A d \in Drains : /\ drain'[d].ticket = drain[d].ticket
                             /\ Attempting(d)' <=> Attempting(d)
    PROVE  TicketsInv'
  <1>1. \A k \in Pending' : k \in Pending /\ queue'[k] = queue[k]
    BY Zenon DEF Pending
  <1>2. \A k \in Keys : EntryInv(k)'
    BY DEF TicketsInv, EntryInv
  <1>3. UniqueIds' /\ FailedInv'
    BY <1>1, Zenon DEF TicketsInv, UniqueIds, FailedInv
  <1>4. ASSUME NEW d \in Drains
        PROVE  TicketInv(d)'
    <2>1. TicketInv(d) /\ drain'[d].ticket = drain[d].ticket /\ (Attempting(d)' <=> Attempting(d))
      BY Zenon DEF TicketsInv
    <2> QED
      BY <1>1, <2>1, Zenon DEF TicketInv
  <1>5. OneAttempt' /\ InFlightIsHeld'
    BY <1>1 DEF TicketsInv, OneAttempt, InFlightIsHeld
  <1> QED
    BY <1>2, <1>3, <1>4, <1>5, Zenon DEF TicketsInv

LEMMA ShrinkBounds ==
    ASSUME Bounded, \A k \in Keys : queue'[k] = queue[k] \/ queue'[k] = None
    PROVE  Bounded' /\ Pending' \subseteq Pending
  <1>1. Pending' \in SUBSET Pending
    BY Zenon DEF Pending
  <1>2. Cardinality(Pending') <= Cardinality(Pending)
    BY <1>1, KeysFinite, FS_Subset, Zenon
  <1>3. Cardinality(Pending') \in Nat /\ Cardinality(Pending) \in Nat
    BY <1>1, KeysFinite, FS_Subset, FS_CardinalityType, Zenon
  <1> QED
    BY <1>1, <1>2, <1>3, RecoveryAssumption DEF Bounded

\* One entry is removed, by a newer canonical mutation or by a peer's notification.
LEMMA RemovalPreserves ==
    ASSUME ServiceInv, NEW k \in Keys, queue' = [queue EXCEPT ![k] = None], Event,
           UNCHANGED <<ownership, health, nextId, failed, lane, now, req, drain>>
    PROVE  ServiceInv'
  <1>0. TypeOK
    BY Zenon DEF ServiceInv
  <1>1. \A j \in Keys : queue'[j] = queue[j] \/ queue'[j] = None
    BY <1>0, Zenon DEF TypeOK
  <1>2. events' \in 0 .. MaxEvents
    BY <1>0, Events, Zenon
  <1>3. TypeOK' /\ ConnInv'
    <2>1. queue' \in [Keys -> Queued \cup {None}]
      BY <1>0, Zenon DEF TypeOK
    <2> QED
      BY <1>0, <1>2, <2>1, Zenon DEF ServiceInv, TypeOK, ConnInv, ownership, health
  <1>4. TicketsInv'
    BY <1>1, ShrinkKeeps, Zenon DEF ServiceInv, Attempting
  <1>5. Bounded' /\ StoppedStaysEmpty'
    BY <1>1, ShrinkBounds, Zenon DEF ServiceInv, StoppedStaysEmpty, ownership
  <1> QED
    BY <1>3, <1>4, <1>5, SameOwnership, SameRequests, Zenon DEF ServiceInv

LEMMA SupersedeThroughPreserves ==
    ASSUME ServiceInv, NEW k \in DataKeys, NEW g, SupersedeThrough(k, g)
    PROVE  ServiceInv'
  <1>1. k \in Keys
    BY Zenon DEF Keys
  <1> QED
    BY <1>1, RemovalPreserves, Zenon DEF SupersedeThrough

LEMMA CancelThroughPreserves ==
    ASSUME ServiceInv, NEW k \in DataKeys, NEW at, CancelThrough(k, at)
    PROVE  ServiceInv'
  <1>1. k \in Keys
    BY Zenon DEF Keys
  <1> QED
    BY <1>1, RemovalPreserves, Zenon DEF CancelThrough

\* The entry that a piece of work becomes.
Entry(w) ==
    [id |-> nextId, work |-> w, stage |-> "store", inflight |-> FALSE,
     gen |-> IF w.gen = Unfenced THEN nextId ELSE w.gen, left |-> Attempts]

LEMMA EntryFields ==
    ASSUME TypeOK, NEW w \in Work, nextId <= MaxId
    PROVE  /\ Entry(w) \in Queued /\ Entry(w) # None
           /\ Entry(w).id = nextId /\ Entry(w).work = w
           /\ Entry(w).left = Attempts /\ Entry(w).inflight = FALSE
           /\ nextId \in 1 .. MaxId /\ nextId + 1 \in 1 .. MaxId + 1
  <1>1. nextId \in 1 .. MaxId /\ nextId + 1 \in 1 .. MaxId + 1
    BY RecoveryAssumption DEF TypeOK
  <1>2. Attempts \in 0 .. MaxRetries + 1
    BY RecoveryAssumption DEF Attempts
  <1>3. w.gen \in Nat
    BY WorkFields, RecoveryAssumption
  <1>4. Entry(w) \in Queued
    BY <1>1, <1>2, <1>3 DEF Entry, Queued
  <1>5. Entry(w) # None
    BY <1>4, QueuedFields, Zenon
  <1> QED
    BY <1>1, <1>4, <1>5, Zenon DEF Entry

\* An admitted entry has an identity nobody has seen and its whole budget.
LEMMA AdmitKeeps ==
    ASSUME ServiceInv, NEW w \in Work, NEW out, Admit(w, out), UNCHANGED drain,
           w.key \in MarkerKeys => w.exp = Never
    PROVE  /\ TicketsInv'
           /\ queue' \in [Keys -> Queued \cup {None}] /\ nextId' \in 1 .. MaxId + 1
  <1> DEFINE e == Entry(w)
  <1>0. /\ TypeOK /\ nextId <= MaxId /\ nextId' = nextId + 1 /\ UNCHANGED failed
        /\ w.key \in Keys
    BY WorkFields, Zenon DEF ServiceInv, Admit
  <1>e. /\ e \in Queued /\ e # None /\ e.id = nextId /\ e.work = w
        /\ e.left = Attempts /\ e.inflight = FALSE
        /\ nextId \in 1 .. MaxId /\ nextId + 1 \in 1 .. MaxId + 1
    BY <1>0, EntryFields, Zenon
  <1>1. queue' = [k \in Keys |-> IF k = w.key THEN e ELSE IF k \in out THEN None ELSE queue[k]]
    BY Zenon DEF Admit, Entry
  <1> HIDE DEF e
  <1>2. /\ queue'[w.key] = e
        /\ \A k \in Keys \ {w.key} : queue'[k] = queue[k] \/ queue'[k] = None
    BY <1>0, <1>1, Zenon
  <1>3. queue' \in [Keys -> Queued \cup {None}]
    BY <1>0, <1>1, <1>e, Zenon DEF TypeOK
  <1>4. \A k \in Pending : queue[k] \in Queued /\ queue[k].id \in 1 .. MaxId /\ queue[k].id < nextId
    <2>1. \A k \in Pending : queue[k] \in Queued
      BY <1>0, Zenon DEF TypeOK, Pending
    <2> QED
      BY <2>1, QueuedFields, Zenon DEF ServiceInv, TicketsInv, EntryInv, Pending
  <1>5. \A k \in Keys : EntryInv(k)'
    <2>1. failed[nextId] = 0
      BY <1>e DEF ServiceInv, TicketsInv, FailedInv
    <2>2. EntryInv(w.key)'
      BY <1>0, <1>2, <1>e, <2>1, RecoveryAssumption DEF EntryInv, Attempts
    <2>3. ASSUME NEW k \in Keys \ {w.key}
          PROVE  EntryInv(k)'
      BY <1>0, <1>2, <1>4, <1>e DEF ServiceInv, TicketsInv, EntryInv, Pending
    <2> QED
      BY <2>2, <2>3, Zenon
  <1>6. \A k \in Pending' \ {w.key} : k \in Pending /\ queue'[k] = queue[k] /\ queue'[k].id # nextId
    <2>1. \A k \in Pending' \ {w.key} : k \in Pending /\ queue'[k] = queue[k]
      BY <1>2, Zenon DEF Pending
    <2>2. \A k \in Pending : queue[k].id # nextId
      BY <1>4, <1>e
    <2> QED
      BY <2>1, <2>2, Zenon
  <1>7. UniqueIds'
    BY <1>2, <1>6, <1>e DEF ServiceInv, TicketsInv, UniqueIds
  <1>8. FailedInv'
    BY <1>0, <1>e, RecoveryAssumption DEF ServiceInv, TicketsInv, FailedInv
  <1>9. ASSUME NEW d \in Drains
        PROVE  TicketInv(d)'
    <2>1. TicketInv(d)
      BY Zenon DEF ServiceInv, TicketsInv
    <2>2. drain[d].ticket # None => /\ drain[d].ticket.id # nextId
                                    /\ drain[d].ticket.id < nextId + 1
      <3>1. drain[d].ticket \in Queued \cup {None}
        BY <1>0, DrainFields, Zenon DEF TypeOK
      <3>2. drain[d].ticket # None => drain[d].ticket.id \in 1 .. MaxId
        BY <3>1, QueuedFields, Zenon
      <3>3. drain[d].ticket # None => drain[d].ticket.id < nextId
        BY <2>1, Zenon DEF TicketInv
      <3> QED
        BY <1>e, <3>2, <3>3
    <2> QED
      BY <1>0, <1>2, <1>6, <1>e, <2>1, <2>2, Zenon DEF TicketInv, Attempting
  <1>10. OneAttempt' /\ InFlightIsHeld'
    BY <1>2, <1>6, <1>e DEF ServiceInv, TicketsInv, OneAttempt, InFlightIsHeld
  <1> QED
    BY <1>0, <1>3, <1>5, <1>7, <1>8, <1>9, <1>10, <1>e, Zenon DEF TicketsInv

\* Room is made before an entry of a new key is admitted.
LEMMA AdmitBounds ==
    ASSUME Bounded, NEW w \in Work, NEW out, out \subseteq Pending, Admit(w, out),
           queue[w.key] # None \/ Cardinality(Pending \ out) < MaxItems
    PROVE  Bounded'
  <1>0. w.key \in Keys
    BY WorkFields, Zenon
  <1>1. Pending' \subseteq (Pending \ out) \cup {w.key}
    BY Zenon DEF Pending, Admit
  <1> DEFINE A == Pending \ out
  <1>2. IsFiniteSet(A) /\ Cardinality(A) \in Nat /\ Cardinality(A) <= Cardinality(Pending)
    <2>1. A \in SUBSET Pending
      BY Zenon
    <2> QED
      BY <2>1, KeysFinite, FS_Subset, FS_CardinalityType, Zenon
  <1>3. CASE queue[w.key] # None
    <2>1. Pending' \in SUBSET Pending
      BY <1>0, <1>1, <1>3, Zenon DEF Pending
    <2>2. Cardinality(Pending') <= Cardinality(Pending) /\ Cardinality(Pending') \in Nat
      BY <2>1, KeysFinite, FS_Subset, FS_CardinalityType, Zenon
    <2> QED
      BY <2>2, KeysFinite, RecoveryAssumption DEF Bounded
  <1>4. CASE Cardinality(A) < MaxItems
    <2>1. /\ IsFiniteSet(A \cup {w.key})
          /\ Cardinality(A \cup {w.key}) = IF w.key \in A THEN Cardinality(A) ELSE Cardinality(A) + 1
      BY <1>2, FS_AddElement, Zenon
    <2>2. Pending' \in SUBSET (A \cup {w.key})
      BY <1>1, Zenon
    <2>3. Cardinality(Pending') <= Cardinality(A \cup {w.key}) /\ Cardinality(Pending') \in Nat
      BY <2>1, <2>2, FS_Subset, FS_CardinalityType, Zenon
    <2> HIDE DEF A
    <2> QED
      BY <1>2, <1>4, <2>1, <2>3, RecoveryAssumption DEF Bounded
  <1> QED
    BY <1>3, <1>4, Zenon

\* The locked part of enqueue_work: refused, put in the place of older work of its key,
\* admitted into a free place, or admitted in the place of an entry that expires earlier.
LEMMA EnqueuePreserves ==
    ASSUME ServiceInv, NEW p \in Producers, Enqueue(p)
    PROVE  ServiceInv'
  <1> DEFINE w == req[p]
  <1>0. /\ TypeOK /\ req[p] # None /\ req' = [req EXCEPT ![p] = None]
        /\ UNCHANGED <<ownership, health, lane, now, drain, events>>
    BY Zenon DEF Enqueue, ServiceInv
  <1>w. w \in Work /\ (w.key \in MarkerKeys => w.exp = Never)
    BY <1>0, Zenon DEF TypeOK, ServiceInv, ReqInv
  <1>1. /\ req' \in [Producers -> Work \cup {None}]
        /\ ReqInv'
    <2>1. \A q \in Producers : req'[q] = req[q] \/ req'[q] = None
      BY <1>0, Zenon DEF TypeOK
    <2>2. req' \in [Producers -> Work \cup {None}]
      BY <1>0, Zenon DEF TypeOK
    <2> QED
      BY <2>1, <2>2, Zenon DEF ServiceInv, ReqInv
  <1>2. ASSUME queue' \in [Keys -> Queued \cup {None}], nextId' \in 1 .. MaxId + 1,
               UNCHANGED failed, TicketsInv', Bounded', StoppedStaysEmpty'
        PROVE  ServiceInv'
    <2>1. TypeOK' /\ ConnInv'
      BY <1>0, <1>1, <1>2, Zenon DEF ServiceInv, TypeOK, ConnInv, ownership, health
    <2> QED
      BY <1>0, <1>1, <1>2, <2>1, SameOwnership, Zenon DEF ServiceInv
  <1>3. ASSUME NEW out, out \subseteq Pending, Admit(w, out), ~Refuses(w),
               queue[w.key] # None \/ Cardinality(Pending \ out) < MaxItems
        PROVE  ServiceInv'
    <2>1. /\ TicketsInv' /\ UNCHANGED failed
          /\ queue' \in [Keys -> Queued \cup {None}] /\ nextId' \in 1 .. MaxId + 1
      <3>1. Admit(w, out) /\ UNCHANGED drain
        BY <1>0, <1>3, Zenon
      <3>2. UNCHANGED failed
        BY <1>3, Zenon DEF Admit
      <3> HIDE DEF w
      <3> QED
        BY <1>w, <3>1, <3>2, AdmitKeeps, Zenon
    <2>2. Bounded'
      <3> HIDE DEF w
      <3> QED
        BY <1>w, <1>3, AdmitBounds, Zenon DEF ServiceInv
    <2>3. StoppedStaysEmpty'
      <3>1. ~taken'
        BY <1>0, <1>3, Zenon DEF Refuses, ServiceInv, OwnershipInv, ownership
      <3> QED
        BY <3>1, Zenon DEF StoppedStaysEmpty
    <2> QED
      BY <1>2, <2>1, <2>2, <2>3, Zenon
  <1>4. CASE UNCHANGED admission
    <2>1. UNCHANGED <<queue, nextId, failed, drain, taken>>
      BY <1>0, <1>4, Zenon DEF admission, ownership
    <2>2. TicketsInv' /\ Bounded' /\ StoppedStaysEmpty'
      BY <2>1, SameTickets, SameQueue, Zenon DEF ServiceInv
    <2>3. queue' \in [Keys -> Queued \cup {None}] /\ nextId' \in 1 .. MaxId + 1
      BY <1>0, <2>1, Zenon DEF TypeOK
    <2> QED
      BY <1>2, <2>1, <2>2, <2>3, Zenon
  <1>5. CASE ~Refuses(w) /\ (queue[w.key] # None \/ ~Full) /\ Admit(w, {})
    <2>1. queue[w.key] # None \/ Cardinality(Pending \ {}) < MaxItems
      <3>1. Pending \ {} = Pending
        BY Zenon
      <3>2. ~Full => Cardinality(Pending) < MaxItems
        BY KeysFinite, RecoveryAssumption DEF Full
      <3> QED
        BY <1>5, <3>1, <3>2, Zenon
    <2>2. {} \subseteq Pending
      BY Zenon
    <2> QED
      BY <1>3, <1>5, <2>1, <2>2
  <1>6. ASSUME ~Refuses(w), NEW v \in Victims(w),
               ~(Cardinality(Pending \ {v}) >= MaxItems), Admit(w, {v})
        PROVE  ServiceInv'
    <2>1. v \in Pending
      BY Zenon DEF Victims, Expiring
    <2>2. Cardinality(Pending \ {v}) < MaxItems
      <3>1. Cardinality(Pending \ {v}) \in Nat
        BY KeysFinite, FS_RemoveElement, FS_CardinalityType, Zenon
      <3> QED
        BY <1>6, <3>1, RecoveryAssumption
    <2>3. {v} \subseteq Pending
      BY <2>1, Zenon
    <2> QED
      BY <1>3, <1>6, <2>2, <2>3
  <1>7. ASSUME NEW v \in Victims(w), queue' = [queue EXCEPT ![v] = None],
               UNCHANGED <<nextId, failed>>
        PROVE  ServiceInv'
    <2>1. \A j \in Keys : queue'[j] = queue[j] \/ queue'[j] = None
      BY <1>0, <1>7, Zenon DEF TypeOK
    <2>2. queue' \in [Keys -> Queued \cup {None}] /\ nextId' \in 1 .. MaxId + 1
      BY <1>0, <1>7, Zenon DEF TypeOK
    <2>3. TicketsInv'
      BY <1>0, <1>7, <2>1, ShrinkKeeps, Zenon DEF ServiceInv, Attempting
    <2>4. Bounded' /\ StoppedStaysEmpty'
      BY <1>0, <2>1, ShrinkBounds, Zenon DEF ServiceInv, StoppedStaysEmpty, ownership
    <2> QED
      BY <1>2, <1>7, <2>2, <2>3, <2>4, Zenon
  <1> HIDE DEF w
  <1> QED
    BY <1>4, <1>5, <1>6, <1>7, Zenon DEF Enqueue, w

-------------------------------------------------------------------------------
(* drain_once *)

LEMMA SetDrain ==
    ASSUME TypeOK, NEW d \in Drains, NEW x \in DrainStates, drain' = [drain EXCEPT ![d] = x]
    PROVE  /\ drain' \in [Drains -> DrainStates] /\ drain'[d] = x
           /\ \A e \in Drains \ {d} : drain'[e] = drain[e]
  BY Zenon DEF TypeOK

LEMMA DrainAt ==
    ASSUME TypeOK, NEW d \in Drains
    PROVE  /\ drain[d] \in DrainStates
           /\ drain[d].ticket \in Queued \cup {None}
           /\ drain[d].ticket # None =>
                /\ drain[d].ticket \in Queued /\ drain[d].ticket.id \in 1 .. MaxId
                /\ drain[d].ticket.work.key \in Keys
  <1>1. drain[d] \in DrainStates
    BY Zenon DEF TypeOK
  <1>2. drain[d].ticket \in Queued \cup {None}
    BY <1>1, DrainFields, Zenon
  <1> QED
    BY <1>1, <1>2, QueuedFields, WorkFields, Zenon

\* A drain that neither takes nor ends an attempt.
LEMMA DrainMoves ==
    ASSUME ServiceInv, NEW d \in Drains, NEW x \in DrainStates,
           drain' = [drain EXCEPT ![d] = x], x.ticket = drain[d].ticket,
           x.at \in {"claimed", "replay"} <=> Attempting(d),
           UNCHANGED <<queue, ownership, health, nextId, failed, lane, now, req, events>>
    PROVE  ServiceInv'
  <1>0. TypeOK
    BY Zenon DEF ServiceInv
  <1>1. /\ drain' \in [Drains -> DrainStates] /\ drain'[d] = x
        /\ \A e \in Drains \ {d} : drain'[e] = drain[e]
    BY <1>0, SetDrain, Zenon
  <1>2. TypeOK' /\ ConnInv'
    BY <1>0, <1>1, Zenon DEF ServiceInv, TypeOK, ConnInv, ownership, health
  <1>3. \A e \in Drains : /\ drain'[e].ticket = drain[e].ticket
                          /\ Attempting(e)' <=> Attempting(e)
    BY <1>1, Zenon DEF Attempting
  <1>4. TicketsInv'
    BY <1>3, ShrinkKeeps, Zenon DEF ServiceInv
  <1> QED
    BY <1>2, <1>4, SameOwnership, SameQueue, SameRequests, Zenon DEF ServiceInv, ownership

LEMMA DrainGatePreserves ==
    ASSUME ServiceInv, NEW d \in Drains, DrainGate(d)
    PROVE  ServiceInv'
  <1>1. /\ drain[d] \in DrainStates /\ drain[d].at = "out" /\ "gate" \in DrainPlaces
        /\ drain' = [drain EXCEPT ![d] = [drain[d] EXCEPT !.at = "gate"]]
    BY DrainAt, Zenon DEF ServiceInv, DrainGate, DrainPlaces
  <1>2. UNCHANGED <<queue, ownership, health, nextId, failed, lane, now, req, events>>
    BY Zenon DEF DrainGate, admission
  <1> DEFINE x == [drain[d] EXCEPT !.at = "gate"]
  <1>3. x \in DrainStates /\ x.at = "gate" /\ x.ticket = drain[d].ticket
    BY <1>1, DrainUpdates, Zenon
  <1>4. drain' = [drain EXCEPT ![d] = x]
    BY <1>1, Zenon
  <1> HIDE DEF x
  <1> QED
    BY <1>1, <1>2, <1>3, <1>4, DrainMoves, Zenon DEF Attempting

LEMMA DrainKeysPreserves ==
    ASSUME ServiceInv, NEW d \in Drains, DrainKeys(d)
    PROVE  ServiceInv'
  <1> DEFINE x == [drain[d] EXCEPT !.at = "scan", !.keys = Pending]
  <1>1. /\ drain[d] \in DrainStates /\ drain[d].at = "gate" /\ "scan" \in DrainPlaces
        /\ drain' = [drain EXCEPT ![d] = x]
    BY DrainAt, Zenon DEF ServiceInv, DrainKeys, DrainPlaces
  <1>2. UNCHANGED <<queue, ownership, health, nextId, failed, lane, now, req, events>>
    BY Zenon DEF DrainKeys, admission
  <1>3. x \in DrainStates /\ x.at = "scan" /\ x.ticket = drain[d].ticket
    <2>1. Pending \in SUBSET Keys
      BY Zenon DEF Pending
    <2> QED
      BY <1>1, <2>1, ScanUpdates, Zenon
  <1> HIDE DEF x
  <1> QED
    BY <1>1, <1>2, <1>3, DrainMoves, Zenon DEF Attempting

\* An attempt ends: its ticket is settled or given back, by identity.
LEMMA EndKeeps ==
    ASSUME TypeOK, TicketsInv, NEW d \in Drains, drain[d].ticket # None, NEW n \in {0, 1},
           drain'[d].ticket = None, ~Attempting(d)',
           \A e \in Drains \ {d} : drain'[e] = drain[e],
           nextId' = nextId, failed' \in [1 .. MaxId -> Nat],
           failed'[drain[d].ticket.id] = failed[drain[d].ticket.id] + n,
           \A i \in (1 .. MaxId) \ {drain[d].ticket.id} : failed'[i] = failed[i],
           \A k \in Keys :
             \/ queue'[k] = queue[k] /\ ~HasId(k, drain[d].ticket.id)
             \/ HasId(k, drain[d].ticket.id) /\ queue'[k] = None
             \/ /\ HasId(k, drain[d].ticket.id)
                /\ queue'[k].id = queue[k].id /\ queue'[k].work = queue[k].work
                /\ queue'[k].left = queue[k].left - n /\ queue'[k].left >= 1
                /\ ~queue'[k].inflight
    PROVE  TicketsInv'
  <1> DEFINE t == drain[d].ticket
  <1>0. /\ t \in Queued /\ t.id \in 1 .. MaxId /\ t.id < nextId
        /\ failed[t.id] <= MaxRetries /\ failed \in [1 .. MaxId -> Nat]
    BY DrainAt, Zenon DEF TypeOK, TicketsInv, TicketInv
  <1> HIDE DEF t
  <1>1. \A k \in Pending' : /\ k \in Pending /\ queue'[k].id = queue[k].id
                            /\ queue[k].id = t.id \/ queue'[k] = queue[k]
                            /\ queue[k].id = t.id => ~queue'[k].inflight
    BY Zenon DEF Pending, HasId, t
  <1>2. \A k \in Pending : /\ queue[k] \in Queued /\ queue[k].id \in 1 .. MaxId
                           /\ queue[k].left \in Nat /\ failed[queue[k].id] \in Nat
    <2>1. \A k \in Pending : queue[k] \in Queued
      BY Zenon DEF TypeOK, Pending
    <2>2. \A k \in Pending : queue[k].id \in 1 .. MaxId /\ queue[k].left \in 0 .. MaxRetries + 1
      BY <2>1, QueuedFields, Zenon
    <2>3. 0 .. MaxRetries + 1 \subseteq Nat
      BY RecoveryAssumption
    <2> QED
      BY <1>0, <2>1, <2>2, <2>3, Zenon
  <1>3. ASSUME NEW k \in Keys
        PROVE  EntryInv(k)'
    <2>1. EntryInv(k)
      BY Zenon DEF TicketsInv
    <2>2. CASE queue'[k] = queue[k] /\ ~HasId(k, t.id)
      <3>1. queue'[k] # None => failed'[queue[k].id] = failed[queue[k].id]
        BY <1>2, <2>2, Zenon DEF HasId, Pending, t
      <3> QED
        BY <2>1, <2>2, <3>1, Zenon DEF EntryInv
    <2>3. CASE queue'[k] = None
      BY <2>3, Zenon DEF EntryInv
    <2>4. CASE /\ HasId(k, t.id)
               /\ queue'[k].id = queue[k].id /\ queue'[k].work = queue[k].work
               /\ queue'[k].left = queue[k].left - n /\ queue'[k].left >= 1
      <3>1. failed'[queue[k].id] = failed[queue[k].id] + n /\ k \in Pending
        BY <2>4, Zenon DEF HasId, Pending, t
      <3>2. failed'[queue[k].id] + (queue[k].left - n) = failed[queue[k].id] + queue[k].left
        BY <1>2, <3>1, SMTT(30)
      <3> QED
        BY <2>1, <2>4, <3>1, <3>2, Zenon DEF EntryInv, HasId
    <2> QED
      BY <2>2, <2>3, <2>4, Zenon DEF t
  <1>4. UniqueIds'
    BY <1>1 DEF TicketsInv, UniqueIds
  <1>5. FailedInv'
    <2>1. failed'[t.id] <= Attempts
      BY <1>0, RecoveryAssumption, SMTT(30) DEF Attempts, t
    <2>2. \A i \in 1 .. MaxId : i >= nextId => i # t.id
      BY <1>0, RecoveryAssumption DEF TypeOK
    <2> QED
      BY <2>1, <2>2, Zenon DEF TicketsInv, FailedInv, t
  <1>6. ASSUME NEW e \in Drains
        PROVE  TicketInv(e)'
    <2>1. CASE e = d
      BY <2>1, Zenon DEF TicketInv
    <2>2. CASE e # d
      <3>1. TicketInv(e) /\ drain'[e] = drain[e]
        BY <2>2, Zenon DEF TicketsInv
      <3>2. drain[e].ticket # None => drain[e].ticket.id # t.id /\ drain[e].ticket.id \in 1 .. MaxId
        BY <2>2, DrainAt, Zenon DEF TicketsInv, OneAttempt, t
      <3>3. drain[e].ticket # None => failed'[drain[e].ticket.id] = failed[drain[e].ticket.id]
        BY <3>2, Zenon DEF t
      <3> QED
        BY <1>1, <3>1, <3>2, <3>3 DEF TicketInv, Attempting
    <2> QED
      BY <2>1, <2>2, Zenon
  <1>7. OneAttempt'
    BY DEF TicketsInv, OneAttempt
  <1>8. InFlightIsHeld'
    <2> SUFFICES ASSUME NEW k \in Pending', queue'[k].inflight
                 PROVE  \E e \in Drains : drain'[e].ticket # None /\ drain'[e].ticket.id = queue'[k].id
      BY Zenon DEF InFlightIsHeld
    <2>1. k \in Pending /\ queue'[k] = queue[k] /\ queue[k].id # t.id
      BY <1>1, Zenon
    <2>2. PICK e \in Drains : drain[e].ticket # None /\ drain[e].ticket.id = queue[k].id
      BY <2>1, Zenon DEF TicketsInv, InFlightIsHeld
    <2>3. e # d
      BY <2>1, <2>2, Zenon DEF t
    <2> QED
      BY <2>1, <2>2, <2>3, Zenon
  <1> QED
    BY <1>3, <1>4, <1>5, <1>6, <1>7, <1>8, Zenon DEF TicketsInv

\* Completing, giving back and failing touch an entry only if it is the ticket's identity.
LEMMA SettleFacts ==
    ASSUME TypeOK, TicketsInv, NEW d \in Drains, drain[d].ticket # None, NEW n \in {0, 1},
           \/ n = 0 /\ queue' = Completed(drain[d].ticket)
           \/ n = 0 /\ queue' = Returned(drain[d].ticket)
           \/ n = 1 /\ queue' = Failed(drain[d].ticket)
    PROVE  /\ queue' \in [Keys -> Queued \cup {None}]
           /\ \A k \in Keys :
                \/ queue'[k] = queue[k] /\ ~HasId(k, drain[d].ticket.id)
                \/ HasId(k, drain[d].ticket.id) /\ queue'[k] = None
                \/ /\ HasId(k, drain[d].ticket.id)
                   /\ queue'[k].id = queue[k].id /\ queue'[k].work = queue[k].work
                   /\ queue'[k].left = queue[k].left - n /\ queue'[k].left >= 1
                   /\ ~queue'[k].inflight
  <1> DEFINE t == drain[d].ticket
             j == t.work.key
  <1>0. j \in Keys /\ queue \in [Keys -> Queued \cup {None}]
    BY DrainAt, Zenon DEF TypeOK
  <1>1. \A k \in Keys : HasId(k, t.id) => k = j
    BY Zenon DEF TicketsInv, TicketInv, HasId, Pending
  <1>2. CASE ~HasId(j, t.id)
    <2>1. queue' = queue
      BY <1>2, Zenon DEF Completed, Returned, Failed
    <2> QED
      BY <1>0, <1>1, <1>2, <2>1, Zenon
  <1>3. CASE HasId(j, t.id)
    <2> DEFINE q == queue[j]
    <2>0. q \in Queued /\ q.left >= 1
      BY <1>0, <1>3, Zenon DEF HasId, TicketsInv, EntryInv
    <2>l. q.left \in 0 .. MaxRetries + 1
      BY <2>0, QueuedFields, Zenon
    <2>1. ASSUME NEW x \in Queued \cup {None}, queue' = [queue EXCEPT ![j] = x],
                 x = None \/ (x.id = q.id /\ x.work = q.work /\ x.left = q.left - n
                              /\ x.left >= 1 /\ ~x.inflight)
          PROVE  /\ queue' \in [Keys -> Queued \cup {None}]
                 /\ \A k \in Keys :
                      \/ queue'[k] = queue[k] /\ ~HasId(k, t.id)
                      \/ HasId(k, t.id) /\ queue'[k] = None
                      \/ /\ HasId(k, t.id)
                         /\ queue'[k].id = queue[k].id /\ queue'[k].work = queue[k].work
                         /\ queue'[k].left = queue[k].left - n /\ queue'[k].left >= 1
                         /\ ~queue'[k].inflight
      <3> HIDE DEF t, j
      <3>1. queue' \in [Keys -> Queued \cup {None}] /\ queue'[j] = x
            /\ \A k \in Keys \ {j} : queue'[k] = queue[k]
        BY <1>0, <2>1, Zenon
      <3> QED
        BY <1>0, <1>1, <1>3, <2>1, <3>1, Zenon
    <2>2. CASE queue' = [queue EXCEPT ![j] = None]
      BY <2>1, <2>2, Zenon
    <2>3. CASE n = 0 /\ queue' = [queue EXCEPT ![j].inflight = FALSE]
      <3> DEFINE x == [q EXCEPT !.inflight = FALSE]
      <3>1. x \in Queued /\ x.id = q.id /\ x.work = q.work /\ x.left = q.left /\ ~x.inflight
        BY <2>0, QueuedUpdates, Zenon
      <3>2. queue' = [queue EXCEPT ![j] = x]
        BY <2>3, Zenon
      <3>3. q.left = q.left - n
        <4> HIDE DEF q, j, t
        <4> QED
          BY <2>3, <2>l
      <3>4. /\ x \in Queued \cup {None}
            /\ x.id = q.id /\ x.work = q.work /\ x.left = q.left - n
            /\ x.left >= 1 /\ ~x.inflight
        <4> HIDE DEF x, q, j, t
        <4> QED
          BY <2>0, <3>1, <3>3, Zenon
      <3> HIDE DEF x, q, j
      <3> QED
        BY <2>1, <3>2, <3>4, Zenon
    <2>4. CASE n = 1 /\ ~Spent(q.left)
               /\ queue' = [queue EXCEPT ![j] = OneLess(@)]
      <3> DEFINE x == OneLess(q)
      <3>1. q.left - 1 \in 0 .. MaxRetries + 1 /\ q.left - 1 >= 1 /\ q.left - 1 = q.left - n
        <4>1. q.left # 0 /\ q.left # 1
          BY <2>4, Zenon DEF Spent
        <4> HIDE DEF q
        <4> QED
          BY <2>4, <2>l, <4>1, RecoveryAssumption
      <3>2. x \in Queued /\ x.id = q.id /\ x.work = q.work /\ x.left = q.left - 1 /\ ~x.inflight
        BY <2>0, <3>1, FailureUpdates, Zenon
      <3>3. queue' = [queue EXCEPT ![j] = x]
        BY <2>4, Zenon
      <3>4. /\ x \in Queued \cup {None}
            /\ x.id = q.id /\ x.work = q.work /\ x.left = q.left - n
            /\ x.left >= 1 /\ ~x.inflight
        <4> HIDE DEF x, q, j, t
        <4> QED
          BY <3>1, <3>2, Zenon
      <3> HIDE DEF x, q, j
      <3> QED
        BY <2>1, <3>3, <3>4, Zenon
    <2> QED
      BY <1>3, <2>2, <2>3, <2>4, Zenon DEF Completed, Returned, Failed
  <1> QED
    BY <1>2, <1>3, Zenon

\* The ends of an attempt, as steps of the queue and its drain.
Settles(d, x) ==
    /\ drain[d].ticket # None
    /\ x \in DrainStates /\ x.ticket = None /\ x.at \notin {"claimed", "replay"}
    /\ drain' = [drain EXCEPT ![d] = x] /\ nextId' = nextId
    /\ \/ failed' = failed /\ (queue' = Completed(drain[d].ticket)
                               \/ queue' = Returned(drain[d].ticket))
       \/ /\ failed' = [failed EXCEPT ![drain[d].ticket.id] = @ + 1]
          /\ queue' = Failed(drain[d].ticket)

LEMMA SettlesKeeps ==
    ASSUME TypeOK, TicketsInv, Bounded, NEW d \in Drains, NEW x, Settles(d, x)
    PROVE  /\ queue' \in [Keys -> Queued \cup {None}]
           /\ drain' \in [Drains -> DrainStates]
           /\ failed' \in [1 .. MaxId -> Nat]
           /\ TicketsInv' /\ Bounded' /\ Pending' \subseteq Pending
  <1> DEFINE t == drain[d].ticket
  <1>0. /\ drain[d].ticket # None /\ x \in DrainStates /\ x.ticket = None
        /\ x.at \notin {"claimed", "replay"}
        /\ drain' = [drain EXCEPT ![d] = x] /\ nextId' = nextId
    BY Zenon DEF Settles
  <1>1. /\ drain' \in [Drains -> DrainStates] /\ drain'[d] = x
        /\ \A e \in Drains \ {d} : drain'[e] = drain[e]
    BY <1>0, SetDrain, Zenon
  <1>2. t.id \in 1 .. MaxId /\ failed \in [1 .. MaxId -> Nat]
    BY <1>0, DrainAt, Zenon DEF TypeOK
  <1>3. PICK n \in {0, 1} :
          /\ \/ n = 0 /\ queue' = Completed(t)
             \/ n = 0 /\ queue' = Returned(t)
             \/ n = 1 /\ queue' = Failed(t)
          /\ failed' \in [1 .. MaxId -> Nat] /\ failed'[t.id] = failed[t.id] + n
          /\ \A i \in (1 .. MaxId) \ {t.id} : failed'[i] = failed[i]
    <2>1. CASE failed' = failed
      BY <1>2, <2>1 DEF Settles
    <2>2. CASE /\ failed' = [failed EXCEPT ![t.id] = @ + 1] /\ queue' = Failed(t)
      <3>1. /\ failed' \in [1 .. MaxId -> Nat] /\ failed'[t.id] = failed[t.id] + 1
            /\ \A i \in (1 .. MaxId) \ {t.id} : failed'[i] = failed[i]
        BY <1>2, <2>2
      <3> QED
        BY <2>2, <3>1, Zenon
    <2> QED
      BY <2>1, <2>2, Zenon DEF Settles
  <1>4. /\ queue' \in [Keys -> Queued \cup {None}]
        /\ \A k \in Keys :
             \/ queue'[k] = queue[k] /\ ~HasId(k, drain[d].ticket.id)
             \/ HasId(k, drain[d].ticket.id) /\ queue'[k] = None
             \/ /\ HasId(k, drain[d].ticket.id)
                /\ queue'[k].id = queue[k].id /\ queue'[k].work = queue[k].work
                /\ queue'[k].left = queue[k].left - n /\ queue'[k].left >= 1
                /\ ~queue'[k].inflight
    BY <1>0, <1>3, SettleFacts, Zenon
  <1>5. TicketsInv'
    <2>1. drain'[d].ticket = None /\ ~Attempting(d)'
      BY <1>0, <1>1, Zenon DEF Attempting
    <2> QED
      BY <1>0, <1>1, <1>3, <1>4, <2>1, EndKeeps, Zenon
  <1>6. Pending' \in SUBSET Pending
    BY <1>4, Zenon DEF Pending, HasId
  <1>7. Bounded'
    <2>1. Cardinality(Pending') <= Cardinality(Pending)
      BY <1>6, KeysFinite, FS_Subset, Zenon
    <2>2. Cardinality(Pending') \in Nat /\ Cardinality(Pending) \in Nat
      BY <1>6, KeysFinite, FS_Subset, FS_CardinalityType, Zenon
    <2> QED
      BY <2>1, <2>2, RecoveryAssumption DEF Bounded
  <1> QED
    BY <1>1, <1>3, <1>4, <1>5, <1>6, <1>7, Zenon

\* An attempt that ends leaves the rest of the service alone.
LEMMA SettlesPreserves ==
    ASSUME ServiceInv, NEW d \in Drains, NEW x, Settles(d, x),
           UNCHANGED <<ownership, health, lane, now, req, events>>
    PROVE  ServiceInv'
  <1>1. /\ queue' \in [Keys -> Queued \cup {None}] /\ drain' \in [Drains -> DrainStates]
        /\ failed' \in [1 .. MaxId -> Nat] /\ nextId' = nextId
        /\ TicketsInv' /\ Bounded' /\ Pending' \subseteq Pending
    BY SettlesKeeps, Zenon DEF ServiceInv, Settles
  <1>2. TypeOK' /\ ConnInv'
    BY <1>1, Zenon DEF ServiceInv, TypeOK, ConnInv, ownership, health
  <1>3. StoppedStaysEmpty'
    BY <1>1, Zenon DEF ServiceInv, StoppedStaysEmpty, ownership
  <1> QED
    BY <1>1, <1>2, <1>3, SameOwnership, SameRequests, Zenon DEF ServiceInv

\* What EndsWith does to its drain.
LEMMA ScanAgain ==
    ASSUME TypeOK, NEW d \in Drains
    PROVE  LET x == [drain[d] EXCEPT !.at = "scan", !.ticket = None]
           IN  x \in DrainStates /\ x.ticket = None /\ x.at \notin {"claimed", "replay"}
  <1>1. drain[d] \in DrainStates
    BY DrainAt, Zenon
  <1> DEFINE x == [drain[d] EXCEPT !.at = "scan", !.ticket = None]
  <1>2. x \in DrainStates /\ x.ticket = None /\ x.at = "scan"
    BY <1>1, EndUpdates, Zenon
  <1> QED
    BY <1>2, Zenon

\* Expired or superseded tickets are completed, the others go on to their replay.
LEMMA CheckTicketPreserves ==
    ASSUME ServiceInv, NEW d \in Drains, CheckTicket(d)
    PROVE  ServiceInv'
  <1>0. /\ drain[d].at = "claimed" /\ TypeOK /\ drain[d] \in DrainStates
        /\ UNCHANGED <<ownership, health, nextId, failed, lane, now, req, events>>
    BY DrainAt, Zenon DEF CheckTicket, ServiceInv
  <1>1. drain[d].ticket # None
    BY <1>0, Zenon DEF ServiceInv, TicketsInv, TicketInv, Attempting
  <1>2. CASE /\ queue' = Completed(drain[d].ticket)
             /\ drain' = [drain EXCEPT ![d] = [@ EXCEPT !.at = "scan", !.ticket = None]]
    <2> DEFINE x == [drain[d] EXCEPT !.at = "scan", !.ticket = None]
    <2>1. x \in DrainStates /\ x.ticket = None /\ x.at \notin {"claimed", "replay"}
      BY <1>0, ScanAgain, Zenon
    <2>2. drain' = [drain EXCEPT ![d] = x]
      BY <1>2, Zenon
    <2> HIDE DEF x
    <2>3. Settles(d, x)
      BY <1>0, <1>1, <1>2, <2>1, <2>2, Zenon DEF Settles
    <2> QED
      BY <1>0, <2>3, SettlesPreserves, Zenon
  <1>3. CASE drain' = [drain EXCEPT ![d].at = "replay"] /\ UNCHANGED queue
    <2> DEFINE x == [drain[d] EXCEPT !.at = "replay"]
    <2>1. x \in DrainStates /\ x.ticket = drain[d].ticket /\ x.at = "replay"
      <3>1. "replay" \in DrainPlaces
        BY Zenon DEF DrainPlaces
      <3> QED
        BY <1>0, <3>1, DrainUpdates, Zenon
    <2>2. drain' = [drain EXCEPT ![d] = x]
      BY <1>3, Zenon
    <2> HIDE DEF x
    <2> QED
      BY <1>0, <1>3, <2>1, <2>2, DrainMoves, Zenon DEF Attempting
  <1> QED
    BY <1>2, <1>3, Zenon DEF CheckTicket

\* The end of a replay, whatever its outcome.
LEMMA EndsWithSettles ==
    ASSUME ServiceInv, NEW d \in Drains, drain[d].at = "replay", NEW q, EndsWith(d, q),
           \/ failed' = failed /\ (q = Completed(drain[d].ticket) \/ q = Returned(drain[d].ticket))
           \/ /\ failed' = [failed EXCEPT ![drain[d].ticket.id] = @ + 1]
              /\ q = Failed(drain[d].ticket)
    PROVE  ServiceInv'
  <1> DEFINE x == [drain[d] EXCEPT !.at = "scan", !.ticket = None]
  <1>0. /\ TypeOK /\ queue' = q /\ drain' = [drain EXCEPT ![d] = x]
        /\ UNCHANGED <<ownership, health, nextId, lane, now, req, events>>
    BY Zenon DEF EndsWith, ServiceInv
  <1>1. drain[d].ticket # None
    BY Zenon DEF ServiceInv, TicketsInv, TicketInv, Attempting
  <1>2. x \in DrainStates /\ x.ticket = None /\ x.at \notin {"claimed", "replay"}
    BY <1>0, ScanAgain, Zenon
  <1> HIDE DEF x
  <1>3. Settles(d, x)
    BY <1>0, <1>1, <1>2, Zenon DEF Settles
  <1> QED
    BY <1>0, <1>3, SettlesPreserves, Zenon

LEMMA ReplayPreserves ==
    ASSUME ServiceInv, NEW d \in Drains, ReplayEnds(d) \/ ReplayFails(d) \/ ReplayPauses(d)
    PROVE  ServiceInv'
  <1>1. CASE ReplayEnds(d)
    BY <1>1, EndsWithSettles, Zenon DEF ReplayEnds
  <1>2. CASE ReplayFails(d)
    BY <1>2, EndsWithSettles, Zenon DEF ReplayFails
  <1>3. CASE ReplayPauses(d)
    BY <1>3, EndsWithSettles, Zenon DEF ReplayPauses
  <1> QED
    BY <1>1, <1>2, <1>3, Zenon

\* A dropped drain gives its ticket back: what is left of ServiceInv is ownership.
LEMMA DropDrainKeeps ==
    ASSUME ServiceInv, NEW d \in Drains, drain[d].at \in {"gate", "scan", "replay"}, DropDrain(d)
    PROVE  /\ queue' \in [Keys -> Queued \cup {None}] /\ drain' \in [Drains -> DrainStates]
           /\ TicketsInv' /\ Bounded' /\ Pending' \subseteq Pending
  <1> DEFINE x == Over(d)
  <1>0. /\ TypeOK /\ TicketsInv /\ Bounded
        /\ drain' = [drain EXCEPT ![d] = x] /\ UNCHANGED <<nextId, failed>>
    BY Zenon DEF DropDrain, ServiceInv
  <1>1. x \in DrainStates /\ x.ticket = None /\ x.at \notin {"claimed", "replay"}
    <2>1. "out" \in DrainPlaces /\ "gone" \in DrainPlaces /\ {} \in SUBSET Keys
          /\ None \in Queued \cup {None}
      BY Zenon DEF DrainPlaces
    <2>2. \A a \in {"out", "gone"} :
            Resting(a) \in DrainStates /\ Resting(a).at = a /\ Resting(a).ticket = None
      BY <2>1, NewDrains, Zenon
    <2>3. x = Resting("out") \/ x = Resting("gone")
      BY Zenon DEF Over
    <2> HIDE DEF x
    <2> QED
      BY <2>2, <2>3, Zenon
  <1> HIDE DEF x
  <1>2. CASE drain[d].at = "replay"
    <2>1. drain[d].ticket # None /\ queue' = Returned(drain[d].ticket)
      BY <1>0, <1>2, Zenon DEF TicketsInv, TicketInv, Attempting, DropDrain
    <2>2. Settles(d, x)
      BY <1>0, <1>1, <2>1, Zenon DEF Settles
    <2> QED
      BY <1>0, <2>2, SettlesKeeps, Zenon
  <1>3. CASE drain[d].at # "replay"
    <2>0. queue' = queue
      BY <1>3, Zenon DEF DropDrain
    <2>1. drain[d].ticket = None /\ ~Attempting(d)
      BY <1>0, <1>3, Zenon DEF TicketsInv, TicketInv, Attempting
    <2>2. /\ drain' \in [Drains -> DrainStates] /\ drain'[d] = x
          /\ \A e \in Drains \ {d} : drain'[e] = drain[e]
      BY <1>0, <1>1, SetDrain, Zenon
    <2>3. \A e \in Drains : /\ drain'[e].ticket = drain[e].ticket
                            /\ Attempting(e)' <=> Attempting(e)
      BY <1>1, <2>1, <2>2, Zenon DEF Attempting
    <2>4. TicketsInv'
      BY <1>0, <2>0, <2>3, ShrinkKeeps, Zenon
    <2>5. Bounded' /\ Pending' \subseteq Pending
      BY <1>0, <2>0, ShrinkBounds, Zenon
    <2>6. queue' \in [Keys -> Queued \cup {None}]
      BY <1>0, <2>0, Zenon DEF TypeOK
    <2> QED
      BY <2>2, <2>4, <2>5, <2>6, Zenon
  <1> QED
    BY <1>2, <1>3, Zenon

LEMMA CancelDrainPreserves ==
    ASSUME ServiceInv, NEW d \in Drains, CancelDrain(d)
    PROVE  ServiceInv'
  <1>0. /\ drain[d].at \in {"gate", "scan", "replay"} /\ DropDrain(d)
        /\ UNCHANGED <<ownership, nextId, failed, health, lane, now, req, events>>
    BY Zenon DEF CancelDrain, DropDrain
  <1>1. /\ queue' \in [Keys -> Queued \cup {None}] /\ drain' \in [Drains -> DrainStates]
        /\ TicketsInv' /\ Bounded' /\ Pending' \subseteq Pending
    BY <1>0, DropDrainKeeps, Zenon
  <1>2. TypeOK' /\ ConnInv'
    BY <1>0, <1>1, Zenon DEF ServiceInv, TypeOK, ConnInv, ownership, health
  <1>3. StoppedStaysEmpty'
    BY <1>0, <1>1, Zenon DEF ServiceInv, StoppedStaysEmpty, ownership
  <1> QED
    BY <1>0, <1>1, <1>2, <1>3, SameOwnership, SameRequests, Zenon DEF ServiceInv

\* notification_stage changes the stage of an entry and of its ticket, nothing else.
LEMMA NotificationStagePreserves ==
    ASSUME ServiceInv, NEW d \in Drains, NotificationStage(d)
    PROVE  ServiceInv'
  <1> DEFINE t == drain[d].ticket
             j == t.work.key
             r == [queue[j] EXCEPT !.stage = "notify"]
             u == [t EXCEPT !.stage = "notify"]
             x == [drain[d] EXCEPT !.ticket = u]
  <1>0. /\ TypeOK /\ TicketsInv /\ drain[d].at = "replay" /\ HasId(j, t.id)
        /\ queue' = [queue EXCEPT ![j] = r] /\ drain' = [drain EXCEPT ![d] = x]
        /\ UNCHANGED <<ownership, health, nextId, failed, lane, now, req, events>>
    BY Zenon DEF NotificationStage, ServiceInv
  <1>1. t # None
    BY <1>0, Zenon DEF TicketsInv, TicketInv, Attempting
  <1>2. t \in Queued /\ j \in Keys /\ drain[d] \in DrainStates
    BY <1>0, <1>1, DrainAt, Zenon
  <1>3. queue[j] \in Queued /\ queue[j] # None /\ queue \in [Keys -> Queued \cup {None}]
    BY <1>0, <1>2, Zenon DEF HasId, TypeOK
  <1>4. /\ r \in Queued /\ r.id = queue[j].id /\ r.work = queue[j].work
        /\ r.left = queue[j].left /\ r.inflight = queue[j].inflight /\ r # None
    BY <1>3, QueuedUpdates, QueuedFields, Zenon
  <1>5. u \in Queued /\ u.id = t.id /\ u.work = t.work /\ u # None
    BY <1>2, QueuedUpdates, QueuedFields, Zenon
  <1>6. x \in DrainStates /\ x.at = drain[d].at /\ x.ticket = u
    <2>1. u \in Queued \cup {None}
      BY <1>5, Zenon
    <2> HIDE DEF u
    <2> QED
      BY <1>2, <2>1, TicketUpdates, Zenon
  <1>7. /\ drain' \in [Drains -> DrainStates] /\ drain'[d] = x
        /\ \A e \in Drains \ {d} : drain'[e] = drain[e]
    <2> HIDE DEF x
    <2> QED
      BY <1>0, <1>6, SetDrain, Zenon
  <1>8. /\ queue' \in [Keys -> Queued \cup {None}] /\ queue'[j] = r
        /\ \A k \in Keys \ {j} : queue'[k] = queue[k]
    <2> HIDE DEF r, j
    <2> QED
      BY <1>0, <1>2, <1>3, <1>4, Zenon
  <1> HIDE DEF x, u, r, j
  <1>9. Pending' = Pending
    BY <1>2, <1>3, <1>4, <1>8, Zenon DEF Pending
  <1>10. \A k \in Pending : /\ queue'[k].id = queue[k].id /\ queue'[k].work = queue[k].work
                            /\ queue'[k].left = queue[k].left
                            /\ queue'[k].inflight = queue[k].inflight
    BY <1>4, <1>8, Zenon DEF Pending
  <1>11. \A e \in Drains : /\ drain'[e].ticket # None <=> drain[e].ticket # None
                           /\ drain'[e].ticket # None =>
                                /\ drain'[e].ticket.id = drain[e].ticket.id
                                /\ drain'[e].ticket.work = drain[e].ticket.work
                           /\ drain'[e].at = drain[e].at
    BY <1>1, <1>5, <1>6, <1>7, Zenon
  <1>12. TicketsInv'
    <2>1. ASSUME NEW k \in Keys
          PROVE  EntryInv(k)'
      <3>1. EntryInv(k) /\ (queue'[k] # None <=> queue[k] # None) /\ (queue[k] # None => k \in Pending)
        BY <1>0, <1>9, Zenon DEF TicketsInv, Pending
      <3> QED
        BY <1>0, <1>10, <3>1, Zenon DEF EntryInv
    <2>2. UniqueIds' /\ FailedInv'
      BY <1>0, <1>9, <1>10 DEF TicketsInv, UniqueIds, FailedInv
    <2>3. ASSUME NEW e \in Drains
          PROVE  TicketInv(e)'
      <3>1. TicketInv(e)
        BY <1>0, Zenon DEF TicketsInv
      <3> QED
        BY <1>0, <1>9, <1>10, <1>11, <3>1 DEF TicketInv, Attempting
    <2>4. OneAttempt'
      BY <1>0, <1>11 DEF TicketsInv, OneAttempt
    <2>5. InFlightIsHeld'
      BY <1>0, <1>9, <1>10, <1>11 DEF TicketsInv, InFlightIsHeld
    <2> QED
      BY <2>1, <2>2, <2>3, <2>4, <2>5, Zenon DEF TicketsInv
  <1>13. TypeOK' /\ ConnInv'
    BY <1>0, <1>7, <1>8, Zenon DEF ServiceInv, TypeOK, ConnInv, ownership, health
  <1>14. Bounded' /\ StoppedStaysEmpty'
    BY <1>0, <1>9, Zenon DEF ServiceInv, Bounded, StoppedStaysEmpty, ownership
  <1> QED
    BY <1>0, <1>12, <1>13, <1>14, SameOwnership, SameRequests, Zenon DEF ServiceInv

\* claim marks an entry nobody is attempting, and makes it this drain's attempt.
LEMMA ClaimPreserves ==
    ASSUME ServiceInv, NEW d \in Drains, Claim(d)
    PROVE  ServiceInv'
  <1>0. /\ TypeOK /\ TicketsInv /\ drain[d].at = "scan" /\ drain[d] \in DrainStates
        /\ drain[d].ticket = None /\ drain[d].keys \in SUBSET Keys
        /\ UNCHANGED <<ownership, health, nextId, failed, lane, now, req, events>>
    <2>1. /\ TypeOK /\ TicketsInv /\ drain[d].at = "scan"
          /\ UNCHANGED <<ownership, health, nextId, failed, lane, now, req, events>>
      BY Zenon DEF Claim, ServiceInv
    <2>2. drain[d].ticket = None
      BY <2>1, Zenon DEF TicketsInv, TicketInv, Attempting
    <2> QED
      BY <2>1, <2>2, DrainAt, DrainFields, Zenon
  <1>1. CASE drain' = [drain EXCEPT ![d] = Over(d)] /\ UNCHANGED queue
    <2> DEFINE x == Over(d)
    <2>1. x \in DrainStates /\ x.ticket = None /\ x.at \notin {"claimed", "replay"}
      <3>1. "out" \in DrainPlaces /\ "gone" \in DrainPlaces /\ {} \in SUBSET Keys
            /\ None \in Queued \cup {None}
        BY Zenon DEF DrainPlaces
      <3>2. \A a \in {"out", "gone"} :
              Resting(a) \in DrainStates /\ Resting(a).at = a /\ Resting(a).ticket = None
        BY <3>1, NewDrains, Zenon
      <3>3. x = Resting("out") \/ x = Resting("gone")
        BY Zenon DEF Over
      <3> HIDE DEF x
      <3> QED
        BY <3>2, <3>3, Zenon
    <2>2. drain' = [drain EXCEPT ![d] = x]
      BY <1>1, Zenon
    <2> HIDE DEF x
    <2> QED
      BY <1>0, <1>1, <2>1, <2>2, DrainMoves, Zenon DEF Attempting
  <1>2. ASSUME NEW k \in drain[d].keys, drain' = [drain EXCEPT ![d].keys = @ \ {k}],
               UNCHANGED queue
        PROVE  ServiceInv'
    <2> DEFINE x == [drain[d] EXCEPT !.keys = drain[d].keys \ {k}]
    <2>1. x \in DrainStates /\ x.ticket = drain[d].ticket /\ x.at = drain[d].at
      <3>1. drain[d].keys \ {k} \in SUBSET Keys /\ "scan" \in DrainPlaces
        BY <1>0, Zenon DEF DrainPlaces
      <3> QED
        BY <1>0, <3>1, DrainUpdates, Zenon
    <2>2. drain' = [drain EXCEPT ![d] = x]
      BY <1>2, Zenon
    <2> HIDE DEF x
    <2> QED
      BY <1>0, <1>2, <2>1, <2>2, DrainMoves, Zenon DEF Attempting
  <1>3. ASSUME NEW k \in drain[d].keys, Claimable(k),
               queue' = [queue EXCEPT ![k].inflight = TRUE],
               drain' = [drain EXCEPT ![d] =
                   [at |-> "claimed", keys |-> @.keys \ {k}, ticket |-> queue'[k]]]
        PROVE  ServiceInv'
    <2> DEFINE q == queue[k]
               r == [q EXCEPT !.inflight = TRUE]
               x == [at |-> "claimed", keys |-> drain[d].keys \ {k}, ticket |-> r]
    <2>1. k \in Keys /\ q \in Queued /\ ~q.inflight /\ k \in Pending
      BY <1>0, <1>3, Zenon DEF TypeOK, Claimable, Pending
    <2>2. r \in Queued /\ r.id = q.id /\ r.work = q.work /\ r.left = q.left /\ r.inflight /\ r # None
      BY <2>1, QueuedUpdates, QueuedFields, Zenon
    <2>3. /\ queue' \in [Keys -> Queued \cup {None}] /\ queue'[k] = r
          /\ \A j \in Keys \ {k} : queue'[j] = queue[j]
      <3>1. queue' = [queue EXCEPT ![k] = r] /\ queue \in [Keys -> Queued \cup {None}]
        BY <1>0, <1>3, Zenon DEF TypeOK
      <3> HIDE DEF r
      <3> QED
        BY <2>1, <2>2, <3>1, Zenon
    <2>4. x \in DrainStates /\ x.at = "claimed" /\ x.ticket = r
      <3>1. drain[d].keys \ {k} \in SUBSET Keys /\ "claimed" \in DrainPlaces
            /\ r \in Queued \cup {None}
        BY <1>0, <2>2, Zenon DEF DrainPlaces
      <3> HIDE DEF r
      <3> QED
        BY <3>1, NewDrains, Zenon
    <2>5. /\ drain' \in [Drains -> DrainStates] /\ drain'[d] = x
          /\ \A e \in Drains \ {d} : drain'[e] = drain[e]
      <3>1. drain' = [drain EXCEPT ![d] = x]
        BY <1>3, <2>3, Zenon
      <3> HIDE DEF x
      <3> QED
        BY <1>0, <2>4, <3>1, SetDrain, Zenon
    <2> HIDE DEF x, r, q
    <2>6. Pending' = Pending
      BY <2>1, <2>2, <2>3, Zenon DEF Pending
    <2>7. \A j \in Pending : /\ queue'[j].id = queue[j].id /\ queue'[j].work = queue[j].work
                             /\ queue'[j].left = queue[j].left
                             /\ queue[j].inflight => queue'[j].inflight
                             /\ j # k => queue'[j] = queue[j]
      BY <2>2, <2>3, Zenon DEF Pending, q
    <2>8. \A e \in Drains : drain[e].ticket # None => drain[e].ticket.id # q.id
      BY <1>0, <2>1, Zenon DEF TicketsInv, TicketInv, q
    <2>9. EntryInv(k) /\ UniqueIds
      BY <1>0, <2>1, Zenon DEF TicketsInv
    <2>10. r.id < nextId /\ failed[r.id] <= MaxRetries
      <3>1. q.id < nextId /\ q.left >= 1 /\ failed[q.id] + q.left = Attempts
        BY <2>1, <2>9, Zenon DEF EntryInv, q, Pending
      <3>2. q.id \in 1 .. MaxId /\ q.left \in 0 .. MaxRetries + 1
        BY <2>1, QueuedFields, Zenon
      <3>3. failed[q.id] \in Nat
        BY <1>0, <3>2, Zenon DEF TypeOK
      <3>4. failed[q.id] <= MaxRetries
        BY <3>1, <3>2, <3>3, RecoveryAssumption DEF Attempts
      <3> QED
        BY <2>2, <3>1, <3>4, Zenon
    <2>11. TicketsInv'
      <3>1. ASSUME NEW j \in Keys
            PROVE  EntryInv(j)'
        <4>1. EntryInv(j) /\ (queue'[j] # None <=> queue[j] # None) /\ (queue[j] # None => j \in Pending)
          BY <1>0, <2>6, Zenon DEF TicketsInv, Pending
        <4> QED
          BY <1>0, <2>7, <4>1, Zenon DEF EntryInv
      <3>2. UniqueIds' /\ FailedInv'
        BY <1>0, <2>6, <2>7 DEF TicketsInv, UniqueIds, FailedInv
      <3>3. ASSUME NEW e \in Drains
            PROVE  TicketInv(e)'
        <4>1. CASE e = d
          <5>1. Attempting(d)' /\ drain'[d].ticket = r
            BY <2>4, <2>5, Zenon DEF Attempting
          <5>2. r.work.key = k
            BY <2>1, <2>2, <2>9, Zenon DEF EntryInv, q, Pending
          <5>3. \A j \in Pending' : queue'[j].id = r.id => queue'[j].inflight /\ j = k
            BY <2>1, <2>2, <2>3, <2>6, <2>7, <2>9 DEF UniqueIds, q
          <5> QED
            BY <1>0, <2>2, <2>10, <4>1, <5>1, <5>2, <5>3, Zenon DEF TicketInv
        <4>2. CASE e # d
          <5>1. TicketInv(e) /\ drain'[e] = drain[e]
            BY <1>0, <2>5, <4>2, Zenon DEF TicketsInv
          <5> QED
            BY <1>0, <2>6, <2>7, <5>1, ZenonT(30) DEF TicketInv, Attempting
        <4> QED
          BY <4>1, <4>2, Zenon
      <3>4. OneAttempt'
        BY <1>0, <2>2, <2>4, <2>5, <2>8 DEF TicketsInv, OneAttempt
      <3>5. InFlightIsHeld'
        <4> SUFFICES ASSUME NEW j \in Pending', queue'[j].inflight
                     PROVE  \E e \in Drains : /\ drain'[e].ticket # None
                                              /\ drain'[e].ticket.id = queue'[j].id
          BY Zenon DEF InFlightIsHeld
        <4>1. CASE j = k
          BY <2>2, <2>3, <2>4, <2>5, <4>1, Zenon
        <4>2. CASE j # k
          <5>1. j \in Pending /\ queue'[j] = queue[j]
            BY <2>6, <2>7, <4>2, Zenon
          <5>2. PICK e \in Drains : drain[e].ticket # None /\ drain[e].ticket.id = queue[j].id
            BY <1>0, <5>1, Zenon DEF TicketsInv, InFlightIsHeld
          <5>3. e # d
            BY <1>0, <5>2, Zenon
          <5> QED
            BY <2>5, <5>1, <5>2, <5>3, Zenon
        <4> QED
          BY <4>1, <4>2, Zenon
      <3> QED
        BY <3>1, <3>2, <3>3, <3>4, <3>5, Zenon DEF TicketsInv
    <2>12. TypeOK' /\ ConnInv'
      BY <1>0, <2>3, <2>5, Zenon DEF ServiceInv, TypeOK, ConnInv, ownership, health
    <2>13. Bounded' /\ StoppedStaysEmpty'
      BY <1>0, <2>6, Zenon DEF ServiceInv, Bounded, StoppedStaysEmpty, ownership
    <2> QED
      BY <1>0, <2>11, <2>12, <2>13, SameOwnership, SameRequests, Zenon DEF ServiceInv
  <1> QED
    BY <1>1, <1>2, <1>3, Zenon DEF Claim

-------------------------------------------------------------------------------
(* The owned worker and shutdown *)

\* A step of ownership alone.
LEMMA OwnershipStep ==
    ASSUME ServiceInv, UNCHANGED <<admission, health, taken, lane, now, req, drain>>,
           events' \in 0 .. MaxEvents, stop' \in BOOLEAN, detached' \in BOOLEAN,
           worker' \in {"none", "spawning", "live", "ended"}, handle' \in BOOLEAN,
           shut' \in [Shutters -> {"none", "stopping", "gate", "joining", "done", "dropped"}],
           OwnershipInv', ShutdownJoins'
    PROVE  ServiceInv'
  <1>1. UNCHANGED <<queue, nextId, failed, drain, taken, req>>
    BY Zenon DEF admission
  <1>2. TypeOK' /\ ConnInv'
    BY Zenon DEF ServiceInv, TypeOK, ConnInv, admission, health
  <1> QED
    BY <1>1, <1>2, SameTickets, SameQueue, SameRequests, Zenon DEF ServiceInv

LEMMA TrySpawnPreserves ==
    ASSUME ServiceInv, TrySpawn
    PROVE  ServiceInv'
  <1>1. OwnershipInv' /\ ShutdownJoins'
    BY DEF ServiceInv, OwnershipInv, ShutdownJoins, TrySpawn
  <1> QED
    BY <1>1, OwnershipStep, Zenon DEF TrySpawn, ServiceInv, TypeOK

LEMMA SpawnedPreserves ==
    ASSUME ServiceInv, Spawned
    PROVE  ServiceInv'
  <1>1. OwnershipInv' /\ ShutdownJoins'
    BY DEF ServiceInv, OwnershipInv, ShutdownJoins, Spawned
  <1> QED
    BY <1>1, OwnershipStep, Zenon DEF Spawned, ServiceInv, TypeOK

LEMMA StopPreserves ==
    ASSUME ServiceInv, NEW s \in Shutters, Stop(s)
    PROVE  ServiceInv'
  <1>0. TypeOK /\ Event
    BY Zenon DEF ServiceInv, Stop
  <1>1. OwnershipInv' /\ ShutdownJoins'
    BY DEF ServiceInv, TypeOK, OwnershipInv, ShutdownJoins, Stop
  <1>2. events' \in 0 .. MaxEvents
    BY <1>0, Events, Zenon
  <1>3. shut' \in [Shutters -> {"none", "stopping", "gate", "joining", "done", "dropped"}]
    BY <1>0, Zenon DEF Stop, TypeOK
  <1> QED
    BY <1>0, <1>1, <1>2, <1>3, OwnershipStep, Zenon DEF Stop, TypeOK

\* Past the gate nobody else joins, so a handle that is not there was never made, or was
\* taken by a shutdown that was dropped.
LEMMA TakeHandlePreserves ==
    ASSUME ServiceInv, NEW s \in Shutters, TakeHandle(s)
    PROVE  ServiceInv'
  <1>0. TypeOK
    BY Zenon DEF ServiceInv
  <1>1. OwnershipInv' /\ ShutdownJoins'
    BY DEF ServiceInv, TypeOK, OwnershipInv, ShutdownJoins, TakeHandle, Awaits, WorkerUnlocked
  <1>2. shut' \in [Shutters -> {"none", "stopping", "gate", "joining", "done", "dropped"}]
    BY <1>0, Zenon DEF TakeHandle, Awaits, TypeOK
  <1> QED
    BY <1>0, <1>1, <1>2, OwnershipStep, Zenon DEF TakeHandle, TypeOK

LEMMA JoinPreserves ==
    ASSUME ServiceInv, NEW s \in Shutters, Join(s)
    PROVE  ServiceInv'
  <1>0. TypeOK
    BY Zenon DEF ServiceInv
  <1>1. OwnershipInv' /\ ShutdownJoins'
    BY DEF ServiceInv, TypeOK, OwnershipInv, ShutdownJoins, Join
  <1>2. shut' \in [Shutters -> {"none", "stopping", "gate", "joining", "done", "dropped"}]
    BY <1>0, Zenon DEF Join, TypeOK
  <1> QED
    BY <1>0, <1>1, <1>2, OwnershipStep, Zenon DEF Join, TypeOK

LEMMA DropShutdownPreserves ==
    ASSUME ServiceInv, NEW s \in Shutters, DropShutdown(s)
    PROVE  ServiceInv'
  <1>0. TypeOK
    BY Zenon DEF ServiceInv
  <1>1. OwnershipInv' /\ ShutdownJoins'
    BY DEF ServiceInv, TypeOK, OwnershipInv, ShutdownJoins, DropShutdown
  <1>2. shut' \in [Shutters -> {"none", "stopping", "gate", "joining", "done", "dropped"}]
    BY <1>0, Zenon DEF DropShutdown, TypeOK
  <1>3. detached' \in BOOLEAN
    BY <1>0, Zenon DEF DropShutdown, TypeOK
  <1> QED
    BY <1>0, <1>1, <1>2, <1>3, OwnershipStep, Zenon DEF DropShutdown, TypeOK

\* stop empties the queue; the attempts under way find nothing of theirs in it.
LEMMA TakeEntriesPreserves ==
    ASSUME ServiceInv, NEW s \in Shutters, TakeEntries(s)
    PROVE  ServiceInv'
  <1>0. /\ TypeOK /\ queue' = [k \in Keys |-> None] /\ taken'
        /\ UNCHANGED <<nextId, failed, health, stop, worker, handle, detached, lane, now, req,
                       drain, events>>
    BY Zenon DEF ServiceInv, TakeEntries
  <1>1. OwnershipInv' /\ ShutdownJoins'
    BY DEF ServiceInv, TypeOK, OwnershipInv, ShutdownJoins, TakeEntries
  <1>2. \A k \in Keys : queue'[k] = queue[k] \/ queue'[k] = None
    BY <1>0, Zenon
  <1>3. TypeOK' /\ ConnInv'
    <2>1. shut' \in [Shutters -> {"none", "stopping", "gate", "joining", "done", "dropped"}]
      BY <1>0, Zenon DEF TakeEntries, TypeOK
    <2>2. queue' \in [Keys -> Queued \cup {None}] /\ taken' \in BOOLEAN
      BY <1>0, Zenon DEF TakeEntries
    <2> QED
      BY <1>0, <2>1, <2>2, Zenon DEF ServiceInv, TypeOK, ConnInv, health
  <1>4. TicketsInv'
    BY <1>0, <1>2, ShrinkKeeps, Zenon DEF ServiceInv, Attempting
  <1>5. Bounded' /\ StoppedStaysEmpty'
    BY <1>0, <1>2, ShrinkBounds, Zenon DEF ServiceInv, StoppedStaysEmpty, Pending
  <1> QED
    BY <1>0, <1>1, <1>3, <1>4, <1>5, SameRequests, Zenon DEF ServiceInv

\* A stopping worker gives its ticket back before it ends.
LEMMA WorkerEndsPreserves ==
    ASSUME ServiceInv, WorkerEnds
    PROVE  ServiceInv'
  <1>0. /\ TypeOK /\ worker' = "ended" /\ Worker \in Drains
        /\ UNCHANGED <<stop, handle, shut, taken, detached>>
    BY RecoveryAssumption, Zenon DEF ServiceInv, WorkerEnds
  <1>1. OwnershipInv' /\ ShutdownJoins'
    BY DEF ServiceInv, OwnershipInv, ShutdownJoins, WorkerEnds
  <1>2. CASE drain[Worker].at = "out"
    <2>1. UNCHANGED <<admission, health, taken, lane, now, req, drain, events>>
      BY <1>0, <1>2, Zenon DEF WorkerEnds
    <2> QED
      BY <1>0, <1>1, <2>1, OwnershipStep, Zenon DEF TypeOK
  <1>3. CASE drain[Worker].at = "replay" /\ DropDrain(Worker)
    <2>1. /\ queue' \in [Keys -> Queued \cup {None}] /\ drain' \in [Drains -> DrainStates]
          /\ TicketsInv' /\ Bounded' /\ Pending' \subseteq Pending
      BY <1>0, <1>3, DropDrainKeeps, Zenon
    <2>2. UNCHANGED <<nextId, failed, health, lane, now, req, events>>
      BY <1>3, Zenon DEF DropDrain
    <2>3. TypeOK' /\ ConnInv'
      BY <1>0, <2>1, <2>2, Zenon DEF ServiceInv, TypeOK, ConnInv, health
    <2>4. StoppedStaysEmpty'
      BY <1>0, <2>1, Zenon DEF ServiceInv, StoppedStaysEmpty
    <2> QED
      BY <1>1, <2>1, <2>2, <2>3, <2>4, SameRequests, Zenon DEF ServiceInv
  <1> QED
    BY <1>2, <1>3, Zenon DEF WorkerEnds

-------------------------------------------------------------------------------
(* The invariant *)

LEMMA InitService == Init => ServiceInv
  <1> SUFFICES ASSUME Init
               PROVE  ServiceInv
    BY Zenon
  <1>1. Pending = {}
    BY Zenon DEF Init, Pending
  <1>2. TypeOK
    <2>1. drain \in [Drains -> DrainStates]
      <3>1. "out" \in DrainPlaces /\ {} \in SUBSET Keys /\ None \in Queued \cup {None}
        BY Zenon DEF DrainPlaces
      <3>2. Resting("out") \in DrainStates
        BY <3>1, NewDrains, Zenon
      <3> QED
        BY <3>2, Zenon DEF Init
    <2>2. conn \in Conns /\ seen \in Conns /\ nextId \in 1 .. MaxId + 1 /\ now \in 0 .. MaxTime
          /\ events \in 0 .. MaxEvents
      BY RecoveryAssumption DEF Init, Conns
    <2>3. lane \in [DataKeys -> 0 .. MaxGen] /\ failed \in [1 .. MaxId -> Nat]
      BY RecoveryAssumption DEF Init
    <2> QED
      BY <2>1, <2>2, <2>3, Zenon DEF Init, TypeOK
  <1>3. TicketsInv
    <2>1. \A k \in Keys : EntryInv(k)
      BY Zenon DEF Init, EntryInv
    <2>2. FailedInv
      BY RecoveryAssumption DEF Init, FailedInv, Attempts
    <2>3. \A d \in Drains : drain[d].ticket = None /\ drain[d].at = "out"
      BY DEF Init, Resting
    <2>4. \A d \in Drains : TicketInv(d)
      BY <2>3, Zenon DEF TicketInv, Attempting
    <2>5. OneAttempt
      BY <2>3, Zenon DEF OneAttempt
    <2> QED
      BY <1>1, <2>1, <2>2, <2>4, <2>5, Zenon DEF TicketsInv, UniqueIds, InFlightIsHeld
  <1>4. OwnershipInv /\ ShutdownJoins /\ ReqInv /\ ConnInv /\ StoppedStaysEmpty
    BY DEF Init, OwnershipInv, ShutdownJoins, ReqInv, ConnInv, StoppedStaysEmpty
  <1>5. Bounded
    BY <1>1, FS_EmptySet, RecoveryAssumption DEF Bounded
  <1> QED
    BY <1>2, <1>3, <1>4, <1>5, Zenon DEF ServiceInv

LEMMA NextService ==
    ASSUME ServiceInv, Next
    PROVE  ServiceInv'
  <1>1. CASE Tick \/ BarrierElapses \/ Disconnect \/ Reconnect \/ Lag \/ LagResumes
    BY <1>1, TickPreserves, BarrierElapsesPreserves, DisconnectPreserves,
       ReconnectPreserves, LagPreserves, LagResumesPreserves, Zenon
  <1>2. CASE TrySpawn \/ Spawned \/ WorkerEnds
    BY <1>2, TrySpawnPreserves, SpawnedPreserves, WorkerEndsPreserves, Zenon
  <1>3. ASSUME NEW p \in Producers, Enqueue(p)
        PROVE  ServiceInv'
    BY <1>3, EnqueuePreserves, Zenon
  <1>4. ASSUME NEW p \in Producers, NEW k \in Keys, NEW ts \in 0 .. MaxTime,
               NEW e \in 0 .. Never, NEW g \in 0 .. MaxGen,
               Offered([key |-> k, ts |-> ts, exp |-> e, gen |-> g]),
               EnqueueChecks(p, [key |-> k, ts |-> ts, exp |-> e, gen |-> g])
        PROVE  ServiceInv'
    <2>1. [key |-> k, ts |-> ts, exp |-> e, gen |-> g] \in Work
      BY DEF Work
    <2> QED
      BY <1>4, <2>1, EnqueueChecksPreserves, Zenon
  <1>5. ASSUME NEW k \in DataKeys,
               \/ AdvanceLane(k) \/ \E g \in 1 .. MaxGen : SupersedeThrough(k, g)
               \/ \E at \in 0 .. now : CancelThrough(k, at)
        PROVE  ServiceInv'
    BY <1>5, AdvanceLanePreserves, SupersedeThroughPreserves, CancelThroughPreserves, Zenon
  <1>6. CASE Queueing
    BY <1>3, <1>4, <1>5, <1>6, Zenon DEF Queueing
  <1>7. ASSUME NEW d \in Drains, Draining(d) \/ CancelDrain(d)
        PROVE  ServiceInv'
    BY <1>7, DrainGatePreserves, DrainKeysPreserves, ClaimPreserves, CheckTicketPreserves,
       NotificationStagePreserves, ReplayPreserves, CancelDrainPreserves, Zenon DEF Draining
  <1>8. ASSUME NEW c \in Callers, ObserveHealth(c) \/ EnsureHealth(c)
        PROVE  ServiceInv'
    BY <1>8, ObserveHealthPreserves, EnsureHealthPreserves, Zenon
  <1>9. ASSUME NEW s \in Shutters, Shutdown(s) \/ DropShutdown(s)
        PROVE  ServiceInv'
    BY <1>9, StopPreserves, TakeEntriesPreserves, TakeHandlePreserves, JoinPreserves,
       DropShutdownPreserves, Zenon DEF Shutdown
  <1> QED
    BY <1>1, <1>2, <1>6, <1>7, <1>8, <1>9, Zenon DEF Next

LEMMA StutterService ==
    ASSUME ServiceInv, UNCHANGED vars
    PROVE  ServiceInv'
  <1>1. UNCHANGED <<admission, ownership, lane, now, req, drain>>
    BY Zenon DEF vars, admission, ownership
  <1>2. UNCHANGED <<barrier, conn, seen, look, lag, events>>
    BY Zenon DEF vars
  <1>3. TypeOK /\ ConnInv'
    BY <1>2, Zenon DEF ServiceInv, ConnInv
  <1> QED
    BY <1>1, <1>2, <1>3, HealthStep, Zenon DEF TypeOK

\* The inductive invariant of the recovery service.
THEOREM ServiceInvariant == Spec => []ServiceInv
  <1>1. ServiceInv /\ [Next]_vars => ServiceInv'
    BY NextService, StutterService, Zenon
  <1> QED
    BY <1>1, InitService, PTL DEF Spec

\* The queue never attempts an identity twice at once, leaves none claimed by nobody,
\* spends exactly its retry budget, stays within max_items, stays empty once stopped, and a
\* shutdown that returns has joined the worker (recovery.rs).
THEOREM RecoverySafe == Spec => []RecoveryInv
  <1>1. ServiceInv => RecoveryInv
    <2> SUFFICES ASSUME ServiceInv
                 PROVE  RecoveryInv
      BY Zenon
    <2>1. RetryBudget
      BY Zenon DEF ServiceInv, TicketsInv, EntryInv, FailedInv, RetryBudget, Pending, Attempts
    <2> QED
      BY <2>1, Zenon DEF ServiceInv, TicketsInv, RecoveryInv
  <1> QED
    BY <1>1, ServiceInvariant, PTL

-------------------------------------------------------------------------------
(* Identities *)

Kept(k) ==
    \/ queue'[k] # None /\ queue'[k].id = queue[k].id
    \/ OwnAttemptEnds(queue[k]) \/ taken' \/ Replaced(k) \/ Removed(k)

LEMMA SameKept ==
    ASSUME UNCHANGED queue, NEW k \in Pending
    PROVE  Kept(k)
  BY Zenon DEF Kept, Pending

\* Only data is evicted, and only work newer than the queued one takes its place.
LEMMA EnqueueKept ==
    ASSUME ServiceInv, NEW p \in Producers, Enqueue(p), NEW k \in Pending
    PROVE  Kept(k)
  <1> DEFINE w == req[p]
  <1>0. TypeOK /\ w # None /\ UNCHANGED drain
    BY Zenon DEF ServiceInv, Enqueue
  <1>w. w \in Work /\ w.key \in Keys
    BY <1>0, WorkFields, Zenon DEF TypeOK
  <1>k. k \in Keys /\ queue[k] # None /\ queue \in [Keys -> Queued \cup {None}]
    BY <1>0, Zenon DEF Pending, TypeOK
  <1>1. \A v \in Victims(w) : v \in DataKeys /\ v \in Keys /\ queue[v] # None
    <2>1. \A v \in Victims(w) : v \in Keys /\ queue[v] # None /\ queue[v].work.exp # Never
      BY Zenon DEF Victims, Expiring, Pending
    <2>2. \A v \in Victims(w) : v \notin MarkerKeys
      BY <2>1, Zenon DEF ServiceInv, TicketsInv, EntryInv
    <2> QED
      BY <2>1, <2>2, Zenon DEF Keys
  <1>2. ASSUME NEW out, Admit(w, out), ~Refuses(w), \A v \in out : v \in DataKeys
        PROVE  Kept(k)
    <2>1. nextId <= MaxId /\ queue' = [j \in Keys |->
             IF j = w.key THEN Entry(w) ELSE IF j \in out THEN None ELSE queue[j]]
      BY <1>2, Zenon DEF Admit, Entry
    <2>2. Entry(w) # None /\ Entry(w).work = w
      BY <1>0, <1>w, <2>1, EntryFields, Zenon
    <2>3. CASE k = w.key
      <3>1. queue'[k] # None /\ queue'[k].work = w
        BY <1>k, <2>1, <2>2, <2>3, Zenon
      <3>2. ~Older(w, queue[k])
        BY <1>2, <1>k, <2>3, Zenon DEF Refuses
      <3>3. ~Older(queue'[k].work, queue[k])
        BY <3>1, <3>2, Zenon
      <3> QED
        BY <3>1, <3>3, Zenon DEF Kept, Replaced
    <2>4. CASE k # w.key /\ k \in out
      BY <1>0, <1>2, <1>k, <2>1, <2>4, Zenon DEF Kept, Removed
    <2>5. CASE k # w.key /\ k \notin out
      BY <1>k, <2>1, <2>5, Zenon DEF Kept
    <2> QED
      BY <2>3, <2>4, <2>5, Zenon
  <1>3. CASE UNCHANGED admission
    BY <1>3, SameKept, Zenon DEF admission
  <1>4. CASE ~Refuses(w) /\ Admit(w, {})
    BY <1>2, <1>4
  <1>5. ASSUME NEW v \in Victims(w), ~Refuses(w), Admit(w, {v})
        PROVE  Kept(k)
    <2>1. \A u \in {v} : u \in DataKeys
      BY <1>1, Zenon
    <2> QED
      BY <1>2, <1>5, <2>1
  <1>6. ASSUME NEW v \in Victims(w), queue' = [queue EXCEPT ![v] = None]
        PROVE  Kept(k)
    BY <1>0, <1>1, <1>6, <1>k, Zenon DEF Kept, Removed
  <1> HIDE DEF w
  <1> QED
    BY <1>3, <1>4, <1>5, <1>6, Zenon DEF Enqueue, w

LEMMA RemovalKept ==
    ASSUME ServiceInv, NEW j \in DataKeys, queue' = [queue EXCEPT ![j] = None],
           UNCHANGED drain, NEW k \in Pending
    PROVE  Kept(k)
  <1>1. queue \in [Keys -> Queued \cup {None}] /\ k \in Keys /\ queue[k] # None
    BY Zenon DEF ServiceInv, TypeOK, Pending
  <1> QED
    BY <1>1, Zenon DEF Kept, Removed

\* complete, record_failure and the guard's drop act on their own identity alone.
LEMMA SettlesKept ==
    ASSUME ServiceInv, NEW d \in Drains, drain[d].ticket # None, drain'[d].ticket = None,
           \/ queue' = Completed(drain[d].ticket)
           \/ queue' = Returned(drain[d].ticket)
           \/ queue' = Failed(drain[d].ticket),
           NEW k \in Pending
    PROVE  Kept(k)
  <1>0. TypeOK /\ TicketsInv /\ k \in Keys /\ queue[k] # None
    BY Zenon DEF ServiceInv, Pending
  <1>1. PICK n \in {0, 1} : \/ n = 0 /\ queue' = Completed(drain[d].ticket)
                            \/ n = 0 /\ queue' = Returned(drain[d].ticket)
                            \/ n = 1 /\ queue' = Failed(drain[d].ticket)
    BY Zenon
  <1>2. queue'[k] = queue[k] \/ HasId(k, drain[d].ticket.id)
    BY <1>0, <1>1, SettleFacts, Zenon
  <1> QED
    BY <1>0, <1>2, Zenon DEF Kept, OwnAttemptEnds, HasId

LEMMA DropDrainKept ==
    ASSUME ServiceInv, NEW d \in Drains, DropDrain(d), NEW k \in Pending
    PROVE  Kept(k)
  <1>1. CASE drain[d].at = "replay"
    <2>1. drain[d].ticket # None /\ queue' = Returned(drain[d].ticket)
      BY <1>1, Zenon DEF ServiceInv, TicketsInv, TicketInv, Attempting, DropDrain
    <2>2. drain'[d].ticket = None
      <3>1. drain'[d] = Over(d)
        BY Zenon DEF ServiceInv, TypeOK, DropDrain
      <3>2. Over(d).ticket = None
        BY Zenon DEF Over, Resting
      <3> QED
        BY <3>1, <3>2, Zenon
    <2> QED
      BY <2>1, <2>2, SettlesKept, Zenon
  <1>2. CASE drain[d].at # "replay"
    BY <1>2, SameKept, Zenon DEF DropDrain
  <1> QED
    BY <1>1, <1>2, Zenon

LEMMA DrainingKept ==
    ASSUME ServiceInv, NEW d \in Drains, Draining(d) \/ CancelDrain(d), NEW k \in Pending
    PROVE  Kept(k)
  <1>0. TypeOK /\ TicketsInv /\ k \in Keys /\ queue[k] # None
        /\ queue \in [Keys -> Queued \cup {None}]
    BY Zenon DEF ServiceInv, Pending, TypeOK
  <1>1. CASE DrainGate(d) \/ DrainKeys(d)
    BY <1>1, SameKept, Zenon DEF DrainGate, DrainKeys, admission
  <1>2. CASE Claim(d)
    <2>1. ASSUME NEW j \in drain[d].keys, queue' = [queue EXCEPT ![j].inflight = TRUE]
          PROVE  Kept(k)
      <3>1. k # j => queue'[k] = queue[k]
        BY <1>0, <2>1, Zenon
      <3> DEFINE r == [queue[k] EXCEPT !.inflight = TRUE]
      <3>2. k = j => queue'[k] = r
        BY <1>0, <2>1, Zenon
      <3>3. r # None /\ r.id = queue[k].id
        <4>1. queue[k] \in Queued
          BY <1>0, Zenon
        <4>2. r \in Queued /\ r.id = queue[k].id
          BY <4>1, QueuedUpdates, Zenon
        <4> QED
          BY <4>2, QueuedFields, Zenon
      <3> HIDE DEF r
      <3> QED
        BY <1>0, <3>1, <3>2, <3>3, Zenon DEF Kept
    <2> QED
      BY <1>2, <2>1, SameKept, Zenon DEF Claim
  <1>e. ASSUME drain' = [drain EXCEPT ![d] = [@ EXCEPT !.at = "scan", !.ticket = None]]
        PROVE  drain'[d].ticket = None
    <2>1. drain[d] \in DrainStates
      BY <1>0, DrainAt, Zenon
    <2>2. drain'[d] = [drain[d] EXCEPT !.at = "scan", !.ticket = None]
      BY <1>0, <1>e, Zenon DEF TypeOK
    <2> QED
      BY <2>1, <2>2, EndUpdates, Zenon
  <1>3. CASE CheckTicket(d)
    <2>1. drain[d].ticket # None
      BY <1>0, <1>3, Zenon DEF TicketsInv, TicketInv, Attempting, CheckTicket
    <2>2. CASE /\ queue' = Completed(drain[d].ticket)
               /\ drain' = [drain EXCEPT ![d] = [@ EXCEPT !.at = "scan", !.ticket = None]]
      BY <1>e, <2>1, <2>2, SettlesKept, Zenon
    <2> QED
      BY <1>3, <2>2, SameKept, Zenon DEF CheckTicket
  <1>4. CASE NotificationStage(d)
    <2> DEFINE j == drain[d].ticket.work.key
    <2>1. queue' = [queue EXCEPT ![j].stage = "notify"]
      BY <1>4, Zenon DEF NotificationStage
    <2>2. k # j => queue'[k] = queue[k]
      BY <1>0, <2>1, Zenon
    <2> DEFINE r == [queue[k] EXCEPT !.stage = "notify"]
    <2> HIDE DEF j
    <2>3. k = j => queue'[k] = r
      BY <1>0, <2>1, Zenon
    <2>4. r # None /\ r.id = queue[k].id
      <3>1. queue[k] \in Queued
        BY <1>0, Zenon
      <3>2. r \in Queued /\ r.id = queue[k].id
        BY <3>1, QueuedUpdates, Zenon
      <3> QED
        BY <3>2, QueuedFields, Zenon
    <2> HIDE DEF r
    <2> QED
      BY <1>0, <2>2, <2>3, <2>4, Zenon DEF Kept
  <1>5. CASE ReplayEnds(d) \/ ReplayFails(d) \/ ReplayPauses(d)
    <2>1. drain[d].ticket # None
      BY <1>0, <1>5, Zenon DEF TicketsInv, TicketInv, Attempting, ReplayEnds, ReplayFails,
                               ReplayPauses
    <2>2. drain' = [drain EXCEPT ![d] = [@ EXCEPT !.at = "scan", !.ticket = None]]
      BY <1>5, Zenon DEF ReplayEnds, ReplayFails, ReplayPauses, EndsWith
    <2>3. \/ queue' = Completed(drain[d].ticket)
          \/ queue' = Returned(drain[d].ticket)
          \/ queue' = Failed(drain[d].ticket)
      BY <1>5, Zenon DEF ReplayEnds, ReplayFails, ReplayPauses, EndsWith
    <2> QED
      BY <1>e, <2>1, <2>2, <2>3, SettlesKept, Zenon
  <1>6. CASE CancelDrain(d)
    BY <1>6, DropDrainKept, Zenon DEF CancelDrain
  <1> QED
    BY <1>1, <1>2, <1>3, <1>4, <1>5, <1>6, Zenon DEF Draining

LEMMA NextKept ==
    ASSUME ServiceInv, [Next]_vars, NEW k \in Pending
    PROVE  Kept(k)
  <1>1. CASE UNCHANGED queue
    BY <1>1, SameKept, Zenon
  <1>2. CASE Queueing
    <2>1. ASSUME NEW p \in Producers, Enqueue(p)
          PROVE  Kept(k)
      BY <2>1, EnqueueKept, Zenon
    <2>2. ASSUME NEW j \in DataKeys, NEW g, SupersedeThrough(j, g) \/ CancelThrough(j, g)
          PROVE  Kept(k)
      BY <2>2, RemovalKept, Zenon DEF SupersedeThrough, CancelThrough
    <2>3. ASSUME NEW j \in DataKeys, AdvanceLane(j)
          PROVE  UNCHANGED queue
      BY <2>3, Zenon DEF AdvanceLane, admission
    <2>4. ASSUME NEW p \in Producers, NEW w, EnqueueChecks(p, w)
          PROVE  UNCHANGED queue
      BY <2>4, Zenon DEF EnqueueChecks, admission
    <2> QED
      BY <1>1, <1>2, <2>1, <2>2, <2>3, <2>4, Zenon DEF Queueing
  <1>3. ASSUME NEW d \in Drains, Draining(d) \/ CancelDrain(d)
        PROVE  Kept(k)
    BY <1>3, DrainingKept, Zenon
  <1>4. CASE WorkerEnds
    <2>1. Worker \in Drains
      BY RecoveryAssumption, Zenon
    <2> QED
      BY <1>1, <1>4, <2>1, DropDrainKept, Zenon DEF WorkerEnds, admission
  <1>5. ASSUME NEW s \in Shutters, Shutdown(s) \/ DropShutdown(s)
        PROVE  Kept(k)
    <2>1. CASE TakeEntries(s)
      BY <2>1, Zenon DEF TakeEntries, Kept
    <2>2. CASE Stop(s) \/ TakeHandle(s) \/ Join(s) \/ DropShutdown(s)
      BY <1>1, <2>2, Zenon DEF Stop, TakeHandle, Join, DropShutdown, admission
    <2> QED
      BY <1>5, <2>1, <2>2, Zenon DEF Shutdown
  <1>6. CASE Tick \/ BarrierElapses \/ Disconnect \/ Reconnect \/ Lag \/ LagResumes
             \/ TrySpawn \/ Spawned
    BY <1>1, <1>6, Zenon DEF Tick, BarrierElapses, Disconnect, Reconnect, Lag, LagResumes,
                             TrySpawn, Spawned, admission
  <1>7. ASSUME NEW c \in Callers, ObserveHealth(c) \/ EnsureHealth(c)
        PROVE  Kept(k)
    BY <1>1, <1>7, Zenon DEF ObserveHealth, EnsureHealth, admission
  <1>8. CASE UNCHANGED vars
    BY <1>1, <1>8, Zenon DEF vars
  <1> QED
    BY <1>2, <1>3, <1>4, <1>5, <1>6, <1>7, <1>8, Zenon DEF Next

\* A ticket leaves the queue for one of the named causes alone: an old completion never
\* removes a replacement, and durable marker work is never evicted (recovery.rs).
THEOREM IdentityExact == Spec => ExactIdentity
  <1>1. ServiceInv /\ [Next]_vars =>
          [\A k \in Pending :
             \/ queue'[k] # None /\ queue'[k].id = queue[k].id
             \/ OwnAttemptEnds(queue[k]) \/ taken' \/ Replaced(k) \/ Removed(k)]_vars
    BY NextKept, Zenon DEF Kept
  <1> QED
    BY <1>1, ServiceInvariant, PTL DEF Spec, ExactIdentity

===============================================================================
