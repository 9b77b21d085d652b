----------------------------- MODULE AutoRecovery -----------------------------
(***************************************************************************)
(* The exact-identity recovery queue of recovery.rs: admission, capacity   *)
(* eviction, supersession, the draining worker, the reconnect barrier that *)
(* the backplane's health drives (cache/runtime.rs) and the shutdown.      *)
(*                                                                         *)
(* What a ticket's replay does to the backend is KeyCommit's and           *)
(* MarkerJournal's subject; here a replay is its outcome.  Every step      *)
(* under the queue mutex is one action; awaits, and reads made before the  *)
(* mutex is taken, are steps of their own.                                 *)
(***************************************************************************)
EXTENDS Integers, FiniteSets

CONSTANTS
    DataKeys,     \* RecoveryKey::Data: replays expire and may be fenced
    MarkerKeys,   \* RecoveryKey::Marker: durable invalidations, no expiry
    Producers,    \* operations queueing their failed stage
    Drains,       \* callers of drain_once; the owned worker is one of them
    Worker,
    Callers,      \* operations that call ensure_health, the listener among them
    Shutters,     \* callers of shutdown
    None,
    MaxItems,     \* RecoveryConfig::max_items
    MaxRetries,   \* RecoveryConfig::max_retries
    MaxTime, MaxId, MaxGen, MaxEpoch,   \* bounds of the model
    MaxEvents     \* bound on what happens to the service from outside

ASSUME RecoveryAssumption ==
    /\ Worker \in Drains
    /\ DataKeys \cap MarkerKeys = {} /\ IsFiniteSet(DataKeys \cup MarkerKeys)
    /\ MaxItems \in Nat /\ MaxRetries \in Nat
    /\ {MaxTime, MaxId, MaxGen, MaxEpoch, MaxEvents} \subseteq Nat

Keys == DataKeys \cup MarkerKeys
Never == MaxTime + 2     \* Timestamp::MAX, the bound of work without expiry

VARIABLES
    queue,      \* QueueState::entries
    nextId,     \* QueueState::next_id
    lane,       \* the generation of each data key's commit lane
    now,        \* Clock::now
    req,        \* admissions between their unlocked checks and the mutex
    drain,      \* drain_once calls
    stop,       \* the watch channel
    worker,     \* the owned task: "none", "spawning", "live" or "ended"
    handle,     \* whether the JoinHandle is still in AutoRecoveryService::worker
    barrier,    \* RecoveryBarrier
    conn,       \* Backplane::connection_state
    seen,       \* CacheInner::health_seen
    look,       \* connection states read by callers not yet holding health_seen
    lag,        \* the listener is between suspending replay and resuming it
    shut,       \* shutdown calls
    events,     \* how many of MaxEvents have happened
    failed,     \* history: failed attempts of each identity
    taken,      \* history: stop has emptied the queue
    detached    \* history: a shutdown was dropped while it joined the worker

vars == <<queue, nextId, lane, now, req, drain, stop, worker, handle, barrier,
          conn, seen, look, lag, shut, events, failed, taken, detached>>
admission == <<queue, nextId, failed>>
ownership == <<stop, worker, handle, shut, taken, detached>>
health == <<barrier, conn, seen, look, lag>>

Work == [key : Keys, ts : 0 .. MaxTime, exp : 0 .. Never, gen : 0 .. MaxGen]
Unfenced == 0     \* generations start at 1: 0 is work without a fence

\* A Queued: its ticket's identity and work, the attempts left and its state.
Queued == [id : 1 .. MaxId, work : Work, gen : Nat, stage : {"store", "notify"},
           left : 0 .. MaxRetries + 1, inflight : BOOLEAN]
Resting(at) == [at |-> at, keys |-> {}, ticket |-> None]
DrainStates == [at : {"out", "gate", "scan", "claimed", "replay", "gone"},
                keys : SUBSET Keys, ticket : Queued \cup {None}]
Conns == [up : BOOLEAN, epoch : 0 .. MaxEpoch]

ASSUME NoneAssumption == None \notin Work \cup Queued \cup Conns

TypeOK ==
    /\ queue \in [Keys -> Queued \cup {None}]
    /\ nextId \in 1 .. MaxId + 1
    /\ lane \in [DataKeys -> 0 .. MaxGen]
    /\ now \in 0 .. MaxTime
    /\ req \in [Producers -> Work \cup {None}]
    /\ drain \in [Drains -> DrainStates]
    /\ stop \in BOOLEAN /\ taken \in BOOLEAN /\ detached \in BOOLEAN
    /\ worker \in {"none", "spawning", "live", "ended"} /\ handle \in BOOLEAN
    /\ barrier \in {"Ready", "Disconnected", "After"}
    /\ conn \in Conns /\ seen \in Conns
    /\ look \in [Callers -> Conns \cup {None}] /\ lag \in BOOLEAN
    /\ shut \in [Shutters -> {"none", "stopping", "gate", "joining", "done", "dropped"}]
    /\ failed \in [1 .. MaxId -> Nat] /\ events \in 0 .. MaxEvents

Init ==
    /\ queue = [k \in Keys |-> None] /\ nextId = 1
    /\ lane = [k \in DataKeys |-> 0] /\ now = 0
    /\ req = [p \in Producers |-> None]
    /\ drain = [d \in Drains |-> Resting("out")]
    /\ stop = FALSE /\ worker = "none" /\ handle = FALSE
    \* start_listener has observed the first acknowledgement.
    /\ conn = [up |-> TRUE, epoch |-> 0] /\ seen = conn /\ barrier = "After"
    /\ look = [c \in Callers |-> None] /\ lag = FALSE
    /\ shut = [s \in Shutters |-> "none"]
    /\ failed = [i \in 1 .. MaxId |-> 0]
    /\ taken = FALSE /\ detached = FALSE /\ events = 0

Pending == {k \in Keys : queue[k] # None}
HasId(k, i) == queue[k] # None /\ queue[k].id = i
Event == events < MaxEvents /\ events' = events + 1
Expired(w) == now >= w.exp
FenceIsCurrent(w) == w.gen # Unfenced => w.gen = lane[w.key]

-------------------------------------------------------------------------------
(* Admission *)

Tick ==
    /\ Event
    /\ now < MaxTime /\ now' = now + 1
    /\ UNCHANGED <<admission, ownership, health, lane, req, drain>>

\* KeyLane::advance: a newer mutation of the key entered its lane.
AdvanceLane(k) ==
    /\ Event
    /\ lane[k] < MaxGen /\ lane' = [lane EXCEPT ![k] = @ + 1]
    /\ UNCHANGED <<admission, ownership, health, now, req, drain>>

\* enqueue_work up to the mutex: disabled, stopped, expired or superseded work
\* is turned away, and the answer may be stale when the mutex is taken.
EnqueueChecks(p, w) ==
    /\ Event
    /\ req[p] = None /\ ~stop /\ ~Expired(w) /\ FenceIsCurrent(w)
    /\ req' = [req EXCEPT ![p] = w]
    /\ UNCHANGED <<admission, ownership, health, lane, now, drain>>

\* Works an operation may queue: fenced or legacy data, or a durable marker.
Offered(w) ==
    /\ w.ts <= now
    /\ \/ w.key \in DataKeys /\ w.exp < Never
          /\ w.gen \in {Unfenced, lane[w.key]}
       \/ w.key \in MarkerKeys /\ w.exp = Never /\ w.gen = Unfenced

\* Whether the queued work is at least as new: by generation when both are
\* fenced, by the revision's timestamp otherwise.
Older(w, q) ==
    IF w.gen # Unfenced /\ q.work.gen # Unfenced THEN w.gen <= q.gen
    ELSE ~(w.ts > q.work.ts)

\* The entry that expires first, among those that expire at all.
Expiring == {k \in Pending : queue[k].work.exp # Never}
Victims(w) ==
    {k \in Expiring : /\ \A j \in Expiring : queue[k].work.exp <= queue[j].work.exp
                      /\ queue[k].work.exp < w.exp}

Full == Cardinality(Pending) >= MaxItems

\* The first attempt and max_retries more.
Attempts == MaxRetries + 1

Admit(w, evicted) ==
    /\ nextId <= MaxId /\ nextId' = nextId + 1
    /\ queue' = [k \in Keys |->
           IF k = w.key
           THEN [id |-> nextId, work |-> w, stage |-> "store", inflight |-> FALSE,
                 gen |-> IF w.gen = Unfenced THEN nextId ELSE w.gen,
                 left |-> Attempts]
           ELSE IF k \in evicted THEN None ELSE queue[k]]
    /\ UNCHANGED failed

\* Stop is read again under the mutex.
Refuses(w) == stop \/ (queue[w.key] # None /\ Older(w, queue[w.key]))

\* The locked part of enqueue_work.
Enqueue(p) ==
    /\ req[p] # None
    /\ req' = [req EXCEPT ![p] = None]
    /\ LET w == req[p]
       IN  IF Refuses(w) THEN UNCHANGED admission
           ELSE IF queue[w.key] # None \/ ~Full THEN Admit(w, {})
           ELSE IF Victims(w) = {} THEN UNCHANGED admission
           ELSE \E v \in Victims(w) :
                  IF Cardinality(Pending \ {v}) >= MaxItems
                  THEN queue' = [queue EXCEPT ![v] = None] /\ UNCHANGED <<nextId, failed>>
                  ELSE Admit(w, {v})
    /\ UNCHANGED <<ownership, health, lane, now, drain, events>>

\* supersede_through: a canonical mutation of generation g succeeded.
SupersedeThrough(k, g) ==
    /\ Event
    /\ g \in 1 .. lane[k] /\ queue[k] # None /\ queue[k].gen <= g
    /\ queue' = [queue EXCEPT ![k] = None]
    /\ UNCHANGED <<ownership, health, nextId, failed, lane, now, req, drain>>

\* cancel_through: a peer's notification with this timestamp arrived.
CancelThrough(k, at) ==
    /\ Event
    /\ queue[k] # None /\ queue[k].work.ts <= at
    /\ queue' = [queue EXCEPT ![k] = None]
    /\ UNCHANGED <<ownership, health, nextId, failed, lane, now, req, drain>>

-------------------------------------------------------------------------------
(* drain_once *)

\* The attempt that failed was the last one.
Spent(left) == left \in {0, 1}

\* ReplayClaim::drop, complete and record_failure all act on this exact identity.
Returned(t) ==
    IF HasId(t.work.key, t.id)
    THEN [queue EXCEPT ![t.work.key].inflight = FALSE] ELSE queue
\* Mutant of Completed: by key, whatever identity is queued now.
CompletedByKey(t) == [queue EXCEPT ![t.work.key] = None]

Completed(t) ==
    IF HasId(t.work.key, t.id) THEN [queue EXCEPT ![t.work.key] = None] ELSE queue
OneLess(q) == [q EXCEPT !.left = @ - 1, !.inflight = FALSE]
Failed(t) ==
    IF ~HasId(t.work.key, t.id) THEN queue
    ELSE IF Spent(queue[t.work.key].left) THEN [queue EXCEPT ![t.work.key] = None]
    ELSE [queue EXCEPT ![t.work.key] = OneLess(@)]

CanDrain(d) == d # Worker \/ (worker = "live" /\ ~stop)
\* The worker ticks again; any other call of drain_once has returned.
Over(d) == Resting(IF d = Worker THEN "out" ELSE "gone")

\* The barrier is read first, the keys after it.
DrainGate(d) ==
    /\ drain[d].at = "out" /\ CanDrain(d) /\ barrier = "Ready"
    /\ drain' = [drain EXCEPT ![d].at = "gate"]
    /\ UNCHANGED <<admission, ownership, health, lane, now, req, events>>
DrainKeys(d) ==
    /\ drain[d].at = "gate"
    /\ drain' = [drain EXCEPT ![d] = [@ EXCEPT !.at = "scan", !.keys = Pending]]
    /\ UNCHANGED <<admission, ownership, health, lane, now, req, events>>

\* claim: entries gone or already in flight are passed over (the mutant
\* claims them again).
ClaimableAgain(k) == queue[k] # None
Claimable(k) == queue[k] # None /\ ~queue[k].inflight
Claim(d) ==
    /\ drain[d].at = "scan"
    /\ \/ drain[d].keys = {} /\ drain' = [drain EXCEPT ![d] = Over(d)] /\ UNCHANGED queue
       \/ \E k \in drain[d].keys :
            IF ~Claimable(k)
            THEN drain' = [drain EXCEPT ![d].keys = @ \ {k}] /\ UNCHANGED queue
            ELSE /\ queue' = [queue EXCEPT ![k].inflight = TRUE]
                 /\ drain' = [drain EXCEPT ![d] =
                      [at |-> "claimed", keys |-> @.keys \ {k}, ticket |-> queue'[k]]]
    /\ UNCHANGED <<ownership, health, nextId, failed, lane, now, req, events>>

\* Expired or superseded tickets are completed without a replay.
CheckTicket(d) ==
    /\ drain[d].at = "claimed"
    /\ LET t == drain[d].ticket
       IN  IF Expired(t.work) \/ ~FenceIsCurrent(t.work)
           THEN /\ queue' = Completed(t)
                /\ drain' = [drain EXCEPT ![d] = [@ EXCEPT !.at = "scan", !.ticket = None]]
           ELSE drain' = [drain EXCEPT ![d].at = "replay"] /\ UNCHANGED queue
    /\ UNCHANGED <<ownership, health, nextId, failed, lane, now, req, events>>

\* The executor stored the value and recorded it: notification_stage.
NotificationStage(d) ==
    /\ drain[d].at = "replay" /\ drain[d].ticket.stage = "store"
    /\ LET t == drain[d].ticket
       IN  /\ HasId(t.work.key, t.id)
           /\ queue' = [queue EXCEPT ![t.work.key].stage = "notify"]
           /\ drain' = [drain EXCEPT ![d].ticket = [@ EXCEPT !.stage = "notify"]]
    /\ UNCHANGED <<ownership, health, nextId, failed, lane, now, req, events>>

EndsWith(d, q) ==
    /\ queue' = q
    /\ drain' = [drain EXCEPT ![d] = [@ EXCEPT !.at = "scan", !.ticket = None]]
    /\ UNCHANGED <<ownership, health, nextId, lane, now, req, events>>

\* Applied, Superseded and Expired replays complete the ticket.
ReplayEnds(d) ==
    /\ drain[d].at = "replay"
    /\ EndsWith(d, Completed(drain[d].ticket)) /\ UNCHANGED failed
\* A failed replay consumes one attempt.
ReplayFails(d) ==
    /\ drain[d].at = "replay"
    /\ EndsWith(d, Failed(drain[d].ticket))
    /\ failed' = [failed EXCEPT ![drain[d].ticket.id] = @ + 1]
\* replay_admitted: without an acknowledged subscription the ticket is kept.
ReplayPauses(d) ==
    /\ drain[d].at = "replay" /\ ~conn.up
    /\ EndsWith(d, Returned(drain[d].ticket)) /\ UNCHANGED failed

\* The future is dropped: the claim's guard gives the ticket back.
DropDrain(d) ==
    /\ drain' = [drain EXCEPT ![d] = Over(d)]
    /\ queue' = IF drain[d].at = "replay" THEN Returned(drain[d].ticket) ELSE queue
    /\ UNCHANGED <<nextId, failed, health, lane, now, req, events>>

\* Between claim and the guard there is no await: a drop never falls there.
CancelDrain(d) ==
    /\ d # Worker /\ drain[d].at \in {"gate", "scan", "replay"}
    /\ DropDrain(d) /\ UNCHANGED ownership

-------------------------------------------------------------------------------
(* The reconnect barrier *)

BarrierElapses ==
    /\ barrier = "After" /\ barrier' = "Ready"
    /\ UNCHANGED <<admission, ownership, conn, seen, look, lag, lane, now, req, drain, events>>

\* The provider's connection: acknowledged again under a new epoch.
Disconnect ==
    /\ Event
    /\ conn.up /\ conn.epoch < MaxEpoch /\ conn' = [conn EXCEPT !.up = FALSE]
    /\ UNCHANGED <<admission, ownership, barrier, seen, look, lag, lane, now, req, drain>>
Reconnect ==
    /\ ~conn.up /\ conn' = [up |-> TRUE, epoch |-> conn.epoch + 1]
    /\ UNCHANGED <<admission, ownership, barrier, seen, look, lag, lane, now, req, drain, events>>

\* The listener lagged or met a bad frame: continuity_gap, then the barrier.
Lag ==
    /\ Event
    /\ ~lag /\ lag' = TRUE /\ barrier' = "Disconnected"
    /\ UNCHANGED <<admission, ownership, conn, seen, look, lane, now, req, drain>>
\* Mutant of LagResumes: the barrier stays down.
LagStaysDown ==
    /\ lag /\ lag' = FALSE /\ UNCHANGED barrier
    /\ UNCHANGED <<admission, ownership, conn, seen, look, lane, now, req, drain, events>>

LagResumes ==
    /\ lag /\ lag' = FALSE /\ barrier' = "After"
    /\ UNCHANGED <<admission, ownership, conn, seen, look, lane, now, req, drain, events>>

\* ensure_health reads the connection before it takes health_seen.
ObserveHealth(c) ==
    /\ look[c] = None /\ look' = [look EXCEPT ![c] = conn]
    /\ UNCHANGED <<admission, ownership, barrier, conn, seen, lag, lane, now, req, drain, events>>
EnsureHealth(c) ==
    /\ look[c] # None
    /\ look' = [look EXCEPT ![c] = None] /\ seen' = look[c]
    /\ barrier' = IF look[c] = seen THEN barrier
                  ELSE IF look[c].up THEN "After" ELSE "Disconnected"
    /\ UNCHANGED <<admission, ownership, conn, lag, lane, now, req, drain, events>>

-------------------------------------------------------------------------------
(* The owned worker and shutdown *)

\* try_spawn holds the worker mutex from its second look at stop to the spawn.
TrySpawn ==
    /\ worker = "none" /\ ~stop /\ worker' = "spawning"
    /\ UNCHANGED <<admission, health, stop, handle, shut, taken, detached, lane, now, req, drain, events>>
Spawned ==
    /\ worker = "spawning" /\ worker' = "live" /\ handle' = TRUE
    /\ UNCHANGED <<admission, health, stop, shut, taken, detached, lane, now, req, drain, events>>

\* The select on stop is biased: the worker leaves its drain wherever it awaits.
WorkerEnds ==
    /\ worker = "live" /\ stop /\ worker' = "ended"
    /\ drain[Worker].at \in {"out", "replay"}
    /\ IF drain[Worker].at = "out"
       THEN UNCHANGED <<admission, drain, health, lane, now, req, events>>
       ELSE DropDrain(Worker)
    /\ UNCHANGED <<stop, handle, shut, taken, detached>>

Stop(s) ==
    /\ Event
    /\ shut[s] = "none" /\ shut' = [shut EXCEPT ![s] = "stopping"]
    /\ stop' = TRUE
    /\ UNCHANGED <<admission, health, worker, handle, taken, detached, lane, now, req, drain>>
TakeEntries(s) ==
    /\ shut[s] = "stopping" /\ shut' = [shut EXCEPT ![s] = "gate"]
    /\ queue' = [k \in Keys |-> None] /\ taken' = TRUE
    /\ UNCHANGED <<nextId, failed, health, stop, worker, handle, detached, lane, now, req, drain, events>>
\* What remains to be done with the handle.
Awaits == IF handle THEN "joining" ELSE "done"
\* try_spawn's mutex is free.
WorkerUnlocked == worker # "spawning"
\* Past the shutdown gate the handle is taken out under the worker mutex.
TakeHandle(s) ==
    /\ shut[s] = "gate" /\ \A o \in Shutters : shut[o] # "joining"
    /\ WorkerUnlocked
    /\ shut' = [shut EXCEPT ![s] = Awaits]
    /\ handle' = FALSE
    /\ UNCHANGED <<admission, health, stop, worker, taken, detached, lane, now, req, drain, events>>
Join(s) ==
    /\ shut[s] = "joining" /\ worker = "ended" /\ shut' = [shut EXCEPT ![s] = "done"]
    /\ UNCHANGED <<admission, health, stop, worker, handle, taken, detached, lane, now, req, drain, events>>
DropShutdown(s) ==
    /\ shut[s] \in {"gate", "joining"}
    /\ shut' = [shut EXCEPT ![s] = "dropped"]
    /\ detached' = (detached \/ shut[s] = "joining")
    /\ UNCHANGED <<admission, health, stop, worker, handle, taken, lane, now, req, drain, events>>

-------------------------------------------------------------------------------

Queueing ==
    \/ \E p \in Producers :
         \/ Enqueue(p)
         \/ \E k \in Keys, ts \in 0 .. MaxTime, e \in 0 .. Never, g \in 0 .. MaxGen :
              LET w == [key |-> k, ts |-> ts, exp |-> e, gen |-> g]
              IN  Offered(w) /\ EnqueueChecks(p, w)
    \/ \E k \in DataKeys :
         \/ AdvanceLane(k)
         \/ \E g \in 1 .. MaxGen : SupersedeThrough(k, g)
         \/ \E at \in 0 .. now : CancelThrough(k, at)
Draining(d) ==
    \/ DrainGate(d) \/ DrainKeys(d) \/ Claim(d) \/ CheckTicket(d)
    \/ NotificationStage(d) \/ ReplayEnds(d) \/ ReplayFails(d) \/ ReplayPauses(d)
Shutdown(s) == Stop(s) \/ TakeEntries(s) \/ TakeHandle(s) \/ Join(s)

Next ==
    \/ Tick \/ Queueing \/ BarrierElapses \/ Disconnect \/ Reconnect \/ Lag \/ LagResumes
    \/ TrySpawn \/ Spawned \/ WorkerEnds
    \/ \E d \in Drains : Draining(d) \/ CancelDrain(d)
    \/ \E c \in Callers : ObserveHealth(c) \/ EnsureHealth(c)
    \/ \E s \in Shutters : Shutdown(s) \/ DropShutdown(s)

Spec == Init /\ [][Next]_vars

\* Timers fire, calls return, the provider reconnects, the listener finishes
\* its step, and operations go on calling ensure_health.
Fairness ==
    /\ WF_vars(TrySpawn) /\ WF_vars(Spawned) /\ WF_vars(WorkerEnds)
    /\ WF_vars(BarrierElapses) /\ WF_vars(Reconnect) /\ WF_vars(LagResumes)
    /\ \A d \in Drains :
         /\ WF_vars(DrainGate(d)) /\ WF_vars(DrainKeys(d) \/ Claim(d) \/ CheckTicket(d))
         /\ WF_vars(ReplayEnds(d) \/ ReplayFails(d) \/ ReplayPauses(d))
    /\ \A c \in Callers : WF_vars(ObserveHealth(c) \/ EnsureHealth(c))
    /\ \A s \in Shutters : WF_vars(TakeEntries(s) \/ TakeHandle(s) \/ Join(s))
FairSpec == Spec /\ Fairness

-------------------------------------------------------------------------------
(* Properties *)

\* No identity is being replayed twice at once, although drain_once may run
\* beside the worker and replacements keep arriving (AttemptState::InFlight).
OneAttempt ==
    \A d, e \in Drains :
        d # e /\ drain[d].ticket # None /\ drain[e].ticket # None
        => drain[d].ticket.id # drain[e].ticket.id

\* An entry marked in flight is held by a running drain: no cancellation,
\* pause, stop or failure leaves it claimed by nobody (ReplayClaim).
InFlightIsHeld ==
    \A k \in Pending : queue[k].inflight =>
        \E d \in Drains : drain[d].ticket # None /\ drain[d].ticket.id = queue[k].id

\* An identity is tried at most max_retries + 1 times, and pauses, drops and
\* replacements of other identities spend none of its attempts.
RetryBudget ==
    /\ \A k \in Pending : failed[queue[k].id] + queue[k].left = MaxRetries + 1
    /\ \A i \in 1 .. MaxId : failed[i] <= MaxRetries + 1

\* Once stop has taken the entries, no admission that raced it refills the queue.
StoppedStaysEmpty == taken => Pending = {}

\* A shutdown that returned has joined the worker, whichever start raced it,
\* unless an earlier shutdown was dropped with the handle in its hands.
ShutdownJoins ==
    \A s \in Shutters :
        shut[s] = "done" /\ ~detached => worker \notin {"spawning", "live"}

\* The queue holds max_items at most.
Bounded == Cardinality(Pending) <= MaxItems

\* The queue, its attempts and the worker at every moment (recovery.rs): the types and
\* the six invariants above.
RecoveryInv ==
    /\ TypeOK /\ OneAttempt /\ InFlightIsHeld /\ RetryBudget
    /\ StoppedStaysEmpty /\ ShutdownJoins /\ Bounded

OwnAttemptEnds(q) ==
    \E d \in Drains : /\ drain[d].ticket # None /\ drain[d].ticket.id = q.id
                      /\ drain'[d].ticket = None
Replaced(k) == queue'[k] # None /\ ~Older(queue'[k].work, queue[k])
Removed(k) == queue'[k] = None /\ k \in DataKeys /\ UNCHANGED drain
\* A queued ticket leaves only when its own attempt ends, the service stops,
\* newer work of its key takes its place, or, for data alone and by no drain, a
\* newer revision cancels it or later-expiring work needs its room: an old
\* completion never removes a replacement, and durable marker work is never
\* evicted.
ExactIdentity ==
    [][\A k \in Pending :
         \/ queue'[k] # None /\ queue'[k].id = queue[k].id
         \/ OwnAttemptEnds(queue[k]) \/ taken' \/ Replaced(k) \/ Removed(k)]_vars

\* Every queued ticket is settled in the end, whatever reconnects, lags and
\* drains of others happen meanwhile.
QueueDrains ==
    \A i \in 1 .. MaxId : (\E k \in Keys : HasId(k, i)) ~> ~\E k \in Keys : HasId(k, i)

\* A shutdown returns unless its caller drops it.
ShutdownReturns ==
    \A s \in Shutters : shut[s] = "stopping" ~> shut[s] \in {"done", "dropped"}

\* What the service owes an end to: its tickets and its shutdowns.
ServiceSettles == QueueDrains /\ ShutdownReturns

-------------------------------------------------------------------------------
(* The inductive invariant behind RecoveryInv, in named parts. *)

\* An entry is queued under its own key, has an attempt left, and its failed
\* attempts and those left make up the budget.
EntryInv(k) ==
    queue[k] # None =>
        /\ queue[k].work.key = k /\ queue[k].id < nextId /\ queue[k].left >= 1
        /\ failed[queue[k].id] + queue[k].left = Attempts
        /\ k \in MarkerKeys => queue[k].work.exp = Never

UniqueIds == \A j, k \in Pending : queue[j].id = queue[k].id => j = k

Attempting(d) == drain[d].at \in {"claimed", "replay"}

\* A drain in the middle of an attempt has a ticket that may still fail once; if
\* its identity is queued at all, it is queued under the ticket's key, in flight.
TicketInv(d) ==
    /\ drain[d].ticket # None <=> Attempting(d)
    /\ drain[d].ticket # None =>
        /\ drain[d].ticket.id < nextId
        /\ failed[drain[d].ticket.id] <= MaxRetries
        /\ \A k \in Pending : queue[k].id = drain[d].ticket.id =>
             queue[k].inflight /\ k = drain[d].ticket.work.key

\* Identities not given out yet have not failed.
FailedInv ==
    \A i \in 1 .. MaxId : failed[i] <= Attempts /\ (i >= nextId => failed[i] = 0)

\* Marker work carries no expiry.
ReqInv ==
    \A p \in Producers : req[p] # None /\ req[p].key \in MarkerKeys => req[p].exp = Never

\* Who has the handle of a live worker, and what a begun shutdown has published.
OwnershipInv ==
    /\ handle => worker \in {"live", "ended"}
    /\ worker = "live" => handle \/ detached \/ \E s \in Shutters : shut[s] = "joining"
    /\ \A s \in Shutters : shut[s] # "none" => stop
    /\ \A s \in Shutters : shut[s] = "done" => worker # "spawning"
    /\ taken => stop

\* A connection that is down has an epoch to come back under.
ConnInv == ~conn.up => conn.epoch < MaxEpoch

TicketsInv ==
    /\ \A k \in Keys : EntryInv(k)
    /\ UniqueIds /\ FailedInv
    /\ \A d \in Drains : TicketInv(d)
    /\ OneAttempt /\ InFlightIsHeld

ServiceInv ==
    /\ TypeOK /\ ReqInv /\ ConnInv /\ TicketsInv /\ OwnershipInv
    /\ ShutdownJoins /\ StoppedStaysEmpty /\ Bounded

===============================================================================
