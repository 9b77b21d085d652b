------------------------------ MODULE KeyCommit ------------------------------
(***************************************************************************)
(* One key of one hybrid cache instance: the local entry (L1), the shared  *)
(* backend entry (L2), the key's commit lane, the auto-recovery ticket of  *)
(* the key, the backplane subscription and the continuity epoch.  The      *)
(* processes are local mutations (set, origin commit, remove, expire), the *)
(* read-through hydration of readers, the recovery worker, the backplane   *)
(* listener with the passive refreshes it spawns, and other nodes (peers)  *)
(* that write the backend and publish.                                     *)
(*                                                                         *)
(* The lane's mutual exclusion is what CommitLane establishes; here it is  *)
(* one variable.  A peer writes the backend and stamps its message in one  *)
(* step, with this node's clock (no clock skew).  Deadlines are not        *)
(* counted: an entry is fresh or logically expired, and physical           *)
(* expiration in L1 is the same step as eviction.                          *)
(***************************************************************************)
EXTENDS Integers

CONSTANTS
    Writers,    \* local mutation calls, each made once
    Readers,    \* local readers, each reading again and again
    Peers,      \* mutations made by other nodes, each made once
    Kinds,      \* what a local mutation may be
    Acts,       \* what a peer's mutation may be
    None, Old,  \* the absent version and the version stored at the start
    Free, Rec,  \* lane holders: nobody, the recovery worker
    MaxTime,    \* bound on the clock
    MaxEvents,  \* bound on calls, peers' mutations, failures and gaps together
    Retries,    \* RecoveryConfig.max_retries
    Strict,     \* ReconciliationPolicy: a gap discards L1
    FailSafe    \* EntryOptions.is_fail_safe_enabled

ASSUME HoldersDistinct ==
    /\ Free \notin Writers \cup Readers \cup Peers \cup {Rec}
    /\ Rec \notin Writers \cup Readers \cup Peers
    /\ Writers \cap Readers = {} /\ Writers \cap Peers = {} /\ Readers \cap Peers = {}
ASSUME BoundsAreNaturals ==
    /\ MaxTime \in Nat /\ MaxEvents \in Nat /\ Retries \in Nat
    /\ Strict \in BOOLEAN /\ FailSafe \in BOOLEAN

Local == -1

\* A backend entry and a local one.  ep is the continuity stamp of a hydrated
\* entry (Eligibility); src remembers, for the properties only, how the entry
\* got there.
Absent == [v |-> None, at |-> 0, stale |-> FALSE]
Void == [v |-> None, at |-> 0, stale |-> FALSE, ep |-> Local, src |-> "local"]
NoTicket == [gen |-> 0, at |-> 0, kind |-> "Notify", data |-> Absent,
             left |-> 0, inflight |-> FALSE]

VARIABLES
    clock,      \* Clock::now
    l1, l2,     \* the entry of the key in memory and in the backend
    lane,       \* who holds KeyLane.admission
    gen,        \* KeyLane.generation
    stamp,      \* KeyLane.timestamp
    epoch,      \* CacheInner.epoch
    slot,       \* the queue entry of the key in AutoRecoveryService
    barrier,    \* RecoveryBarrier
    conn,       \* the provider's connection state: odd while disconnected
    seen,       \* CacheInner.health_seen
    wire,       \* published messages this node has not received yet
    clears,     \* gaps whose epoch is advanced and whose removal of L1 is to come
    pc, op,     \* local mutations
    rpc, rd,    \* readers
    wpc, work,  \* the recovery worker and its copy of the claimed ticket
    ppc, pas,   \* peers' mutations, then the passive refreshes of their messages
    events,     \* how many of MaxEvents have happened
    reached,    \* history: generation of the last local effect on the backend
    acked,      \* history: highest generation the backend acknowledged
    told,       \* history: generation of the last publication
    torn        \* history: an effect was given up since the last acknowledged one

hist == <<reached, acked, told, torn>>
net == <<barrier, conn, seen, wire, clears>>
vars == <<clock, l1, l2, lane, gen, stamp, epoch, slot, net, pc, op, rpc, rd,
          wpc, work, ppc, pas, events, hist>>

Later(a, b) == IF a >= b THEN a ELSE b
Connected == conn % 2 = 0
Eligible(e) == e.ep \in {Local, epoch}
Fence == [gen |-> gen, epoch |-> epoch]
\* A mutant: the fence watches the epoch only.
PassiveIgnoresGeneration(f) == f.epoch = epoch
PassiveIsCurrent(f) == f = Fence
NoFence == [gen |-> 0, epoch |-> 0]

\* Clock::now: monotone, and two reads may return the same instant.
Now(t) == t \in {clock, clock + 1} \cap 1..MaxTime /\ clock' = t

Event == events < MaxEvents /\ events' = events + 1

Expired(e) == IF e.v = None THEN e ELSE [e EXCEPT !.stale = TRUE]
EntryOf(v, t) == [v |-> v, at |-> t, stale |-> FALSE]
Stored(v, t) == [v |-> v, at |-> t, stale |-> FALSE, ep |-> Local, src |-> "local"]
IsData(t) == t.kind # "Notify"

\* A mutation of the key waits for its replay, or its replay is under way.
Pending == IsData(slot) \/ wpc \in {"cold", "apply"}

\* A hydrated copy of what d fetched, under d's fence.  It is an echo if it was
\* fetched while a mutation of the key was waiting for its replay.
Hydrated(d) ==
    [v |-> d.got.v, at |-> d.got.at, stale |-> d.got.stale, ep |-> d.fence.epoch,
     src |-> IF d.pending THEN "echo" ELSE "hydrated"]

-----------------------------------------------------------------------------
(* Auto-recovery operations on the key's entry.                            *)

Ticket(g, t, kind, data) ==
    [gen |-> g, at |-> t, kind |-> kind, data |-> data,
     left |-> Retries + 1, inflight |-> FALSE]

\* enqueue_work: the caller's fence is current (it holds the lane); an entry
\* of the same or a later generation is kept.
EnqueueWork(t) == slot' = IF slot # NoTicket /\ t.gen <= slot.gen THEN slot ELSE t

SupersedeThrough(g) == slot' = IF slot.gen <= g THEN NoTicket ELSE slot
CancelThrough(t) == slot' = IF slot.at <= t THEN NoTicket ELSE slot

\* A generation enqueues at most once, so it stands for the RecoveryId.
SameTicket(t) == slot # NoTicket /\ slot.gen = t.gen
\* A mutant: the ticket's fence is not consulted.
IgnoresFence(t) == SameTicket(t)
IsCurrentTicket(t) == SameTicket(t) /\ t.gen = gen

Complete(t) == slot' = IF SameTicket(t) THEN NoTicket ELSE slot
PutBack(t) == slot' = IF SameTicket(t) THEN [slot EXCEPT !.inflight = FALSE] ELSE slot
\* A mutant: a failed attempt stays claimed.
LeavesInFlight(t) ==
    slot' = IF ~SameTicket(t) THEN slot
            ELSE IF slot.left <= 1 THEN NoTicket
            ELSE [slot EXCEPT !.left = @ - 1]
RecordFailure(t) ==
    slot' = IF ~SameTicket(t) THEN slot
            ELSE IF slot.left <= 1 THEN NoTicket
            ELSE [slot EXCEPT !.left = @ - 1, !.inflight = FALSE]
\* A mutant: the stage is not recorded.
Unstaged(t) == slot
Staged(t) == IF SameTicket(t) THEN [slot EXCEPT !.kind = "Notify"] ELSE slot

-----------------------------------------------------------------------------
(* Local mutations.                                                        *)

Idle == [kind |-> "Set", at |-> 0, fence |-> 0, gen |-> 0, data |-> Absent]

\* set reads the clock before it encodes and queues for the lane; an origin
\* captures the lane's generation and its start before the factory runs;
\* remove and expire read the clock inside the lane.
Begin(w) ==
    /\ pc[w] = "idle"
    /\ Event
    /\ \E k \in Kinds :
          /\ IF k \in {"Set", "Origin"}
                THEN \E t \in 1..MaxTime :
                        /\ Now(t)
                        /\ op' = [op EXCEPT ![w] =
                                    [kind |-> k, at |-> t, fence |-> gen, gen |-> 0,
                                     data |-> EntryOf(w, t)]]
                ELSE /\ op' = [op EXCEPT ![w] = [Idle EXCEPT !.kind = k]]
                     /\ UNCHANGED clock
    /\ pc' = [pc EXCEPT ![w] = "lane"]
    /\ UNCHANGED <<l1, l2, lane, gen, stamp, epoch, slot, net, rpc, rd, wpc, work,
                   ppc, pas, hist>>

\* The call returns, and its locals with it.
Done(w) == pc' = [pc EXCEPT ![w] = "done"] /\ op' = [op EXCEPT ![w] = Idle]

\* write_entry: an origin whose captured generation is no longer the lane's
\* returns VersionChanged and changes nothing.
Refused(w) ==
    /\ pc[w] = "lane"
    /\ lane = Free
    /\ op[w].kind = "Origin" /\ op[w].fence # gen
    /\ Done(w)
    /\ UNCHANGED <<clock, l1, l2, lane, gen, stamp, epoch, slot, net, rpc, rd,
                   wpc, work, ppc, pas, events, hist>>

Advance(t) == gen' = gen + 1 /\ stamp' = Later(stamp, t)

LocalEffect(w, t) ==
    CASE op[w].kind \in {"Set", "Origin"} -> Stored(w, t)
      [] op[w].kind = "Remove" -> Void
      [] OTHER -> Expired(l1)

\* write_entry / key_mutation from the lane lock to the first backend call.
Enter(w) ==
    /\ pc[w] = "lane"
    /\ lane = Free
    /\ op[w].kind = "Origin" => op[w].fence = gen
    /\ \E t \in 1..MaxTime :
          /\ IF op[w].kind \in {"Set", "Origin"}
                THEN t = op[w].at /\ UNCHANGED clock
                ELSE Now(t)
          /\ Advance(t)
          /\ l1' = LocalEffect(w, t)
          /\ op' = [op EXCEPT ![w].at = t, ![w].gen = gen + 1]
    /\ lane' = w
    /\ pc' = [pc EXCEPT ![w] = IF op[w].kind = "Retain" THEN "read" ELSE "write"]
    /\ UNCHANGED <<l2, epoch, slot, net, rpc, rd, wpc, work, ppc, pas, events, hist>>

\* expire with DistributedExpirePolicy::RetainStale re-encodes the current
\* backend entry as expired ...
RetainRead(w) ==
    /\ pc[w] = "read"
    /\ op' = [op EXCEPT ![w].data = Expired(l2)]
    /\ pc' = [pc EXCEPT ![w] = "write"]
    /\ UNCHANGED <<clock, l1, l2, lane, gen, stamp, epoch, slot, net, rpc, rd, wpc,
                   work, ppc, pas, events, hist>>

Leave(w) == lane' = Free /\ Done(w)

\* ... and queues a cold expiration when it cannot read it.
RetainReadFails(w) ==
    /\ pc[w] = "read"
    /\ Event
    /\ EnqueueWork(Ticket(op[w].gen, stamp, "Cold", [Absent EXCEPT !.at = op[w].at]))
    /\ Leave(w)
    /\ UNCHANGED <<clock, l1, l2, gen, stamp, epoch, net, rpc, rd, wpc, work, ppc,
                   pas, hist>>

\* A mutant: a failed write goes on to publication.
WriteUnchecked(w) ==
    /\ pc[w] = "write"
    /\ SupersedeThrough(op[w].gen)
    /\ pc' = [pc EXCEPT ![w] = "publish"]
    /\ UNCHANGED <<clock, l1, l2, lane, gen, stamp, epoch, net, op, rpc, rd, wpc, work,
                   ppc, pas, events, hist>>

\* commit_data, backend write acknowledged: older recovery work is dropped.
Write(w) ==
    /\ pc[w] = "write"
    /\ l2' = op[w].data
    /\ SupersedeThrough(op[w].gen)
    /\ reached' = op[w].gen /\ acked' = op[w].gen /\ torn' = FALSE
    /\ pc' = [pc EXCEPT ![w] = "publish"]
    /\ UNCHANGED <<clock, l1, lane, gen, stamp, epoch, net, op, rpc, rd, wpc, work,
                   ppc, pas, events, told>>

FailedCommit(w) == Ticket(op[w].gen, stamp, "Commit", op[w].data)

\* commit_data, backend write failed, with or without an effect: the mutation
\* is queued for recovery at the lane's timestamp and the lane is released.
WriteFails(w) ==
    /\ pc[w] = "write"
    /\ Event
    /\ \/ l2' = op[w].data /\ reached' = op[w].gen
       \/ UNCHANGED <<l2, reached>>
    /\ EnqueueWork(FailedCommit(w))
    /\ Leave(w)
    /\ UNCHANGED <<clock, l1, gen, stamp, epoch, net, rpc, rd, wpc, work, ppc, pas,
                   acked, told, torn>>

Publish(w) ==
    /\ pc[w] = "publish"
    /\ told' = op[w].gen
    /\ Leave(w)
    /\ UNCHANGED <<clock, l1, l2, gen, stamp, epoch, slot, net, rpc, rd, wpc, work,
                   ppc, pas, events, reached, acked, torn>>

PublishFails(w) ==
    /\ pc[w] = "publish"
    /\ Event
    /\ EnqueueWork(Ticket(op[w].gen, stamp, "Notify", Absent))
    /\ Leave(w)
    /\ UNCHANGED <<clock, l1, l2, gen, stamp, epoch, net, rpc, rd, wpc, work, ppc,
                   pas, hist>>

\* The caller is dropped, cancelled, or its value cannot be encoded: the lane
\* guard is released and nothing is queued.  A backend call under way may have
\* had its effect.
Abandon(w) ==
    /\ pc[w] \in {"read", "write", "publish"}
    /\ \/ pc[w] = "write" /\ l2' = op[w].data /\ reached' = op[w].gen
       \/ UNCHANGED <<l2, reached>>
    /\ torn' = (torn \/ pc[w] # "publish")
    /\ Leave(w)
    /\ UNCHANGED <<clock, l1, gen, stamp, epoch, slot, net, rpc, rd, wpc, work, ppc,
                   pas, events, acked, told>>

\* WeakSlots: a lane nobody refers to is dropped, with its timestamp, and made
\* anew when it is next looked up.  No fence of the old lane is left to compare
\* with, so the generations may go on counting.
Unreferenced ==
    /\ lane = Free /\ slot = NoTicket /\ wpc = "idle"
    /\ \A w \in Writers : pc[w] = "lane" => op[w].kind # "Origin"
    /\ \A r \in Readers : rpc[r] \notin {"observe", "fetch", "check"}
    /\ \A p \in Peers : ppc[p] \notin {"fetch", "lane"}

DropLane ==
    /\ Unreferenced
    /\ stamp' = 0
    /\ UNCHANGED <<clock, l1, l2, lane, gen, epoch, slot, net, pc, op, rpc, rd, wpc, work,
                   ppc, pas, events, hist>>

-----------------------------------------------------------------------------
(* Readers: the read-through of a key that memory cannot answer.           *)

Resting == [fence |-> NoFence, obs |-> Void, got |-> Absent, pending |-> FALSE,
            sel |-> Void]

\* read / read_l1: health first; a fresh eligible local entry ends the read,
\* a stale one is kept for the fail-safe.
Look(r) ==
    /\ rpc[r] = "idle"
    /\ Event
    /\ seen = conn
    /\ l1 = Void \/ l1.stale \/ ~Eligible(l1)
    /\ rd' = [rd EXCEPT ![r].sel = IF FailSafe /\ Eligible(l1) THEN l1 ELSE Void]
    /\ rpc' = [rpc EXCEPT ![r] = "fence"]
    /\ UNCHANGED <<clock, l1, l2, lane, gen, stamp, epoch, slot, net, pc, op, wpc, work,
                   ppc, pas, hist>>

\* hydration_fence: no fence is handed out while the lane is held; the read goes
\* on and what it fetches is not installed.
CaptureFence(r) ==
    /\ rpc[r] = "fence"
    /\ IF lane = Free
          THEN /\ rd' = [rd EXCEPT ![r].fence = Fence]
               /\ rpc' = [rpc EXCEPT ![r] = "observe"]
          ELSE /\ rpc' = [rpc EXCEPT ![r] = "unfenced"]
               /\ UNCHANGED rd
    /\ UNCHANGED <<clock, l1, l2, lane, gen, stamp, epoch, slot, net, pc, op, wpc, work,
                   ppc, pas, events, hist>>

Observe(r) ==
    /\ rpc[r] = "observe"
    /\ rd' = [rd EXCEPT ![r].obs = l1]
    /\ rpc' = [rpc EXCEPT ![r] = "fetch"]
    /\ UNCHANGED <<clock, l1, l2, lane, gen, stamp, epoch, slot, net, pc, op, wpc, work,
                   ppc, pas, events, hist>>

\* newer_of: the entry the fail-safe falls back to.
NewerOf(sel, e) ==
    IF e = Absent \/ (sel # Void /\ sel.at >= e.at) THEN sel
    ELSE [v |-> e.v, at |-> e.at, stale |-> e.stale, ep |-> Local, src |-> "local"]

\* The read of e ends; with the fail-safe enabled and nothing fresh in the
\* backend, the origin is tried next.
NeedsOrigin(e, sel) == FailSafe /\ NewerOf(sel, e) # Void /\ (e = Absent \/ e.stale)
End(r, e, sel) ==
    IF NeedsOrigin(e, sel)
    THEN /\ rpc' = [rpc EXCEPT ![r] = "origin"]
         /\ rd' = [rd EXCEPT ![r] = [Resting EXCEPT !.sel = NewerOf(sel, e)]]
    ELSE /\ rpc' = [rpc EXCEPT ![r] = "idle"]
         /\ rd' = [rd EXCEPT ![r] = Resting]

\* fetch_l2.
Fetch(r) ==
    /\ rpc[r] \in {"fetch", "unfenced"}
    /\ IF l2 = Absent \/ rpc[r] = "unfenced"
          THEN End(r, l2, rd[r].sel)
          ELSE /\ rd' = [rd EXCEPT ![r].got = l2, ![r].pending = Pending]
               /\ rpc' = [rpc EXCEPT ![r] = "check"]
    /\ UNCHANGED <<clock, l1, l2, lane, gen, stamp, epoch, slot, net, pc, op, wpc, work,
                   ppc, pas, events, hist>>

\* read_l2: a failing or late call reads as a miss.
FetchFails(r) ==
    /\ rpc[r] \in {"fetch", "unfenced"}
    /\ Event
    /\ End(r, Absent, rd[r].sel)
    /\ UNCHANGED <<clock, l1, l2, lane, gen, stamp, epoch, slot, net, pc, op, wpc, work,
                   ppc, pas, hist>>

\* hydrate, its condition: the fence still holds and what was in memory when
\* the fetch began is not newer than what it fetched.
MayHydrate(d) ==
    /\ PassiveIsCurrent(d.fence)
    /\ d.obs # Void => /\ d.obs.at <= d.got.at
                       /\ d.obs.at = d.got.at => ~d.got.stale

\* hydrate up to the second look at the fence; the lane is only tried.
Check(r) ==
    /\ rpc[r] = "check"
    /\ IF lane = Free /\ MayHydrate(rd[r])
          THEN /\ lane' = r
               /\ rpc' = [rpc EXCEPT ![r] = "insert"]
               /\ UNCHANGED rd
          ELSE End(r, rd[r].got, rd[r].sel) /\ UNCHANGED lane
    /\ UNCHANGED <<clock, l1, l2, gen, stamp, epoch, slot, net, pc, op, wpc, work, ppc,
                   pas, events, hist>>

\* insert_if_unchanged, which a continuity gap may have overtaken.
Insert(r) ==
    /\ rpc[r] = "insert"
    /\ l1' = IF l1 = rd[r].obs THEN Hydrated(rd[r]) ELSE l1
    /\ lane' = Free
    /\ End(r, rd[r].got, rd[r].sel)
    /\ UNCHANGED <<clock, l2, gen, stamp, epoch, slot, net, pc, op, wpc, work, ppc, pas,
                   events, hist>>

\* fallback: the factory failed or timed out, and the selected stale entry is
\* stored as fresh for the throttle duration.  No lane, no fence.
Fallback(r) ==
    /\ rpc[r] = "origin"
    /\ l1' = IF Eligible(rd[r].sel)
             THEN [rd[r].sel EXCEPT !.stale = FALSE, !.src = "failsafe"]
             ELSE l1
    /\ rpc' = [rpc EXCEPT ![r] = "idle"]
    /\ rd' = [rd EXCEPT ![r] = Resting]
    /\ UNCHANGED <<clock, l2, lane, gen, stamp, epoch, slot, net, pc, op, wpc, work, ppc,
                   pas, events, hist>>

\* Memory drops the entry (capacity, physical expiration), or the entry's
\* logical deadline passes.
Evict ==
    /\ l1 # Void
    /\ l1' = Void
    /\ UNCHANGED <<clock, l2, lane, gen, stamp, epoch, slot, net, pc, op, rpc, rd, wpc,
                   work, ppc, pas, events, hist>>

GoStale ==
    /\ l1 # Void /\ ~l1.stale
    /\ l1' = Expired(l1)
    /\ UNCHANGED <<clock, l2, lane, gen, stamp, epoch, slot, net, pc, op, rpc, rd, wpc,
                   work, ppc, pas, events, hist>>

-----------------------------------------------------------------------------
(* Connection health and continuity gaps.                                  *)

NoPassive == [act |-> "Set", at |-> 0, fence |-> NoFence, exp |-> Void, got |-> Absent,
              pending |-> FALSE]

\* The messages of the peers in P, or the tasks they started, are over.
Over(P) ==
    /\ ppc' = [p \in Peers |-> IF p \in P THEN "done" ELSE ppc[p]]
    /\ pas' = [p \in Peers |-> IF p \in P THEN NoPassive ELSE pas[p]]

\* The provider loses the subscription, with what it had not yet handed to the
\* listener, and regains it under a new epoch.
Disconnect ==
    /\ Connected /\ Event
    /\ conn' = conn + 1
    /\ \E lost \in SUBSET wire : wire' = wire \ lost /\ Over(lost)
    /\ UNCHANGED <<clock, l1, l2, lane, gen, stamp, epoch, slot, barrier, seen, clears, pc, op,
                   rpc, rd, wpc, work, hist>>

Reconnect ==
    /\ ~Connected
    /\ conn' = conn + 1
    /\ UNCHANGED <<clock, l1, l2, lane, gen, stamp, epoch, slot, barrier, seen, wire, clears,
                   pc, op, rpc, rd, wpc, work, ppc, pas, events, hist>>

\* The epoch is advanced at once; the removal of L1 follows outside the lock.
InvalidateOnGap ==
    IF Strict THEN epoch' = epoch + 1 /\ clears' = clears + 1
              ELSE UNCHANGED <<epoch, clears>>

\* ensure_health, run by the listener, by every read and before every replay:
\* any change of state is a gap.
EnsureHealth ==
    /\ seen # conn
    /\ seen' = conn
    /\ InvalidateOnGap
    /\ barrier' = IF Connected THEN "After" ELSE "Disconnected"
    /\ UNCHANGED <<clock, l1, l2, lane, gen, stamp, slot, conn, wire, pc, op, rpc, rd,
                   wpc, work, ppc, pas, events, hist>>

\* invalidate_memory_layers.
ClearMemory ==
    /\ clears > 0
    /\ clears' = clears - 1
    /\ l1' = Void
    /\ UNCHANGED <<clock, l2, lane, gen, stamp, epoch, slot, barrier, conn, seen, wire,
                   pc, op, rpc, rd, wpc, work, ppc, pas, events, hist>>

\* RecvError::Lagged, or a frame that cannot be decoded: a message is lost.  The
\* listener reports the gap and, after the health check, pauses the recovery.
Lag(m) ==
    /\ m \in wire
    /\ seen = conn
    /\ Event
    /\ wire' = wire \ {m} /\ Over({m})
    /\ InvalidateOnGap
    /\ barrier' \in IF Connected THEN {"After"} ELSE {"After", "Disconnected"}
    /\ UNCHANGED <<clock, l1, l2, lane, gen, stamp, slot, conn, seen, pc, op, rpc, rd, wpc,
                   work, hist>>

\* The reconnect delay is over.
BarrierElapses ==
    /\ barrier = "After"
    /\ barrier' = "Ready"
    /\ UNCHANGED <<clock, l1, l2, lane, gen, stamp, epoch, slot, conn, seen, wire, clears, pc,
                   op, rpc, rd, wpc, work, ppc, pas, events, hist>>

-----------------------------------------------------------------------------
(* Other nodes, the listener and its passive refreshes.                    *)

\* Another node commits to the backend and then publishes; its message reaches
\* the subscription if there is one.
PeerMutates(p) ==
    /\ ppc[p] = "idle"
    /\ Event
    /\ \E a \in Acts, t \in 1..MaxTime :
          /\ Now(t)
          /\ l2' = IF a = "Set" THEN EntryOf(p, t) ELSE Absent
          /\ IF Connected
                THEN /\ wire' = wire \cup {p}
                     /\ pas' = [pas EXCEPT ![p].act = a, ![p].at = t]
                     /\ ppc' = [ppc EXCEPT ![p] = "sent"]
                ELSE Over({p}) /\ UNCHANGED wire
    /\ UNCHANGED <<l1, lane, gen, stamp, epoch, slot, barrier, conn, seen, clears, pc, op, rpc,
                   rd, wpc, work, hist>>

\* apply_backplane, a message older than the lane or than the local entry.
Outdated(t) == stamp > t \/ (l1 # Void /\ l1.at > t)

Ignore(p) ==
    /\ p \in wire /\ lane = Free
    /\ Outdated(pas[p].at)
    /\ wire' = wire \ {p}
    /\ Over({p})
    /\ UNCHANGED <<clock, l1, l2, lane, gen, stamp, epoch, slot, barrier, conn, seen, clears,
                   pc, op, rpc, rd, wpc, work, events, hist>>

\* apply_backplane, any other message: the lane advances, older recovery work
\* is cancelled, the local entry is removed or expired, or, on a Set, refreshed
\* by a passive task that starts under the new fence.
Receive(p) ==
    /\ p \in wire /\ lane = Free
    /\ ~Outdated(pas[p].at)
    /\ wire' = wire \ {p}
    /\ Advance(pas[p].at)
    /\ CancelThrough(pas[p].at)
    /\ l1' = CASE pas[p].act = "Remove" -> Void
               [] pas[p].act = "Expire" -> Expired(l1)
               [] OTHER -> l1
    /\ IF pas[p].act = "Set" /\ l1 # Void
          THEN /\ pas' = [pas EXCEPT ![p].exp = l1,
                            ![p].fence = [gen |-> gen + 1, epoch |-> epoch]]
               /\ ppc' = [ppc EXCEPT ![p] = "fetch"]
          ELSE Over({p})
    /\ UNCHANGED <<clock, l2, lane, epoch, barrier, conn, seen, clears, pc, op, rpc, rd, wpc,
                   work, events, hist>>

\* passive: the backend read, which may fail; a failure reads as absence.
PassiveFetch(p) ==
    /\ ppc[p] = "fetch"
    /\ \/ /\ pas' = [pas EXCEPT ![p].got = l2, ![p].pending = Pending]
          /\ UNCHANGED events
       \/ Event /\ UNCHANGED pas
    /\ ppc' = [ppc EXCEPT ![p] = "lane"]
    /\ UNCHANGED <<clock, l1, l2, lane, gen, stamp, epoch, slot, net, pc, op, rpc, rd, wpc,
                   work, hist>>

\* passive from the lane lock to the second look at the fence.
PassiveEnter(p) ==
    /\ ppc[p] = "lane" /\ lane = Free
    /\ IF ~PassiveIsCurrent(pas[p].fence)
          THEN Over({p}) /\ UNCHANGED <<l1, lane>>
       ELSE IF pas[p].got = Absent
          THEN /\ l1' = IF l1 = pas[p].exp THEN Void ELSE l1
               /\ Over({p})
               /\ UNCHANGED lane
       ELSE /\ lane' = p
            /\ ppc' = [ppc EXCEPT ![p] = "insert"]
            /\ UNCHANGED <<l1, pas>>
    /\ UNCHANGED <<clock, l2, gen, stamp, epoch, slot, net, pc, op, rpc, rd, wpc, work,
                   events, hist>>

PassiveInsert(p) ==
    /\ ppc[p] = "insert"
    /\ l1' = IF l1 = pas[p].exp THEN Hydrated(pas[p]) ELSE l1
    /\ lane' = Free
    /\ Over({p})
    /\ UNCHANGED <<clock, l2, gen, stamp, epoch, slot, net, pc, op, rpc, rd, wpc, work,
                   events, hist>>

-----------------------------------------------------------------------------
(* The recovery worker: drain_once and replay_owned.                       *)

\* drain_once: a ticket whose fence has been overtaken is completed unread; one
\* that meets a lost connection is put back at once.
Claim ==
    /\ wpc = "idle"
    /\ slot # NoTicket /\ ~slot.inflight
    /\ barrier = "Ready"
    /\ IF slot.gen # gen
          THEN slot' = NoTicket /\ UNCHANGED <<wpc, work>>
          ELSE /\ seen = conn /\ Connected
               /\ slot' = [slot EXCEPT !.inflight = TRUE]
               /\ work' = slot
               /\ wpc' = "lane"
    /\ UNCHANGED <<clock, l1, l2, lane, gen, stamp, epoch, net, pc, op, rpc, rd, ppc, pas,
                   events, hist>>

\* The worker drops the ticket it cannot use: superseded tickets leave the
\* queue, paused ones wait for the connection.
Drop == IF IsCurrentTicket(work) THEN PutBack(work) ELSE Complete(work)
Proceeds == IsCurrentTicket(work) /\ Connected
Stop == wpc' = "idle" /\ work' = NoTicket

WorkerEnter ==
    /\ wpc = "lane" /\ lane = Free
    /\ seen = conn
    /\ IF Proceeds
          THEN lane' = Rec /\ wpc' = "reconcile" /\ UNCHANGED <<slot, work>>
          ELSE Drop /\ Stop /\ UNCHANGED lane
    /\ UNCHANGED <<clock, l1, l2, gen, stamp, epoch, net, pc, op, rpc, rd, ppc, pas, events,
                   hist>>

\* reconcile_replay: a backend entry created after the ticket's timestamp wins.
Overtaken(t) == l2 # Absent /\ l2.at > t

Reconcile ==
    /\ wpc = "reconcile"
    /\ seen = conn
    /\ torn' = (torn \/ (Overtaken(work.at) /\ l2.v \notin wire))
    /\ IF Overtaken(work.at)
          THEN Complete(work) /\ Stop /\ lane' = Free
       ELSE IF ~Proceeds
          THEN Drop /\ Stop /\ lane' = Free
       ELSE /\ wpc' = CASE work.kind = "Commit" -> "apply"
                        [] work.kind = "Cold" -> "cold"
                        [] OTHER -> "notify"
            /\ UNCHANGED <<slot, work, lane>>
    /\ UNCHANGED <<clock, l1, l2, gen, stamp, epoch, net, pc, op, rpc, rd, ppc, pas, events,
                   reached, acked, told>>

\* expire_current, the read: nothing to expire, a newer entry, or a copy of the
\* entry to write back as expired.
ColdRead ==
    /\ wpc = "cold"
    /\ IF l2 = Absent
          THEN /\ slot' = Staged(work)
               /\ acked' = work.gen /\ torn' = FALSE
               /\ wpc' = "notify"
               /\ UNCHANGED <<work, lane>>
       ELSE IF Overtaken(work.data.at)
          THEN Complete(work) /\ Stop /\ lane' = Free /\ UNCHANGED <<acked, torn>>
       ELSE /\ work' = [work EXCEPT !.data = Expired(l2)]
            /\ wpc' = "apply"
            /\ UNCHANGED <<slot, lane, acked, torn>>
    /\ UNCHANGED <<clock, l1, l2, gen, stamp, epoch, net, pc, op, rpc, rd, ppc, pas, events,
                   reached, told>>

\* write_data, then notification_stage.
Apply ==
    /\ wpc = "apply"
    /\ l2' = work.data
    /\ slot' = Staged(work)
    /\ reached' = work.gen /\ acked' = work.gen /\ torn' = FALSE
    /\ wpc' = "notify"
    /\ UNCHANGED <<clock, l1, lane, gen, stamp, epoch, net, pc, op, rpc, rd, work, ppc, pas,
                   events, told>>

Notify ==
    /\ wpc = "notify"
    /\ seen = conn
    /\ IF Proceeds
          THEN told' = work.gen /\ Complete(work)
          ELSE Drop /\ UNCHANGED told
    /\ lane' = Free /\ Stop
    /\ UNCHANGED <<clock, l1, l2, gen, stamp, epoch, net, pc, op, rpc, rd, ppc, pas, events,
                   reached, acked, torn>>

\* A call of the replay fails, a write with or without its effect: record_failure
\* keeps the stage the ticket has reached, or gives up after the last retry.
ReplayFails ==
    /\ wpc \in {"reconcile", "cold", "apply", "notify"}
    /\ wpc = "notify" => Proceeds
    /\ Event
    /\ \/ wpc = "apply" /\ l2' = work.data /\ reached' = work.gen
       \/ UNCHANGED <<l2, reached>>
    /\ RecordFailure(work)
    /\ torn' = (torn \/ (IsData(slot) /\ slot' = NoTicket))
    /\ lane' = Free /\ Stop
    /\ UNCHANGED <<clock, l1, gen, stamp, epoch, net, pc, op, rpc, rd, ppc, pas, acked, told>>

\* Another key's ticket takes the place of this one in a full queue, or this one
\* expires.  Neither needs the lane.
LoseTicket ==
    /\ slot # NoTicket
    /\ Event
    /\ slot' = NoTicket
    /\ torn' = (torn \/ IsData(slot))
    /\ UNCHANGED <<clock, l1, l2, lane, gen, stamp, epoch, net, pc, op, rpc, rd, wpc, work,
                   ppc, pas, reached, acked, told>>

-----------------------------------------------------------------------------

Init ==
    /\ clock = 1
    /\ l2 \in {Absent, EntryOf(Old, 1)}
    /\ l1 \in {Void} \cup {Stored(e.v, e.at) : e \in {l2} \ {Absent}}
    /\ lane = Free /\ gen = 0 /\ stamp = 0 /\ epoch = 0
    /\ slot = NoTicket /\ barrier = "Ready"
    /\ conn = 0 /\ seen = 0 /\ wire = {} /\ clears = 0
    /\ pc = [w \in Writers |-> "idle"] /\ op = [w \in Writers |-> Idle]
    /\ rpc = [r \in Readers |-> "idle"] /\ rd = [r \in Readers |-> Resting]
    /\ wpc = "idle" /\ work = NoTicket
    /\ ppc = [p \in Peers |-> "idle"] /\ pas = [p \in Peers |-> NoPassive]
    /\ events = 0
    /\ reached = 0 /\ acked = 0 /\ told = 0 /\ torn = FALSE

Mutation(w) ==
    \/ Begin(w) \/ Refused(w) \/ Enter(w) \/ RetainRead(w) \/ RetainReadFails(w)
    \/ Write(w) \/ WriteFails(w) \/ Publish(w) \/ PublishFails(w) \/ Abandon(w)
Reading(r) ==
    \/ Look(r) \/ CaptureFence(r) \/ Observe(r) \/ Fetch(r) \/ FetchFails(r)
    \/ Check(r) \/ Insert(r) \/ Fallback(r)
Worker ==
    \/ Claim \/ WorkerEnter \/ Reconcile \/ ColdRead \/ Apply \/ Notify \/ ReplayFails
    \/ LoseTicket
Peer(p) ==
    \/ PeerMutates(p) \/ Lag(p) \/ Ignore(p) \/ Receive(p) \/ PassiveFetch(p)
    \/ PassiveEnter(p) \/ PassiveInsert(p)
Link == Disconnect \/ Reconnect \/ EnsureHealth \/ ClearMemory \/ BarrierElapses

Next ==
    \/ \E w \in Writers : Mutation(w)
    \/ \E r \in Readers : Reading(r)
    \/ \E p \in Peers : Peer(p)
    \/ Worker \/ Link \/ DropLane \/ Evict \/ GoStale

Spec == Init /\ [][Next]_vars

\* What goes on by itself once begun: a mutation from its place in the lane's
\* queue (first come first served, FifoLock) to its end, the insertions under the
\* lane, the worker, the reconnection and the timers.
Continues ==
    \/ \E w \in Writers : Enter(w) \/ Refused(w) \/ RetainRead(w) \/ Write(w) \/ Publish(w)
    \/ \E r \in Readers : Insert(r)
    \/ \E p \in Peers : PassiveInsert(p)
    \/ Claim \/ WorkerEnter \/ Reconcile \/ ColdRead \/ Apply \/ Notify
    \/ Reconnect \/ EnsureHealth \/ ClearMemory \/ BarrierElapses

\* Some step that can go on is taken: as each of them is taken finitely often
\* between two outside events, this makes every one of them happen.
FairSpec == Spec /\ WF_vars(Continues)

-----------------------------------------------------------------------------
(* Properties.                                                             *)

Versions == Writers \cup Peers \cup {None, Old}
Holders == Writers \cup Readers \cup Peers \cup {Free, Rec}
L2Entries == [v : Versions, at : Nat, stale : BOOLEAN]
L1Entries == [v : Versions, at : Nat, stale : BOOLEAN, ep : Nat \cup {Local},
              src : {"local", "hydrated", "echo", "failsafe"}]
Tickets == [gen : Nat, at : Nat, kind : {"Commit", "Cold", "Notify"}, data : L2Entries,
            left : Nat, inflight : BOOLEAN]
Fences == [gen : Nat, epoch : Nat]

Mutations == [kind : Kinds \cup {"Set"}, at : Nat, fence : Nat, gen : Nat, data : L2Entries]
Reads == [fence : Fences, obs : L1Entries, got : L2Entries, pending : BOOLEAN, sel : L1Entries]
Passives == [act : Acts \cup {"Set"}, at : Nat, fence : Fences, exp : L1Entries, got : L2Entries,
             pending : BOOLEAN]

Types ==
    /\ clock \in Nat /\ gen \in Nat /\ stamp \in Nat /\ epoch \in Nat
    /\ conn \in Nat /\ seen \in Nat /\ clears \in Nat /\ events \in Nat
    /\ reached \in Nat /\ acked \in Nat /\ told \in Nat /\ torn \in BOOLEAN
    /\ l1 \in L1Entries /\ l2 \in L2Entries
    /\ slot \in Tickets /\ work \in Tickets
    /\ wire \subseteq Peers /\ barrier \in {"Ready", "After", "Disconnected"}
    /\ pc \in [Writers -> {"idle", "lane", "read", "write", "publish", "done"}]
    /\ op \in [Writers -> Mutations]
    /\ rpc \in [Readers -> {"idle", "fence", "unfenced", "observe", "fetch", "check", "insert",
                          "origin"}]
    /\ rd \in [Readers -> Reads]
    /\ ppc \in [Peers -> {"idle", "sent", "fetch", "lane", "insert", "done"}]
    /\ pas \in [Peers -> Passives]
    /\ wpc \in {"idle", "lane", "reconcile", "cold", "apply", "notify"}
    /\ lane \in Holders

InLane(w) == pc[w] \in {"read", "write", "publish"}
WorkerInLane == wpc \in {"reconcile", "cold", "apply", "notify"}

\* The lane is held by exactly the process that is between its lock and its unlock.
LaneHeld ==
    /\ \A w \in Writers : lane = w <=> InLane(w)
    /\ \A r \in Readers : lane = r <=> rpc[r] = "insert"
    /\ \A p \in Peers : lane = p <=> ppc[p] = "insert"
    /\ lane = Rec <=> WorkerInLane

\* A message in transit has not been acted on.
InTransit == \A p \in wire : ppc[p] = "sent"

\* The variables have their types, and every path of a mutation, a hydration, a
\* passive refresh or a replay that leaves the lane has released it (lane_guard in
\* cache/write.rs, cache/read.rs, cache/runtime.rs and cache/recovery.rs).
TypeOK == Types /\ LaneHeld /\ InTransit

\* How far the mutation in the lane, the queued ticket and the claimed one have
\* come, against the lane's generation and what the backend acknowledged.  This is
\* the inductive invariant behind the next three properties.
OrderInv ==
    /\ reached <= gen /\ told <= acked /\ acked <= gen
    /\ slot.gen <= gen /\ work.gen <= gen
    /\ \A w \in Writers : InLane(w) =>
          /\ op[w].gen = gen /\ slot.gen < gen /\ work.gen < gen
          /\ pc[w] = "publish" <=> acked = gen
    /\ IF IsData(slot) THEN acked < slot.gen ELSE slot.gen <= acked
    /\ wpc # "idle" /\ slot # NoTicket => work.gen <= slot.gen
    /\ WorkerInLane => work.gen = gen
    /\ wpc \in {"lane", "reconcile"} /\ work.gen = gen =>
          IF IsData(work) THEN acked < gen ELSE acked = gen
    /\ wpc \in {"cold", "apply"} => acked < gen
    /\ wpc = "notify" => acked = gen

\* Local effects on the backend and local publications happen in the order in
\* which the mutations entered the lane, replays by the recovery worker included:
\* an older mutation's late retry never undoes a newer local mutation
\* (commit_data, replay_owned).
EffectsFollowLaneOrder == [][reached' >= reached /\ told' >= told]_<<reached, told>>

\* A mutation is published to other nodes only after the backend acknowledged it,
\* so a node that refreshes on the message reads the new data (commit_data,
\* replay_owned).
DataBeforePublication == told <= acked

\* The recovery worker never writes again what the backend has acknowledged for
\* the same or a newer mutation: a retry resumes at the stage that failed
\* (notification_stage, is_current).
NoStageRepeats == wpc = "apply" => acked < work.gen

\* No work of this key is under way outside the hydrations of readers.
Settled ==
    /\ lane = Free /\ slot = NoTicket
    /\ wire = {} /\ seen = conn /\ Connected /\ clears = 0
    /\ \A p \in Peers : ppc[p] \in {"idle", "done"}
    /\ ~torn

Serves(e) == e # Void /\ ~e.stale /\ Eligible(e)

\* Once local mutations, recovery and received messages have settled, memory
\* answers reads only with the entry the backend holds, whatever mutations,
\* hydrations, passive refreshes, messages, connection gaps and replays were
\* interleaved (hydrate, passive, apply_backplane, ensure_health).  Two kinds of
\* local entry are excepted, because the code does not fence them: fail-safe copies
\* (fallback) and entries hydrated while a mutation of the key was waiting in the
\* recovery queue (hydration_fence).
MemoryAgreesWithBackend ==
    Settled /\ Serves(l1) /\ l1.src \in {"local", "hydrated"} => l1.v = l2.v

\* Nothing of this key is queued for recovery, in the lane or waiting for it.
AtRest == slot = NoTicket /\ \A w \in Writers : pc[w] \in {"idle", "done"}

\* The key comes to rest: whatever fails, a mutation queued for recovery leaves the
\* queue, replayed, superseded or given up after its retries (drain_once), and every
\* mutation that reaches the lane finishes and releases it (commit_data).
KeySettles == []<>AtRest

=============================================================================
