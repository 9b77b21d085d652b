----------------------------- MODULE MarkerReads -----------------------------
(***************************************************************************)
(* How a node with options-controlled marker reads learns the version of   *)
(* one clear marker.  A read is answered by the epoch's clear shortcut, by *)
(* a fresh observation in the node's marker memory, by a shared snapshot   *)
(* of the marker, or by the durable journal; a refresh runs under the      *)
(* node's marker lock and, with a distributed locker, under a lease that   *)
(* the snapshot store checks.  Notices from peers, continuity gaps (which  *)
(* revoke every observation of the older epoch), lost notices, faults of   *)
(* the store, lost leases and the passing of time interleave with it.      *)
(*                                                                         *)
(* A version is a number and 0 is Absent.  An observation is a version and *)
(* its authority.  Entries are compared by content where the code compares *)
(* pointers.  The policy (options, lifecycle, locker) is chosen at Init.   *)
(***************************************************************************)
EXTENDS EntryLifetime

CONSTANTS Readers, Worker, Policies, MaxTime, MaxVersion, MaxEvents, MaxEpoch, MaxReads, NoOne, Peer

VARIABLES
    now, policy, epoch,
    journal,       \* the durable maximum
    snap,          \* the shared snapshot: NoSnapshot or [version, life]
    owner,         \* the lease of the marker: NoOne, Peer or a process
    known,         \* the node's tag registry
    entry,         \* the node's marker memory: Nothing or [obs, life]
    lock,          \* the node's marker lock
    clear,         \* the clear shortcut: [epoch, outcome], epoch 0 for Unknown
    notices,       \* versions published and not yet received
    missed,        \* ghost: a notice was lost and the gap has not been noticed yet
    repair,        \* the queued snapshot replay: NoRepair or [version, life, leased]
    proc,          \* the readers and the recovery worker
    events, reads

vars == <<now, policy, epoch, journal, snap, owner, known, entry, lock, clear, notices, missed,
          repair, proc, events, reads>>

Processes == Readers \cup {Worker}

Versions == 0 .. MaxVersion

Dead == [created |-> 0, inserted |-> 0, logical |-> 0, physical |-> 0, failSafe |-> FALSE,
         eager |-> Never, stamp |-> Local]

Confirmed(v) == [kind |-> "confirmed", version |-> v]

KnownMaximum(v) == [kind |-> "known", version |-> v]

Retained(v) == [kind |-> "retained", version |-> v]

LocalFact(v) == [kind |-> "local", version |-> v]

Observations == [kind : {"confirmed", "known", "retained", "local"}, version : Versions]

Nothing == [obs |-> Confirmed(0), life |-> Dead]

NoSnapshot == [version |-> 0, life |-> Dead]

NoRepair == [version |-> 0, life |-> Dead, leased |-> FALSE]

Unobserved == [kind |-> "unobserved", version |-> 0, life |-> Dead]

Unknown == [epoch |-> 0, outcome |-> "none"]

Idle ==
    [pc |-> "idle", eager |-> FALSE, captured |-> 0, cached |-> Nothing, read |-> Unobserved,
     leased |-> FALSE, obs |-> Confirmed(0), life |-> Dead, made |-> FALSE, seen |-> Nothing, next |-> "none",
     outcome |-> "none", floor |-> 0]

Init ==
    /\ now = 0
    /\ policy \in Policies
    /\ epoch = 1
    /\ journal \in 0 .. 1
    /\ snap = NoSnapshot
    /\ owner = NoOne
    /\ known = 0
    /\ entry = Nothing
    /\ lock = NoOne
    /\ clear = Unknown
    /\ notices = {}
    /\ missed = FALSE
    /\ repair = NoRepair
    /\ proc = [p \in Processes |-> Idle]
    /\ events = 0
    /\ reads = 0

Eventful == events < MaxEvents /\ events' = events + 1

(***************************************************************************)
(* Observations.                                                           *)
(***************************************************************************)
\* A bug: the answer of the store replaces what the node already knows.
ReconcileNothing(o, maximum) == o

Reconcile(o, maximum) == IF maximum > o.version THEN KnownMaximum(maximum) ELSE o

\* The outcome of reusing a stored observation, and of having just made it.
OutcomeOf(o) ==
    CASE o.kind = "confirmed" -> "cached" [] o.kind = "known" -> "known"
      [] o.kind = "retained" -> "stale" [] OTHER -> "local"

ObservedOutcome(o) == IF o.kind = "confirmed" THEN "observed" ELSE OutcomeOf(o)

\* get_at: the live observation of this epoch.
Observed == IF entry # Nothing /\ Reusable(entry.life, now, epoch) THEN entry ELSE Nothing

FreshEntry(e) == e # Nothing /\ IsFresh(e.life, now)

FallbackEligible(e) == policy.failSafe /\ e # Nothing /\ Reusable(e.life, now, epoch)

(***************************************************************************)
(* The shared snapshot store (external): every answer carries the maximum  *)
(* of the journal, and a renewal never replaces a newer snapshot.          *)
(***************************************************************************)
SnapshotLive == snap # NoSnapshot /\ ~IsPhysicallyExpired(snap.life, now)

ReadSnapshot ==
    IF SnapshotLive
    THEN [kind |-> "snapshot", version |-> Greatest(snap.version, journal), life |-> snap.life]
    ELSE [kind |-> "missing", version |-> journal, life |-> Dead]

ReadDurable == [Unobserved EXCEPT !.kind = "durable", !.version = journal]

Supersedes(s, t) == s.version > t.version \/ (s.version = t.version /\ s.life.created > t.life.created)

Renewed(s) ==
    IF SnapshotLive /\ Supersedes(snap, s) THEN snap
    ELSE [s EXCEPT !.version = Greatest(s.version, journal)]

SnapshotOf(version, created) ==
    [version |-> version, life |-> DistributedFresh(policy, created, created)]

(***************************************************************************)
(* A read begins: the shortcut, then the observation in memory.            *)
(***************************************************************************)
\* Whatever is taken from memory raises the registry (accept_marker_observation).
Accepts(version) == known' = Greatest(known, version)

Finishes(p, outcome) ==
    proc' = [proc EXCEPT ![p] = [Idle EXCEPT !.pc = "finish", !.captured = proc[p].captured,
                                             !.outcome = outcome, !.floor = proc[p].floor]]

\* The caller has its answer; what it observed, and since when, is kept for the properties.
Done(q, outcome) ==
    IF outcome = "observed" THEN [Idle EXCEPT !.pc = "done", !.outcome = outcome, !.floor = q.floor]
    ELSE Idle

Shared == <<now, policy, epoch, journal, snap, notices, missed, repair>>

Begin(r) ==
    LET started == [Idle EXCEPT !.captured = epoch, !.floor = journal]
    IN  /\ proc[r].pc \in {"idle", "done"} /\ reads < MaxReads
        /\ reads' = reads + 1
        /\ IF policy.shortcut /\ clear.epoch = epoch
           THEN /\ proc' = [proc EXCEPT ![r] = Done(started, clear.outcome)]
                /\ UNCHANGED known
           ELSE /\ Accepts(Observed.obs.version)
                /\ proc' = [proc EXCEPT ![r] =
                      IF FreshEntry(Observed)
                      THEN [started EXCEPT !.pc = "finish", !.outcome = OutcomeOf(Observed.obs)]
                      ELSE [started EXCEPT !.pc = "lock", !.cached = Observed]]
        /\ UNCHANGED <<Shared, owner, entry, lock, clear, events>>

\* The marker lock is free, or the wait for it is over.  A waiter with a usable
\* observation leaves it alone: the holder will refresh it.
Lock(r) ==
    /\ proc[r].pc = "lock" /\ lock = NoOne
    /\ lock' = r
    /\ proc' = [proc EXCEPT ![r].pc = "look"]
    /\ UNCHANGED <<Shared, owner, known, entry, clear, events, reads>>

LockTimesOut(r) ==
    LET cached == proc[r].cached
    IN  /\ proc[r].pc = "lock" /\ lock # NoOne
        /\ (IF policy.lock = Never /\ FallbackEligible(cached) THEN policy.soft ELSE policy.lock) # Never
        /\ IF FallbackEligible(cached)
           THEN Finishes(r, "stale")
           ELSE proc' = [proc EXCEPT ![r].pc = "look"]
        /\ Eventful
        /\ UNCHANGED <<Shared, owner, known, entry, lock, clear, reads>>

\* A memory-only cache selects what it knows, or that nothing was ever cleared here.
LocalObservation == Reconcile(LocalFact(0), Greatest(known, Observed.obs.version))

\* The second look, under the lock.  A memory-only cache has no one to ask.
Look(r) ==
    /\ proc[r].pc = "look"
    /\ Accepts(Observed.obs.version)
    /\ proc' = [proc EXCEPT ![r] =
          IF FreshEntry(Observed)
          THEN [@ EXCEPT !.pc = "release", !.outcome = OutcomeOf(Observed.obs)]
          ELSE CASE policy.lifecycle = "local" ->
                      [@ EXCEPT !.pc = "factory", !.cached = Observed, !.obs = LocalObservation]
                 [] policy.lifecycle = "durable" /\ policy.skipRead ->
                      [@ EXCEPT !.pc = "release", !.outcome = "skipped"]
                 [] policy.lifecycle = "snapshots" /\ policy.skipRead ->
                      [@ EXCEPT !.pc = "lease", !.cached = Observed]
                 [] OTHER -> [@ EXCEPT !.pc = "fetch", !.cached = Observed]]
    /\ UNCHANGED <<Shared, owner, entry, lock, clear, events, reads>>

(***************************************************************************)
(* The remote read: the store answers, and the answer arrives later.       *)
(***************************************************************************)
Fetch(r) ==
    /\ proc[r].pc = "fetch"
    /\ proc' = [proc EXCEPT ![r].pc = "resolve",
                            ![r].read = IF policy.lifecycle = "snapshots" THEN ReadSnapshot ELSE ReadDurable]
    /\ UNCHANGED <<Shared, owner, known, entry, lock, clear, events, reads>>

\* A fault or a deadline that the policy does not rethrow leaves the read unobserved.
FetchFails(r) ==
    /\ proc[r].pc = "fetch"
    /\ proc' = [proc EXCEPT ![r] =
          CASE policy.rethrow -> [@ EXCEPT !.pc = "release", !.outcome = "error"]
            [] ~policy.rethrow /\ proc[r].eager /\ proc[r].captured # epoch -> [@ EXCEPT !.pc = "release"]
            [] ~policy.rethrow /\ policy.lifecycle = "durable" ->
                 [@ EXCEPT !.pc = "retain", !.next = "release"]
            [] OTHER -> [@ EXCEPT !.pc = "lease", !.read = Unobserved]]
    /\ Eventful
    /\ UNCHANGED <<Shared, owner, known, entry, lock, clear, reads>>

\* An observation to be admitted to the memory, and what follows.
Admitting(q, obs, life, next) ==
    [q EXCEPT !.pc = "admit", !.obs = obs, !.life = life, !.next = next,
              !.read = Unobserved, !.cached = Nothing, !.outcome = ObservedOutcome(obs)]

Hydration(read) == MemoryHydration(Rehydrated(read.life, now), policy, now)

\* What an eager refresh makes of a snapshot: it must be news.
IsNews(r, read) ==
    proc[r].eager => \/ read.life.created > proc[r].cached.life.created
                     \/ read.life.logical > proc[r].cached.life.logical

Resolve(r) ==
    LET read    == proc[r].read
        maximum == Greatest(known, read.version)
    IN  /\ proc[r].pc = "resolve"
        /\ Accepts(read.version)
        /\ proc' = [proc EXCEPT ![r] =
              CASE proc[r].eager /\ proc[r].captured # epoch -> [@ EXCEPT !.pc = "release"]
                [] read.kind = "durable" ->
                     Admitting(@, Reconcile(Confirmed(read.version), maximum),
                               Fresh(policy, now, now, 0), "release")
                [] read.kind = "snapshot" /\ IsFresh(read.life, now) /\ IsNews(r, read) ->
                     Admitting(@, Reconcile(Confirmed(read.version), maximum), Hydration(read), "release")
                [] OTHER -> [@ EXCEPT !.pc = "lease"]]
        /\ UNCHANGED <<Shared, owner, entry, lock, clear, events, reads>>

(***************************************************************************)
(* The lease.  Contention ends a fenced or an eager refresh; a cooperative *)
(* one goes on without.                                                    *)
(***************************************************************************)
Acquire(r) ==
    /\ proc[r].pc = "lease"
    /\ CASE policy.locker = "none" ->
              /\ proc' = [proc EXCEPT ![r].pc = "leased"]
              /\ UNCHANGED owner
         [] policy.locker # "none" /\ owner = NoOne ->
              /\ owner' = r
              /\ proc' = [proc EXCEPT ![r].leased = TRUE,
                            ![r].pc = IF policy.skipRead \/ proc[r].eager THEN "leased" ELSE "refetch"]
         [] OTHER ->
              /\ proc' = [proc EXCEPT ![r] =
                    CASE proc[r].eager -> [@ EXCEPT !.pc = "release"]
                      [] ~proc[r].eager /\ policy.locker = "fenced" ->
                           [@ EXCEPT !.pc = "release", !.outcome = "error"]
                      [] OTHER -> [@ EXCEPT !.pc = "leased"]]
              /\ UNCHANGED owner
    /\ UNCHANGED <<Shared, known, entry, lock, clear, events, reads>>

\* The recheck under the lease; its failure keeps the first answer.
Refetch(r) ==
    /\ proc[r].pc = "refetch"
    /\ \/ /\ proc' = [proc EXCEPT ![r].pc = "leased", ![r].read = ReadSnapshot]
          /\ UNCHANGED events
       \/ /\ proc' = [proc EXCEPT ![r] =
                IF policy.rethrow THEN [@ EXCEPT !.pc = "release", !.outcome = "error"]
                ELSE [@ EXCEPT !.pc = "leased"]]
          /\ Eventful
    /\ UNCHANGED <<Shared, owner, known, entry, lock, clear, reads>>

\* lease.proof(): the process has learnt that its lease is gone.
LeaseLost(p) ==
    /\ proc[p].pc \in {"leased", "factory", "commit"} /\ proc[p].leased /\ owner # p
    /\ proc' = [proc EXCEPT ![p].pc = "release", ![p].outcome = "error"]
    /\ UNCHANGED <<Shared, owner, known, entry, lock, clear, events, reads>>

(***************************************************************************)
(* The refresh proper: what the node will hold the marker's version to be. *)
(***************************************************************************)

\* What is known without a read: the registry and the cached observation, if anything.
UnobservedFact(r) ==
    LET maximum == Greatest(known, proc[r].cached.obs.version)
    IN  IF maximum = 0 THEN LocalFact(0) ELSE KnownMaximum(maximum)

\* A cached observation is the stale value of the factory unless a snapshot was read.
ResolveLeased(r) ==
    LET read == proc[r].read
    IN  /\ proc[r].pc = "leased"
        /\ Accepts(read.version)
        /\ proc' = [proc EXCEPT ![r] =
              CASE read.kind = "snapshot" /\ ~proc[r].eager /\ IsFresh(read.life, now) ->
                     Admitting(@, Reconcile(Confirmed(read.version), known), Hydration(read), "release")
                [] read.kind = "snapshot" ->
                     [@ EXCEPT !.pc = "factory", !.obs = KnownMaximum(read.version)]
                [] read.kind = "missing" ->
                     [@ EXCEPT !.pc = "factory", !.obs = Confirmed(read.version)]
                [] OTHER -> [@ EXCEPT !.pc = "factory", !.obs = UnobservedFact(r)]]
        /\ UNCHANGED <<Shared, owner, entry, lock, clear, events, reads>>

HasFallback(r) ==
    /\ policy.failSafe
    /\ IF proc[r].read.kind = "snapshot"
       THEN ~IsPhysicallyExpired(proc[r].read.life, now)
       ELSE FallbackEligible(proc[r].cached)

Excluded(r) == ~proc[r].eager /\ FactoryTimeout(policy, HasFallback(r)) = 0

\* A failed fence must not leave a fresh local observation.
AwaitsFence(r, obs) ==
    policy.locker = "fenced" /\ proc[r].leased /\ obs.version > 0 /\ ~policy.skipWrite

Written(obs) == policy.lifecycle = "snapshots" /\ obs.version > 0 /\ ~policy.skipWrite

\* A read that observed nothing and knows nothing has nothing to admit.
Factory(r) ==
    LET obs == Reconcile(proc[r].obs, known)
    IN  /\ proc[r].pc = "factory"
        /\ proc' = [proc EXCEPT ![r] =
              CASE Excluded(r) /\ ~policy.failSafe -> [@ EXCEPT !.pc = "release", !.outcome = "error"]
                [] Excluded(r) /\ policy.failSafe ->
                     [@ EXCEPT !.pc = "retain", !.obs = obs, !.next = "release"]
                [] ~Excluded(r) /\ obs = LocalFact(0) /\ policy.lifecycle = "snapshots" ->
                     [@ EXCEPT !.pc = "release", !.outcome = "unavailable"]
                [] ~Excluded(r) /\ AwaitsFence(r, obs) ->
                     [@ EXCEPT !.pc = "commit", !.obs = obs, !.next = "admit", !.made = TRUE,
                               !.life = Fresh(policy, now, now, 0), !.outcome = ObservedOutcome(obs)]
                [] OTHER -> Admitting([@ EXCEPT !.made = TRUE], obs, Fresh(policy, now, now, 0),
                                      IF Written(obs) THEN "commit" ELSE "release")]
        /\ UNCHANGED <<Shared, owner, known, entry, lock, clear, events, reads>>

\* Fail-safe: the stale observation is throttled, if it is still there.
Retain(r) ==
    LET source == proc[r].cached
    IN  /\ proc[r].pc = "retain"
        /\ CASE proc[r].read.kind = "snapshot" /\ HasFallback(r) ->
                  /\ proc' = [proc EXCEPT ![r] =
                        Admitting(@, Retained(proc[r].obs.version),
                                  Throttled(Rehydrated(proc[r].read.life, now), policy, now), "release")]
                  /\ UNCHANGED <<entry, known>>
             [] proc[r].read.kind # "snapshot" /\ FallbackEligible(source) ->
                  /\ entry' = IF Observed = source
                              THEN [obs  |-> Retained(source.obs.version),
                                    life |-> Throttled(source.life, policy, now)]
                              ELSE entry
                  /\ Accepts(Greatest(source.obs.version, Observed.obs.version))
                  /\ proc' = [proc EXCEPT ![r].pc = "release", ![r].outcome = "stale"]
             [] OTHER ->
                  /\ proc' = [proc EXCEPT ![r].pc = "release", ![r].outcome = "unavailable"]
                  /\ UNCHANGED <<entry, known>>
        /\ UNCHANGED <<Shared, owner, lock, clear, events, reads>>

(***************************************************************************)
(* admit_observation and merge_maximum: read, merge, compare and swap.  An *)
(* entry carries the epoch its reader captured, so one that arrives after  *)
(* a gap is never read.                                                    *)
(***************************************************************************)
Continues(q) ==
    [q EXCEPT !.pc = q.next, !.seen = Nothing, !.next = IF q.next = "commit" THEN "merge" ELSE "release"]

Admit(p) ==
    /\ proc[p].pc = "admit"
    /\ proc' = [proc EXCEPT ![p] = IF @.captured # epoch THEN Continues(@)
                                   ELSE [@ EXCEPT !.pc = "swap", !.seen = Observed]]
    /\ UNCHANGED <<Shared, owner, known, entry, lock, clear, events, reads>>

Swap(p) ==
    LET merged == Reconcile(proc[p].obs, proc[p].seen.obs.version)
    IN  /\ proc[p].pc = "swap"
        /\ IF Observed = proc[p].seen
           THEN /\ entry' = [obs |-> merged, life |-> Hydrated(proc[p].life, proc[p].captured)]
                /\ Accepts(merged.version)
                /\ proc' = [proc EXCEPT ![p] = Continues([@ EXCEPT !.obs = merged,
                                                            !.outcome = ObservedOutcome(merged)])]
           ELSE /\ proc' = [proc EXCEPT ![p].pc = "admit"]
                /\ UNCHANGED <<entry, known>>
        /\ UNCHANGED <<Shared, owner, lock, clear, events, reads>>

Merge(p) ==
    LET merged == Reconcile(Observed.obs, proc[p].obs.version)
    IN  /\ proc[p].pc = "merge"
        /\ IF proc[p].captured = epoch /\ Observed # Nothing
           THEN /\ entry' = [entry EXCEPT !.obs = merged]
                /\ Accepts(merged.version)
           ELSE UNCHANGED <<entry, known>>
        /\ proc' = [proc EXCEPT ![p].pc = "release"]
        /\ UNCHANGED <<Shared, owner, lock, clear, events, reads>>

(***************************************************************************)
(* commit_control_snapshot: a fenced write needs the lease at the store.   *)
(***************************************************************************)
Commit(p) ==
    LET candidate == SnapshotOf(proc[p].obs.version, proc[p].life.created)
        refused   == policy.locker = "fenced" /\ proc[p].leased /\ owner # p
        answer    == Greatest(snap'.version, journal)
    IN  /\ proc[p].pc = "commit"
        /\ CASE proc[p].captured # epoch ->
                  /\ proc' = [proc EXCEPT ![p].pc = "release"]
                  /\ UNCHANGED <<snap, known>>
             [] proc[p].captured = epoch /\ refused ->
                  /\ proc' = [proc EXCEPT ![p].pc = "release", ![p].outcome = "error"]
                  /\ UNCHANGED <<snap, known>>
             [] OTHER ->
                  IF IsPhysicallyExpired(candidate.life, now)
                  THEN /\ proc' = [proc EXCEPT ![p].pc = "release"]
                       /\ UNCHANGED <<snap, known>>
                  ELSE /\ snap' = Renewed(candidate)
                       /\ Accepts(answer)
                       /\ proc' = [proc EXCEPT ![p].pc = proc[p].next, ![p].next = "release",
                                      ![p].obs = Reconcile(proc[p].obs, answer)]
        /\ repair' = IF p = Worker /\ proc'[p].outcome # "error" /\ proc[p].captured = epoch
                     THEN NoRepair ELSE repair
        /\ UNCHANGED <<now, policy, epoch, journal, notices, missed, owner, entry, lock, clear,
                       events, reads>>

\* The store fails: nothing is admitted, and the write is queued for the recovery worker.
CommitFails(p) ==
    /\ proc[p].pc = "commit"
    /\ repair' = IF p = Worker THEN repair
                 ELSE [version |-> proc[p].obs.version, leased |-> proc[p].leased,
                       life |-> SnapshotOf(proc[p].obs.version, proc[p].life.created).life]
    /\ proc' = [proc EXCEPT ![p].pc = "release",
                            ![p].outcome = IF policy.rethrow \/ p = Worker THEN "error" ELSE @]
    /\ Eventful
    /\ UNCHANGED <<now, policy, epoch, journal, snap, notices, missed, owner, known, entry, lock,
                   clear, reads>>

\* The worker replays a queued snapshot under a lease of its own.
Replay ==
    /\ proc[Worker].pc = "idle" /\ repair # NoRepair
    /\ repair.leased => owner = NoOne
    /\ owner' = IF repair.leased THEN Worker ELSE owner
    /\ proc' = [proc EXCEPT ![Worker] =
          [Idle EXCEPT !.pc = "commit", !.next = "merge", !.captured = epoch,
                       !.leased = repair.leased, !.obs = Confirmed(repair.version),
                       !.life = [Dead EXCEPT !.created = repair.life.created]]]
    /\ UNCHANGED <<Shared, known, entry, lock, clear, events, reads>>

(***************************************************************************)
(* The end of a read.                                                      *)
(***************************************************************************)
\* What the refresh selected is reported with what the node has learnt since.
Reported(q) == IF q.made THEN ObservedOutcome(Reconcile(q.obs, known)) ELSE q.outcome

Release(p) ==
    /\ proc[p].pc = "release"
    /\ owner' = IF owner = p THEN NoOne ELSE owner
    /\ lock' = IF lock = p THEN NoOne ELSE lock
    /\ IF p = Worker \/ proc[p].eager \/ proc[p].outcome = "error"
       THEN proc' = [proc EXCEPT ![p] = Idle]
       ELSE Finishes(p, Reported(proc[p]))
    /\ UNCHANGED <<Shared, known, entry, clear, events, reads>>

\* An eager refresh is due: claim it by a swap, take the lock, go on in the background.
EagerDue ==
    /\ policy.eager > 0 /\ policy.lifecycle # "durable"
    /\ Observed # Nothing /\ ShouldEagerRefresh(Observed.life, now)

Finish(r) ==
    LET shortcut == policy.shortcut /\ proc[r].captured = epoch
    IN  /\ proc[r].pc = "finish"
        /\ IF ~shortcut /\ EagerDue
           THEN /\ entry' = [entry EXCEPT !.life = WithoutEagerRefresh(entry.life)]
                /\ Accepts(entry.obs.version)
                /\ IF proc[r].captured = epoch /\ lock = NoOne
                   THEN /\ lock' = r
                        /\ proc' = [proc EXCEPT ![r] =
                              [Idle EXCEPT !.eager = TRUE, !.captured = epoch, !.cached = entry',
                                           !.pc = IF policy.lifecycle = "local" THEN "refresh"
                                                  ELSE IF policy.skipRead THEN "lease" ELSE "fetch"]]
                   ELSE /\ proc' = [proc EXCEPT ![r] = Done(@, @.outcome)]
                        /\ UNCHANGED lock
           ELSE /\ proc' = [proc EXCEPT ![r] = IF shortcut THEN [@ EXCEPT !.pc = "initialize"]
                                               ELSE Done(@, @.outcome)]
                /\ UNCHANGED <<entry, known, lock>>
        /\ UNCHANGED <<Shared, owner, clear, events, reads>>

\* The background refresh of a memory-only cache, unless a gap has overtaken it.
RefreshLocal(r) ==
    /\ proc[r].pc = "refresh"
    /\ proc' = [proc EXCEPT ![r] =
          IF @.captured # epoch THEN [@ EXCEPT !.pc = "release"]
          ELSE [@ EXCEPT !.pc = "factory", !.cached = Observed, !.obs = LocalObservation]]
    /\ UNCHANGED <<Shared, owner, known, entry, lock, clear, events, reads>>

\* A bug: the outcome is recorded for the epoch of the moment.
ShortcutEpochNow(captured) == epoch

ShortcutEpoch(captured) == captured

\* initialize_clear: the outcome stands for the epoch the read captured.
Initialize(r) ==
    /\ proc[r].pc = "initialize"
    /\ clear' = [epoch   |-> ShortcutEpoch(proc[r].captured),
                 outcome |-> IF proc[r].outcome = "observed" THEN "cached" ELSE proc[r].outcome]
    /\ proc' = [proc EXCEPT ![r] = Done(@, @.outcome)]
    /\ UNCHANGED <<Shared, owner, known, entry, lock, events, reads>>

\* A bug: the dropped read forgets to give the lock back.
LeaveKeepsLock(r) ==
    /\ proc[r].pc \in {"lock", "fetch", "refetch", "commit"} /\ ~proc[r].eager
    /\ owner' = IF owner = r THEN NoOne ELSE owner
    /\ proc' = [proc EXCEPT ![r] = Idle]
    /\ Eventful
    /\ UNCHANGED <<Shared, known, entry, lock, clear, reads>>

\* A caller drops the read; its lock and lease go with it.
Leave(r) ==
    /\ proc[r].pc \in {"lock", "fetch", "refetch", "commit"} /\ ~proc[r].eager
    /\ owner' = IF owner = r THEN NoOne ELSE owner
    /\ lock' = IF lock = r THEN NoOne ELSE lock
    /\ proc' = [proc EXCEPT ![r] = Idle]
    /\ Eventful
    /\ UNCHANGED <<Shared, known, entry, clear, reads>>

(***************************************************************************)
(* The world: peers, notices, gaps, lost leases, time.                     *)
(***************************************************************************)
PeerAdvances ==
    /\ journal < MaxVersion
    /\ journal' = journal + 1
    /\ notices' = notices \cup {journal + 1}
    /\ \E populates \in BOOLEAN :
         snap' = IF populates THEN Renewed(SnapshotOf(journal + 1, now)) ELSE snap
    /\ Eventful
    /\ UNCHANGED <<now, policy, epoch, missed, repair, owner, known, entry, lock, clear, proc, reads>>

\* A notice: the registry, the observation and the shortcut take it in (seed_marker).
Receive(v) ==
    LET obs == Reconcile(Confirmed(v), Greatest(known, Observed.obs.version))
    IN  /\ v \in notices
        /\ notices' = notices \ {v}
        /\ Accepts(obs.version)
        /\ entry' = [obs |-> obs, life |-> Hydrated(Fresh(policy, now, now, 0), epoch)]
        /\ clear' = IF policy.shortcut THEN [epoch |-> epoch, outcome |-> OutcomeOf(obs)] ELSE clear
        /\ UNCHANGED <<now, policy, epoch, journal, snap, missed, repair, owner, lock, proc, events, reads>>

LoseNotice(v) ==
    /\ v \in notices
    /\ notices' = notices \ {v}
    /\ missed' = TRUE
    /\ Eventful
    /\ UNCHANGED <<now, policy, epoch, journal, snap, repair, owner, known, entry, lock, clear, proc, reads>>

\* continuity_gap: a new epoch, an empty memory, no shortcut.
Gap ==
    /\ epoch < MaxEpoch
    /\ epoch' = epoch + 1
    /\ missed' = FALSE
    /\ entry' = Nothing
    /\ clear' = Unknown
    /\ IF missed THEN UNCHANGED events ELSE Eventful
    /\ UNCHANGED <<now, policy, journal, snap, notices, repair, owner, known, lock, proc, reads>>

\* A lease changes hands: it expired, or a peer takes it or gives it back.
LeaseMoves ==
    /\ policy.locker # "none"
    /\ owner' \in {NoOne, Peer} \ {owner}
    /\ Eventful
    /\ UNCHANGED <<Shared, known, entry, lock, clear, proc, reads>>

Tick ==
    /\ now < MaxTime
    /\ now' = now + 1
    /\ UNCHANGED <<policy, epoch, journal, snap, notices, missed, repair, owner, known, entry, lock,
                   clear, proc, events, reads>>

Steps(p) ==
    \/ Lock(p) \/ Look(p) \/ Fetch(p) \/ FetchFails(p) \/ Resolve(p) \/ Acquire(p) \/ Refetch(p)
    \/ LeaseLost(p) \/ RefreshLocal(p) \/ ResolveLeased(p) \/ Factory(p) \/ Retain(p) \/ Admit(p) \/ Swap(p) \/ Merge(p) \/ Commit(p)
    \/ CommitFails(p) \/ Release(p) \/ Finish(p) \/ Initialize(p)

Next ==
    \/ \E r \in Readers : Begin(r) \/ LockTimesOut(r) \/ Leave(r)
    \/ \E p \in Processes : Steps(p)
    \/ \E v \in Versions : Receive(v) \/ LoseNotice(v)
    \/ Replay \/ PeerAdvances \/ Gap \/ LeaseMoves \/ Tick

Spec == Init /\ [][Next]_vars

\* Some task that can go on is polled: the store answers or fails, a free lock is taken.
FairSpec == Spec /\ WF_vars(\E p \in Processes : Steps(p))

------------------------------------------------------------------------------
TypeOK ==
    /\ now \in 0 .. MaxTime /\ epoch \in 1 .. MaxEpoch
    /\ journal \in Versions /\ known \in Versions /\ notices \subseteq Versions
    /\ entry \in {Nothing} \cup [obs : Observations, life : Entries]
    /\ snap \in [version : Versions, life : Entries]
    /\ repair \in [version : Versions, life : Entries, leased : BOOLEAN]
    /\ owner \in Processes \cup {NoOne, Peer} /\ lock \in Processes \cup {NoOne}
    /\ clear.epoch \in 0 .. MaxEpoch

\* A read that reports Observed leaves the node knowing every version that was durable
\* when the read began: a skipped, failed or outdated answer is never passed off as one.
ObservedIsCurrent ==
    \A r \in Readers :
        proc[r].pc = "done" /\ proc[r].outcome = "observed" => known >= proc[r].floor

\* While a shortcut of this epoch says the clear marker has been observed, the node knows
\* the durable version, or a notice of it is on its way, or the node has yet to learn that
\* it missed one.
ShortcutCovers ==
    policy.shortcut /\ clear.epoch = epoch /\ clear.outcome \in {"cached", "known"} =>
        known >= journal \/ (\E v \in notices : v >= journal) \/ missed

\* "A failed native fence must not leave a fresh local observation": a fenced refresh is
\* about to admit the version it selected only if the store holds a snapshot at least as new.
FenceFirst ==
    \A r \in Readers :
        /\ proc[r].pc = "swap" /\ proc[r].made /\ proc[r].leased /\ policy.locker = "fenced"
        /\ proc[r].obs.version > 0
        => /\ snap # NoSnapshot
           /\ proc[r].obs.kind = "confirmed" => snap.version >= proc[r].obs.version

\* What the node believes of its markers at every moment.
ObservationInv == TypeOK /\ ObservedIsCurrent /\ ShortcutCovers /\ FenceFirst

\* Within an epoch the version a live observation carries never falls, whichever of the
\* late answers, notices, renewals and fail-safe copies is admitted last.
ObservationMonotone ==
    [][ epoch' = epoch /\ Observed # Nothing => entry'.obs.version >= entry.obs.version ]_vars

\* Every read ends and gives back the marker lock and the lease.
ReadsEnd == []<>(\A p \in Processes : proc[p].pc \in {"idle", "done"} /\ {lock, owner} \subseteq {NoOne, Peer})

=============================================================================
