---------------------------- MODULE EntryLifetime ----------------------------
(***************************************************************************)
(* The lifetime of a cached representation: the two deadlines of an entry  *)
(* (logical: until when it is fresh; physical: until when it may still be  *)
(* served stale), the eager-refresh boundary and the continuity stamp, and *)
(* every constructor that derives one entry from another.                  *)
(*                                                                         *)
(* A Timestamp is a number of ticks that saturates at Forever.  An absent  *)
(* eager boundary and an infinite timeout are both Never, which is after   *)
(* every timestamp.  Sizes, priorities, tags, etags and the value itself   *)
(* do not take part in the deadlines and are left out.                     *)
(***************************************************************************)
EXTENDS Integers

CONSTANT Forever

ASSUME ForeverAssumption == Forever \in Nat

Timestamps == 0 .. Forever

Never == Forever + 1

\* The stamp of an entry that no continuity epoch can revoke (Eligibility::Local).
Local == -1

(***************************************************************************)
(* Entry options: the resolved durations, the fail-safe settings, the      *)
(* eager threshold as a percentage (0: none) and the four timeouts.        *)
(***************************************************************************)
Options ==
    [memory : Nat, distributed : Nat, failSafe : BOOLEAN, maximum : Nat,
     distributedMaximum : Nat, throttle : Nat, jitter : Nat, eager : 0 .. 100,
     soft : 0 .. Never, hard : 0 .. Never,
     distributedSoft : 0 .. Never, distributedHard : 0 .. Never]

Entries ==
    [created : Timestamps, inserted : Timestamps, logical : Timestamps, physical : Timestamps,
     failSafe : BOOLEAN, eager : 0 .. Never, stamp : Nat \cup {Local}]

Least(a, b) == IF a <= b THEN a ELSE b

Greatest(a, b) == IF a <= b THEN b ELSE a

SaturatingAdd(t, d) == Least(t + d, Forever)

Since(t, earlier) == Greatest(t - earlier, 0)

(***************************************************************************)
(* What the options select.                                                *)
(***************************************************************************)
PhysicalTtl(o) == IF o.failSafe THEN Greatest(o.memory, o.maximum) ELSE o.memory

DistributedPhysicalTtl(o) ==
    IF o.failSafe THEN Greatest(o.distributed, o.distributedMaximum) ELSE o.distributed

FactoryTimeout(o, hasFallback) ==
    Least(IF o.failSafe /\ hasFallback THEN o.soft ELSE Never, o.hard)

DistributedTimeout(o, hasFallback) ==
    Least(IF o.failSafe /\ hasFallback THEN o.distributedSoft ELSE Never, o.distributedHard)

EagerBoundary(o, from, logical) ==
    IF o.eager = 0 \/ logical <= from
    THEN Never
    ELSE SaturatingAdd(from, (Since(logical, from) * o.eager) \div 100)

(***************************************************************************)
(* Questions about an entry.                                               *)
(***************************************************************************)
IsFresh(e, now) == now < e.logical

IsPhysicallyExpired(e, now) == now >= e.physical

ShouldEagerRefresh(e, now) == e.eager <= now /\ now < e.logical

IsReadEligible(e, epoch) == e.stamp \in {Local, epoch}

\* A stale representation that fail-safe may still serve.
Reusable(e, now, epoch) == IsReadEligible(e, epoch) /\ ~IsPhysicallyExpired(e, now)

BackendTtl(e, now) == Since(e.physical, now)

(***************************************************************************)
(* Constructors.                                                           *)
(***************************************************************************)
\* A value the origin produced for a lookup that started at created; its deadlines
\* start when it is inserted.
Fresh(o, created, inserted, jitter) ==
    LET logical == SaturatingAdd(SaturatingAdd(inserted, o.memory), jitter)
    IN  [created |-> created, inserted |-> inserted, logical |-> logical,
         physical |-> Greatest(SaturatingAdd(inserted, PhysicalTtl(o)), logical),
         failSafe |-> FALSE, eager |-> EagerBoundary(o, inserted, logical), stamp |-> Local]

\* The representation written to the second level carries that level's deadlines.
DistributedFresh(o, created, inserted) ==
    LET logical == SaturatingAdd(inserted, o.distributed)
    IN  [created |-> created, inserted |-> inserted, logical |-> logical,
         physical |-> Greatest(SaturatingAdd(inserted, DistributedPhysicalTtl(o)), logical),
         failSafe |-> FALSE, eager |-> Never, stamp |-> Local]

Throttled(e, o, now) ==
    [e EXCEPT !.inserted = now, !.logical = Least(SaturatingAdd(now, o.throttle), e.physical),
              !.failSafe = TRUE, !.eager = Never]

\* The stale default a caller supplies for a key that has no value to fall back on.
FailSafeDefault(o, now) ==
    LET physical == SaturatingAdd(now, PhysicalTtl(o))
    IN  [created |-> now, inserted |-> now,
         logical |-> Least(SaturatingAdd(now, o.throttle), physical), physical |-> physical,
         failSafe |-> TRUE, eager |-> Never, stamp |-> Local]

Expired(e, at, now) ==
    [e EXCEPT !.logical = Least(at, e.physical), !.inserted = now, !.eager = Never]

Rehydrated(e, now) == [e EXCEPT !.inserted = now, !.eager = Never, !.stamp = Local]

MemoryHydration(e, o, now) ==
    LET logical == Least(e.logical, SaturatingAdd(now, o.memory))
    IN  [e EXCEPT !.inserted = now, !.logical = logical,
                  !.physical = Greatest(Least(e.physical, SaturatingAdd(now, PhysicalTtl(o))), logical),
                  !.eager = IF e.failSafe THEN Never ELSE EagerBoundary(o, now, logical)]

Hydrated(e, epoch) == [e EXCEPT !.stamp = epoch]

WithoutEagerRefresh(e) == [e EXCEPT !.eager = Never]

AtInsertion(e, now) == [e EXCEPT !.inserted = now]

(***************************************************************************)
(* What the constructors keep: fresh never outlives reusable, and an eager *)
(* refresh can only be due while the entry is fresh.                       *)
(***************************************************************************)
WellFormed(e) == e.logical <= e.physical

=============================================================================
