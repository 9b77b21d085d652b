----------------------------- MODULE MemoryStore -----------------------------
(***************************************************************************)
(* The in-process level: the sharded unbounded map, the capacity-limited   *)
(* map and the adapter for supplied storage, under concurrent operations.  *)
(* A step of an operation is one critical section of the storage; between  *)
(* two steps others run.  A representation that leaves the storage is      *)
(* carried out of the guard, reported to the eviction stream, and kept     *)
(* alive until the operation has released its coordination guard.          *)
(*                                                                         *)
(* Ids stand for representations (is_same_instance), a slot holds what the *)
(* storage decides by, and the last-access tickets are the order recency.  *)
(* The supplied provider is external: it does what its contract says.      *)
(***************************************************************************)
EXTENDS Integers, FiniteSets, FiniteSetsExt, SequencesExt

CONSTANTS
    Keys, Operations,
    Guarded,          \* the operations that hold an outer coordination guard
    Backends,         \* a subset of {"sharded", "retained", "supplied"}
    Shapes,           \* what may be stored, per backend: [weight, rank, dies, hydrated]
    LimitEntries, LimitWeight,
    StreamCapacity, AtRetirement,
    MaxTime, MaxEpoch, MaxDisturbances, MaxSubscriptions, MaxGeneration, MaxCalls, Pinned, NoKey

ASSUME LimitsAssumption == {LimitEntries, LimitWeight, StreamCapacity} \subseteq Nat \ {0}

VARIABLES
    backend, now,
    epoch,        \* the continuity epoch of the cache: hydrated entries of older ones are ineligible
    generation,   \* the clear generation; MaxGeneration is terminal
    slot, weight, recency,
    origins,      \* per key: the active revision and the number of its snapshots
    op, stream, subscriber,
    ids, calls,
    retired,      \* ghost: how often each representation was retired
    admitted,     \* ghost: the representations that were ever stored
    cleared,      \* ghost: those a clear has made invisible
    overtaken,    \* ghost: origins whose key an explicit mutation has changed since
    wrong         \* ghost: what a read or an origin commit must never do

storage == <<generation, slot, weight, recency, origins>>
ghosts == <<retired, admitted, cleared, overtaken, wrong>>
vars == <<backend, now, epoch, storage, op, stream, subscriber, ids, calls, ghosts>>

Ids == 1 .. MaxCalls

Empty == [id |-> 0, weight |-> 0, rank |-> 0, dies |-> 0, stamp |-> 0, generation |-> 0,
          armed |-> FALSE]

Idle ==
    [pc |-> "idle", key |-> NoKey, candidate |-> Empty, expected |-> "none",
     seen |-> Empty, at |-> 0, origin |-> [value |-> 0, generation |-> 0], out |-> {}, garbage |-> {},
     guard |-> FALSE]

\* A key without a running origin has no revision of its own.
NoRevision == [value |-> 1, snapshots |-> 0]

NotSubscribed == [on |-> FALSE, next |-> 0, start |-> 0, got |-> 0, lost |-> 0, times |-> 0]

Init ==
    /\ backend \in Backends
    /\ now = 0 /\ epoch = 1 /\ generation = 1
    /\ slot = [k \in Keys |-> Empty]
    /\ weight = 0
    /\ recency = <<>>
    /\ origins = [k \in Keys |-> NoRevision]
    /\ op = [o \in Operations |-> Idle]
    /\ stream = [next |-> 0, frames |-> <<>>]
    /\ subscriber = NotSubscribed
    /\ ids = 0 /\ calls = 0
    /\ retired = [i \in Ids |-> 0]
    /\ admitted = {} /\ cleared = {} /\ overtaken = {} /\ wrong = {}

(***************************************************************************)
(* When a stored representation may no longer be read.                     *)
(***************************************************************************)
Ineligible(s) == s.stamp \notin {0, epoch}

PhysicallyExpired(s, time) == time >= s.dies

\* Clear before eligibility before expiry; a capacity-limited store holds nothing older than a clear.
Reason(s, time) ==
    IF backend # "retained" /\ s.generation # generation THEN "continuity"
    ELSE IF Ineligible(s) THEN "eligibility"
    ELSE IF PhysicallyExpired(s, time) THEN "expired"
    ELSE "none"

RetirementReason(s) == Reason(s, now)

Dead(s) == RetirementReason(s) # "none"

Retirement(k, reason) == [id |-> slot[k].id, reason |-> reason, armed |-> slot[k].armed]

Stored == {k \in Keys : slot[k] # Empty}

Without(seq, k) == SelectSeq(seq, LAMBDA j : j # k)

\* Take the keys out of the storage, or put a representation in.
Extracts(keys) ==
    /\ slot' = [k \in Keys |-> IF k \in keys THEN Empty ELSE slot[k]]
    /\ weight' = weight - MapThenSumSet(LAMBDA k : slot[k].weight, keys)
    /\ recency' = SelectSeq(recency, LAMBDA k : k \notin keys)

Places(k, s, victims) ==
    /\ slot' = [j \in Keys |-> IF j = k THEN s ELSE IF j \in victims THEN Empty ELSE slot[j]]
    /\ weight' = weight + s.weight - MapThenSumSet(LAMBDA j : slot[j].weight, victims \cup {k})
    /\ recency' = Append(SelectSeq(recency, LAMBDA j : j \notin victims \cup {k}), k)

(***************************************************************************)
(* Origin revisions.                                                       *)
(***************************************************************************)
\* Only an active revision has anything to advance.
Advanced(k) ==
    [origins EXCEPT ![k].value = IF origins[k].snapshots > 0 THEN @ + 1 ELSE @]

\* The last snapshot forgets the revision.
Forgotten(k) ==
    [origins EXCEPT ![k] = IF @.snapshots = 1 THEN NoRevision
                           ELSE [@ EXCEPT !.snapshots = @ - 1]]

\* A bug: a factory's answer only has to belong to the current clear generation.
MatchesGenerationOnly(origin, k) == origin.generation = generation

Matches(origin, k) ==
    /\ generation # MaxGeneration
    /\ origin.generation = generation
    /\ origin.value = origins[k].value

HasOrigin(o) == op[o].origin.value # 0

\* Ghost: what an explicit mutation of the key overtakes.
Overtakes(o, keys) ==
    overtaken' = (overtaken \ {o}) \cup {p \in Operations \ {o} : HasOrigin(p) /\ op[p].key \in keys}

(***************************************************************************)
(* Operations begin.                                                       *)
(***************************************************************************)
Call(o) == op[o].pc = "idle" /\ calls < MaxCalls /\ calls' = calls + 1

\* The representation an operation brings; a supplied record takes its generation now.
Candidate(shape) ==
    [id |-> ids + 1, weight |-> shape.weight, rank |-> shape.rank, dies |-> shape.dies,
     stamp |-> IF shape.hydrated THEN epoch ELSE 0, generation |-> generation,
     armed |-> subscriber.on]

Prepares(o, k, expected, shape) ==
    /\ op' = [op EXCEPT ![o].pc = "commit", ![o].key = k, ![o].expected = expected,
                        ![o].candidate = Candidate(shape), ![o].at = now, ![o].guard = o \in Guarded]
    /\ ids' = ids + 1

\* set, and the explicit write of a factory's product that took no origin.
Set(o, k, shape) ==
    /\ Call(o)
    /\ ~shape.hydrated
    /\ Prepares(o, k, "mutation", shape)
    /\ UNCHANGED <<backend, now, epoch, storage, stream, subscriber, ghosts>>

\* Later origins of the key share the active revision.
Captured(k) == [origins EXCEPT ![k].snapshots = @ + 1]

\* capture_origin: fails in the terminal generation.
CaptureOrigin(o, k) ==
    /\ Call(o)
    /\ backend # "supplied" /\ generation # MaxGeneration
    /\ origins' = Captured(k)
    /\ op' = [op EXCEPT ![o].pc = "origin", ![o].key = k, ![o].guard = o \in Guarded,
                        ![o].origin = [value |-> origins[k].value, generation |-> generation]]
    /\ UNCHANGED <<backend, now, epoch, generation, slot, weight, recency, stream, subscriber, ids, ghosts>>

\* The factory returns: its product is stored or, with memory writes skipped, only counted.
StoreOrigin(o, shape) ==
    /\ op[o].pc = "origin" /\ ~shape.hydrated
    /\ Prepares(o, op[o].key, "origin", shape)
    /\ UNCHANGED <<backend, now, epoch, storage, stream, subscriber, calls, ghosts>>

SkipOrigin(o) ==
    LET k == op[o].key
    IN  /\ op[o].pc = "origin"
        /\ IF Matches(op[o].origin, k)
           THEN origins' = Advanced(k) /\ Overtakes(o, {k})
           ELSE UNCHANGED <<origins, overtaken>>
        /\ op' = [op EXCEPT ![o].pc = "finish"]
        /\ UNCHANGED <<backend, now, epoch, generation, slot, weight, recency, stream, subscriber, ids,
                       calls, retired, admitted, cleared, wrong>>

(***************************************************************************)
(* Reads.  The capacity-limited map removes a dead representation in the   *)
(* same critical section, the others in a second one.                      *)
(***************************************************************************)
Sees(o, k, pc, reason, out) ==
    op' = [op EXCEPT ![o].key = k, ![o].guard = o \in Guarded, ![o].pc = pc, ![o].seen = slot[k],
                     ![o].expected = reason, ![o].out = out]

FoundDead(k) == slot[k] # Empty /\ Dead(slot[k])

GetRetained(o, k) ==
    /\ backend = "retained"
    /\ IF FoundDead(k)
       THEN /\ Extracts({k})
            /\ Sees(o, k, "finish", "none", {Retirement(k, RetirementReason(slot[k]))})
       ELSE /\ recency' = IF k \in Stored THEN Append(Without(recency, k), k) ELSE recency
            /\ UNCHANGED <<slot, weight>>
            /\ Sees(o, k, "seen", "none", {})

GetSharded(o, k) ==
    /\ backend = "sharded"
    /\ IF FoundDead(k) THEN Sees(o, k, "evict", RetirementReason(slot[k]), {})
                       ELSE Sees(o, k, "seen", "none", {})
    /\ UNCHANGED <<slot, weight, recency>>

\* The provider's answer is judged by the host; nothing is read in the terminal generation.
GetSupplied(o, k) ==
    /\ backend = "supplied" /\ generation # MaxGeneration
    /\ Sees(o, k, IF FoundDead(k) THEN "evict" ELSE "seen", "none", {})
    /\ UNCHANGED <<slot, weight, recency>>

Get(o, k) ==
    /\ Call(o)
    /\ GetRetained(o, k) \/ GetSharded(o, k) \/ GetSupplied(o, k)
    /\ wrong' = IF ~FoundDead(k) /\ slot[k].id \in cleared
                THEN wrong \cup {"read a cleared value"} ELSE wrong
    /\ UNCHANGED <<backend, now, epoch, generation, origins, stream, subscriber, ids, retired,
                   admitted, cleared, overtaken>>

\* A bug: whatever is in the slot by now is taken for the dead representation.
SameSlot(o) == slot[op[o].key] # Empty

\* remove_same: exactly the representation that was found dead.
StillSame(o) == slot[op[o].key].id = op[o].seen.id

\* The sharded map keeps the reason it found; the host asks the record again.
DeadReason(o) == IF backend = "sharded" THEN op[o].expected ELSE RetirementReason(op[o].seen)

Evict(o) ==
    LET k == op[o].key
    IN  /\ op[o].pc = "evict"
        /\ IF StillSame(o)
           THEN /\ Extracts({k})
                /\ op' = [op EXCEPT ![o].pc = "finish", ![o].seen = Empty, ![o].expected = "none",
                                    ![o].out = {Retirement(k, DeadReason(o))}]
           ELSE /\ op' = [op EXCEPT ![o].pc = "finish", ![o].seen = Empty, ![o].expected = "none",
                                    ![o].garbage = @ \cup {op[o].seen.id}]
                /\ UNCHANGED <<slot, weight, recency>>
        /\ UNCHANGED <<backend, now, epoch, generation, origins, stream, subscriber, ids, calls, ghosts>>

\* What is done with a reading: nothing, a conditional write, or a conditional removal.
Ignore(o) ==
    /\ op[o].pc = "seen"
    /\ op' = [op EXCEPT ![o] = Idle]
    /\ UNCHANGED <<backend, now, epoch, storage, stream, subscriber, ids, calls, ghosts>>

Replace(o, shape) ==
    /\ op[o].pc = "seen" /\ shape.hydrated
    /\ Prepares(o, op[o].key, IF op[o].seen = Empty THEN "absent" ELSE "same", shape)
    /\ UNCHANGED <<backend, now, epoch, storage, stream, subscriber, calls, ghosts>>

Expire(o) ==
    LET seen == op[o].seen
    IN  /\ op[o].pc = "seen" /\ seen # Empty
        /\ op' = [op EXCEPT ![o].pc = "commit", ![o].expected = "expire",
                            ![o].at = now,
                            ![o].candidate = [seen EXCEPT !.id = ids + 1, !.generation = generation,
                                                          !.armed = subscriber.on]]
        /\ ids' = ids + 1
        /\ UNCHANGED <<backend, now, epoch, storage, stream, subscriber, calls, ghosts>>

RemoveIfSame(o) ==
    LET k == op[o].key
    IN  /\ op[o].pc = "seen" /\ op[o].seen # Empty
        /\ IF StillSame(o) THEN Extracts({k}) ELSE UNCHANGED <<slot, weight, recency>>
        /\ op' = [op EXCEPT ![o].pc = "finish", ![o].seen = Empty,
                            ![o].out = IF StillSame(o) THEN {Retirement(k, "explicit")} ELSE {}]
        /\ UNCHANGED <<backend, now, epoch, generation, origins, stream, subscriber, ids, calls, ghosts>>

(***************************************************************************)
(* Writes.                                                                 *)
(***************************************************************************)
\* What a condition compares with: the sharded map asks for the generation only, the
\* capacity-limited one has none, and supplied storage is asked for a live record.
Current(k) ==
    IF \/ backend = "sharded" /\ slot[k].generation # generation
       \/ backend = "supplied" /\ Dead(slot[k])
    THEN Empty ELSE slot[k]

ConditionHolds(o) ==
    LET k == op[o].key
    IN  CASE op[o].expected = "mutation" -> TRUE
          [] op[o].expected = "absent" -> Current(k) = Empty
          [] op[o].expected = "origin" -> Matches(op[o].origin, k)
          [] OTHER -> Current(k).id = op[o].seen.id

ChangesOrigin(o) ==
    op[o].expected \in {"mutation", "origin", "expire"} /\ backend # "supplied"

\* Why the old representation of the key leaves.
Displaced(o, k) ==
    IF op[o].expected = "expire" THEN "metadata"
    ELSE IF Current(k) # Empty THEN "replaced"
    ELSE IF backend = "supplied" /\ RetirementReason(slot[k]) # "expired" THEN "explicit"
    ELSE RetirementReason(slot[k])

Fits(keys, extra) ==
    /\ Cardinality(keys) + 1 <= LimitEntries
    /\ MapThenSumSet(LAMBDA k : slot[k].weight, keys) + extra <= LimitWeight

\* The eligible victims in the order of their eviction: lower ranks first, then the least recent.
Victims(k, rank, keys) ==
    LET mayGo == {j \in keys \ {k} : slot[j].rank # Pinned /\ slot[j].rank <= rank}
        before(i, j) ==
            \/ slot[i].rank < slot[j].rank
            \/ /\ slot[i].rank = slot[j].rank
               /\ \E a, b \in 1 .. Len(recency) : a < b /\ recency[a] = i /\ recency[b] = j
    IN  SetToSortSeq(mayGo, before)

\* The shortest prefix of the victims that makes room, if there is one.
Plan(k, c, keys) ==
    LET victims == Victims(k, c.rank, keys)
        enough  == {n \in 0 .. Len(victims) : Fits(keys \ (ToSet(SubSeq(victims, 1, n)) \cup {k}), c.weight)}
    IN  IF enough = {} THEN [fits |-> FALSE, victims |-> {}]
        ELSE [fits |-> TRUE, victims |-> ToSet(SubSeq(victims, 1, Min(enough)))]

\* The dead are removed first, but only when there is no room.
Expiring(k, c, time) ==
    IF Fits(Stored \ {k}, c.weight) THEN {} ELSE {j \in Stored : Reason(slot[j], time) # "none"}

Finished(o, out, stored) ==
    op' = [op EXCEPT ![o].pc = "finish", ![o].out = out, ![o].expected = "none", ![o].seen = Empty,
                     ![o].candidate = Empty, ![o].at = 0,
                     ![o].garbage = IF stored THEN @ ELSE @ \cup {op[o].candidate.id}]

\* A bug: the old representation of the key is dropped without a record.
AdmitsForgetsOld(o, k, s, gone, victims) ==
    /\ Places(k, s, gone \cup victims)
    /\ admitted' = admitted \cup {s.id}
    /\ Finished(o, {Retirement(j, Reason(slot[j], op[o].at)) : j \in gone}
                   \cup {Retirement(j, "capacity") : j \in victims}, TRUE)

\* Admission proper: the victims and the old representation of the key leave together.
Admits(o, k, s, gone, victims) ==
    /\ Places(k, s, gone \cup victims)
    /\ admitted' = admitted \cup {s.id}
    /\ Finished(o, {Retirement(j, Reason(slot[j], op[o].at)) : j \in gone}
                   \cup {Retirement(j, "capacity") : j \in victims}
                   \cup {Retirement(j, Displaced(o, k)) : j \in ({k} \cap Stored) \ gone}, TRUE)

CommitRetained(o, k, c) ==
    LET gone == Expiring(k, c, op[o].at)
        plan == Plan(k, c, Stored \ gone)
    IN  IF c.weight > LimitWeight
        THEN /\ Finished(o, {}, FALSE)
             /\ UNCHANGED <<slot, weight, recency, admitted>>
        ELSE IF plan.fits
        THEN Admits(o, k, c, gone, plan.victims)
        ELSE /\ Extracts(gone)
             /\ Finished(o, {Retirement(j, Reason(slot[j], op[o].at)) : j \in gone}, FALSE)
             /\ UNCHANGED admitted

InsertPrepared(o, k, s) == Admits(o, k, s, {}, {})

InsertSupplied(o, k, s) == Admits(o, k, s, {}, {})

\* What goes into the slot: a supplied record was complete when it was prepared; a new deadline
\* keeps the payload's observation.
Prepared(o) ==
    [op[o].candidate EXCEPT
        !.generation = IF backend = "supplied" THEN @ ELSE generation,
        !.armed = IF op[o].expected = "expire" /\ backend # "supplied" THEN slot[op[o].key].armed ELSE @]

Expired(o) == PhysicallyExpired(op[o].candidate, op[o].at)

RefusesRecord(o) ==
    op[o].candidate.generation = MaxGeneration \/ Reason(op[o].candidate, op[o].at) # "none"

Refused(o) ==
    \/ Expired(o)
    \/ backend = "sharded" /\ generation = MaxGeneration
    \/ backend = "supplied" /\ RefusesRecord(o)

Commit(o) ==
    LET k == op[o].key
        s == Prepared(o)
    IN  /\ op[o].pc = "commit"
        /\ origins' = IF \/ ~Refused(o) /\ ConditionHolds(o) /\ ChangesOrigin(o)
                         \/ Expired(o) /\ op[o].expected = "mutation" /\ backend # "supplied"
                      THEN Advanced(k) ELSE origins
        /\ IF Refused(o) \/ ~ConditionHolds(o)
           THEN /\ Finished(o, {}, FALSE)
                /\ UNCHANGED <<slot, weight, recency, admitted, overtaken, wrong>>
           ELSE /\ CASE backend = "retained" -> CommitRetained(o, k, s)
                     [] backend = "sharded"  -> InsertPrepared(o, k, s)
                     [] backend = "supplied" -> InsertSupplied(o, k, s)
                /\ IF ChangesOrigin(o) THEN Overtakes(o, {k}) ELSE UNCHANGED overtaken
                /\ wrong' = IF op[o].expected = "origin" /\ o \in overtaken
                            THEN wrong \cup {"stored an overtaken value"} ELSE wrong
        /\ UNCHANGED <<backend, now, epoch, generation, stream, subscriber, ids, calls, retired, cleared>>

(***************************************************************************)
(* Explicit removal, clear, maintenance.                                   *)
(***************************************************************************)
RemoveKey(o, k) ==
    /\ Call(o)
    /\ Extracts({k})
    /\ origins' = Advanced(k)
    /\ Overtakes(o, {k})
    /\ op' = [op EXCEPT ![o].pc = "finish", ![o].key = k, ![o].guard = o \in Guarded,
                        ![o].out = {Retirement(j, "explicit") : j \in {k} \cap Stored}]
    /\ UNCHANGED <<backend, now, epoch, generation, stream, subscriber, ids, retired, admitted, cleared, wrong>>

\* The generation is the visibility barrier; it saturates and is never reused.
BeginClear == generation' = IF generation = MaxGeneration THEN generation ELSE generation + 1

\* A supplied store is told to drop what is older, unless the host ran out of generations.
BeginInvalidation(o) ==
    op' = [op EXCEPT ![o].pc = IF backend = "supplied" /\ generation' < MaxGeneration
                               THEN "clear" ELSE "finish",
                     ![o].candidate = [Empty EXCEPT !.generation = generation']]

InvalidateAll(o) ==
    /\ Call(o)
    /\ BeginClear
    /\ cleared' = cleared \cup {slot[k].id : k \in Stored}
    /\ Overtakes(o, Keys)
    /\ IF backend = "retained"
       THEN /\ Extracts(Keys)
            /\ op' = [op EXCEPT ![o].pc = "finish", ![o].out = {Retirement(k, "explicit") : k \in Stored}]
       ELSE /\ BeginInvalidation(o)
            /\ UNCHANGED <<slot, weight, recency>>
    /\ UNCHANGED <<backend, now, epoch, origins, stream, subscriber, ids, retired, admitted, wrong>>

\* clear_before: records older than the barrier, and only those.
ClearBefore(o) ==
    LET older == {k \in Stored : slot[k].generation < op[o].candidate.generation}
    IN  /\ op[o].pc = "clear"
        /\ Extracts(older)
        /\ op' = [op EXCEPT ![o].pc = "finish", ![o].candidate = Empty,
                            ![o].out = {Retirement(k, "explicit") : k \in older}]
        /\ UNCHANGED <<backend, now, epoch, generation, origins, stream, subscriber, ids, calls, ghosts>>

Expirable == {k \in Stored : Dead(slot[k])}

\* maintain_step leaves out the shards that are locked, or not due.
Maintain(o) ==
    \E dead \in SUBSET Expirable :
        /\ Call(o)
        /\ dead # {}
        /\ Extracts(dead)
        /\ op' = [op EXCEPT ![o].pc = "finish",
                            ![o].out = {Retirement(k, RetirementReason(slot[k])) : k \in dead}]
        /\ UNCHANGED <<backend, now, epoch, generation, origins, stream, subscriber, ids, ghosts>>

(***************************************************************************)
(* Outside the storage guard: observation, then reclamation.               *)
(***************************************************************************)
Observable(r) ==
    r.reason # "metadata" /\ (r.armed \/ AtRetirement) /\ subscriber.on

\* A bug: what leaves the storage is destroyed on the spot.
KeepsNothing(o, more) == {}

Keeps(o, more) == op[o].garbage \cup more

\* emit: the stream pushes out its oldest record when it is full.
Emitted(r) == Append(stream.frames, [sequence |-> stream.next, id |-> r.id])

Pushed(r) == Observable(r) /\ Len(stream.frames) = StreamCapacity

\* retire: one representation at a time.
Retire(o) ==
    \E r \in op[o].out :
        /\ op[o].pc = "finish"
        /\ stream' = IF ~Observable(r) THEN stream
                     ELSE [next |-> stream.next + 1,
                           frames |-> IF Pushed(r) THEN Tail(Emitted(r)) ELSE Emitted(r)]
        /\ retired' = [retired EXCEPT ![r.id] = @ + 1]
        /\ op' = [op EXCEPT ![o].out = @ \ {r},
                            ![o].garbage = Keeps(o, {r.id} \cup IF Pushed(r) THEN {Head(Emitted(r)).id} ELSE {})]
        /\ UNCHANGED <<backend, now, epoch, storage, subscriber, ids, calls, admitted, cleared,
                       overtaken, wrong>>

\* The guard goes first, then what the operation kept alive.
Release(o) ==
    /\ op[o].pc = "finish" /\ op[o].out = {} /\ op[o].guard
    /\ op' = [op EXCEPT ![o].guard = FALSE]
    /\ UNCHANGED <<backend, now, epoch, storage, stream, subscriber, ids, calls, ghosts>>

Reclaim(o) ==
    /\ op[o].pc = "finish" /\ op[o].out = {} /\ ~op[o].guard
    /\ op' = [op EXCEPT ![o] = Idle]
    /\ IF HasOrigin(o)
       THEN origins' = Forgotten(op[o].key) /\ overtaken' = overtaken \ {o}
       ELSE UNCHANGED <<origins, overtaken>>
    /\ UNCHANGED <<backend, now, epoch, generation, slot, weight, recency, stream, subscriber, ids,
                   calls, retired, admitted, cleared, wrong>>

(***************************************************************************)
(* The eviction stream.                                                    *)
(***************************************************************************)
Subscribe ==
    /\ ~subscriber.on /\ subscriber.times < MaxSubscriptions
    /\ subscriber' = [NotSubscribed EXCEPT !.on = TRUE, !.times = subscriber.times + 1,
                                            !.next = stream.next, !.start = stream.next]
    /\ UNCHANGED <<backend, now, epoch, storage, op, stream, ids, calls, ghosts>>

Oldest == IF stream.frames = <<>> THEN stream.next ELSE Head(stream.frames).sequence

Lost(behind) == behind

TryRecv ==
    LET next == IF subscriber.next < Oldest THEN Oldest ELSE subscriber.next
    IN  /\ subscriber.on /\ subscriber.next < stream.next
        /\ subscriber' = [subscriber EXCEPT
              !.lost = @ + Lost(next - subscriber.next),
              !.next = IF next < stream.next THEN next + 1 ELSE next,
              !.got  = IF next < stream.next THEN @ + 1 ELSE @]
        /\ UNCHANGED <<backend, now, epoch, storage, op, stream, ids, calls, ghosts>>

\* The last subscriber takes the records with it.
Unsubscribe ==
    /\ subscriber.on
    /\ subscriber' = [NotSubscribed EXCEPT !.times = subscriber.times]
    /\ stream' = [stream EXCEPT !.frames = <<>>]
    /\ UNCHANGED <<backend, now, epoch, storage, op, ids, calls, ghosts>>

Calm == now + epoch <= MaxDisturbances

Gap ==
    /\ Calm /\ epoch < MaxEpoch
    /\ epoch' = epoch + 1
    /\ UNCHANGED <<backend, now, storage, op, stream, subscriber, ids, calls, ghosts>>

Tick ==
    /\ Calm /\ now < MaxTime
    /\ now' = now + 1
    /\ UNCHANGED <<backend, epoch, storage, op, stream, subscriber, ids, calls, ghosts>>

Next ==
    \/ \E o \in Operations :
         \/ \E k \in Keys : Get(o, k) \/ RemoveKey(o, k) \/ CaptureOrigin(o, k)
         \/ \E k \in Keys, shape \in Shapes[backend] : Set(o, k, shape)
         \/ \E shape \in Shapes[backend] : StoreOrigin(o, shape) \/ Replace(o, shape)
         \/ SkipOrigin(o) \/ Evict(o) \/ Ignore(o) \/ Expire(o) \/ RemoveIfSame(o) \/ Commit(o)
         \/ InvalidateAll(o) \/ ClearBefore(o) \/ Maintain(o) \/ Retire(o) \/ Release(o) \/ Reclaim(o)
    \/ Subscribe \/ TryRecv \/ Unsubscribe \/ Gap \/ Tick

Spec == Init /\ [][Next]_vars

-----------------------------------------------------------------------------
Slots ==
    [id : 0 .. MaxCalls, weight : Nat, rank : Nat, dies : Nat, stamp : 0 .. MaxEpoch,
     generation : 0 .. MaxGeneration, armed : BOOLEAN]

TypeOK ==
    /\ generation \in 1 .. MaxGeneration
    /\ slot \in [Keys -> Slots]
    /\ ToSet(recency) = Stored /\ Len(recency) = Cardinality(Stored)
    /\ \A k \in Keys : origins[k].snapshots = Cardinality({o \in Operations : HasOrigin(o) /\ op[o].key = k})

\* The books are right: the weight counter is the weight of what is stored, and a
\* capacity-limited store is within both limits after every critical section.
CapacityHolds ==
    /\ weight = MapThenSumSet(LAMBDA k : slot[k].weight, Keys)
    /\ backend = "retained" => Cardinality(Stored) <= LimitEntries /\ weight <= LimitWeight

\* No read returns what a clear has made invisible, and no factory's product is stored
\* after an explicit write, removal or clear that its origin did not see.
NothingComesBack == wrong = {}

\* Every representation that was admitted is in one place: in its slot, with the operation
\* that took it out, or retired, and it is retired once, however reads, writes, clears and
\* maintenance race for it.
RetiredOnce ==
    \A i \in Ids :
        Cardinality({k \in Keys : slot[k].id = i})
        + Cardinality({o \in Operations : \E r \in op[o].out : r.id = i}) + retired[i]
        = IF i \in admitted THEN 1 ELSE 0

\* A subscriber has received or been told it lost every record up to its cursor.
StreamAccounts ==
    subscriber.on => subscriber.next - subscriber.start = subscriber.got + subscriber.lost

\* The books of the store at every moment: its types, its capacity, its retirements and
\* its eviction stream.
StoreInv == TypeOK /\ CapacityHolds /\ RetiredOnce /\ StreamAccounts

\* The representations something still refers to.
Alive ==
    {slot[k].id : k \in Keys} \cup {f.id : f \in ToSet(stream.frames)}
    \cup UNION {op[o].garbage \cup {op[o].candidate.id} \cup {r.id : r \in op[o].out} : o \in Operations}

\* An operation destroys no value while it holds its coordination guard: reclamation runs
\* user code (destructors), which may take the same locks.
DestroyedUnguarded ==
    [][\A o \in Operations : op[o].guard /\ op'[o] # op[o] /\ op'[o].guard => Alive \subseteq Alive']_vars

\* A read collects only what is dead, although it lets go of the storage between finding
\* and removing it; an admission evicts a live representation only for a newcomer that it
\* does not outrank, and never a pinned one.
LiveLeaveForCause ==
    [][\A o \in Operations, k \in Keys :
          /\ op[o].pc \in {"commit", "evict"} /\ op'[o].pc = "finish"
          /\ slot[k] # Empty /\ slot'[k] = Empty /\ ~Dead(slot[k])
          => op[o].pc = "commit" /\ slot[k].rank # Pinned /\ slot[k].rank <= op[o].candidate.rank]_vars

=============================================================================
