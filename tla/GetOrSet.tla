------------------------------- MODULE GetOrSet -------------------------------
(***************************************************************************)
(* Reads of one key on one node: try_get (kind "read") and get_or_set      *)
(* (kind "get").  A get looks in L1, waits its turn on the key's lock,     *)
(* looks again, reads L2 through a circuit breaker, and only then runs the *)
(* caller's factory.  The factory owns the lock: it is retained work that  *)
(* outlives a caller who times out, drops the call or, without an executor,*)
(* is driven by whoever waits for the lock.  Fail-safe serves a stale      *)
(* value instead of an error.  Sets, removals and expirations of the key   *)
(* interleave with all of it; they, and a factory's store, are one step    *)
(* here: what happens inside a commit is the subject of KeyCommit.         *)
(*                                                                         *)
(* The deadlines of every representation are those of EntryLifetime.  A    *)
(* value is a serial number; Default is the caller's fail-safe default.    *)
(* The policy of a behaviour (its entry options, and whether an executor   *)
(* drives detached work: Tasks::can_execute) is chosen at the start.       *)
(***************************************************************************)
EXTENDS EntryLifetime, Sequences, Functions

CONSTANTS Callers, Policies, MaxTime, MaxEvents, MaxCalls, CircuitDuration, NoOne

VARIABLES
    now,         \* the clock
    opts,        \* the entry options of every call, see Policy
    memory,      \* the L1 representation: Nothing or [value, life]
    l2,          \* the stored L2 representation
    reopen,      \* CircuitBreaker.reopen_at
    lock, queue, \* the key's memory lock: its holder and the FIFO of waiters
    generation,  \* the commit lane's generation
    call,        \* one call per caller
    exec,        \* the retained factory execution each caller started
    next, events, calls,
    limit,       \* ghost: the physical deadline each value was last given by an origin
    since        \* ghost: the generation that made each value current

vars == <<now, opts, memory, l2, reopen, lock, queue, generation, call, exec,
          next, events, calls, limit, since>>

Default == 0

\* One initial value, and one for each factory and each set.
Values == 0 .. 1 + MaxCalls + MaxEvents

Closed == -1

Nothing ==
    [value |-> -1, life |-> [created |-> 0, inserted |-> 0, logical |-> 0, physical |-> 0,
                             failSafe |-> FALSE, eager |-> Never, stamp |-> Local]]

Policy ==
    [memory : Nat, distributed : Nat, failSafe : BOOLEAN, maximum : Nat,
     distributedMaximum : Nat, throttle : Nat, jitter : Nat, eager : 0 .. 100,
     soft : 0 .. Never, hard : 0 .. Never, distributedSoft : 0 .. Never,
     distributedHard : 0 .. Never, lock : 0 .. Never, background : BOOLEAN,
     rethrow : BOOLEAN, default : BOOLEAN, allowStale : BOOLEAN,
     executor : BOOLEAN]

ASSUME PoliciesAssumption == Policies \subseteq Policy

Representations == {Nothing} \cup [value : Values, life : Entries]

Idle ==
    [pc |-> "idle", kind |-> "get", stale |-> Nothing, seen |-> Nothing, found |-> Nothing,
     fence |-> 0, at |-> 0, floor |-> 0, how |-> "none", value |-> Default]

NoExecution ==
    [pc |-> "none", guarded |-> FALSE, eager |-> FALSE, cancelled |-> FALSE, fence |-> 0,
     started |-> 0, current |-> Nothing]

Without(s, c) == SelectSeq(s, LAMBDA d : d # c)

Live(r, t) == r # Nothing /\ ~IsPhysicallyExpired(r.life, t)

\* get_at: the live L1 representation.
Observed == IF Live(memory, now) THEN memory ELSE Nothing

FreshAt(r, t) == Live(r, t) /\ IsFresh(r.life, t)

NewerOf(stale, candidate) ==
    IF stale # Nothing /\ stale.life.created >= candidate.life.created THEN stale ELSE candidate

Init ==
    /\ now = 0
    /\ opts \in Policies
    /\ l2 \in {Nothing, [value |-> 1, life |-> DistributedFresh(opts, 0, 0)]}
    /\ memory \in {Nothing} \cup
                  {r \in {[value |-> 1, life |-> Fresh(opts, 0, 0, 0)]} : l2 # Nothing}
    /\ reopen = Closed
    /\ lock = NoOne
    /\ queue = <<>>
    /\ generation = 1
    /\ call = [c \in Callers |-> Idle]
    /\ exec = [c \in Callers |-> NoExecution]
    /\ next = 2
    /\ events = 0
    /\ calls = 0
    /\ limit = [v \in Values |-> IF v = 1 THEN Greatest(memory.life.physical, l2.life.physical) ELSE 0]
    /\ since = [v \in Values |-> 1]

(***************************************************************************)
(* A fault, a timeout, a departure or a mutation; their number is bounded. *)
(***************************************************************************)
Eventful == events < MaxEvents /\ events' = events + 1

(***************************************************************************)
(* Ends of a call.  A call that holds the lock gives it up when it returns *)
(* (FlightGuard::drop) unless its factory has taken it over.               *)
(***************************************************************************)
\* A bug: a returning call frees the lock its factory has taken over.
ReleasedAlways(c) == IF lock = c THEN NoOne ELSE lock

Released(c) == IF lock = c /\ exec[c].pc = "none" THEN NoOne ELSE lock

Returns(c, how, value) ==
    /\ call' = [call EXCEPT ![c] = [Idle EXCEPT !.pc = "done", !.how = how, !.value = value,
                                                !.floor = call[c].floor]]
    /\ lock' = Released(c)

\* After L2: a get goes on to its origin, a read returns what it may.
AfterL2(c, stale) ==
    IF call[c].kind = "get"
    THEN /\ call' = [call EXCEPT ![c] = [Idle EXCEPT !.pc = "origin", !.stale = stale,
                                                     !.floor = call[c].floor]]
         /\ UNCHANGED lock
    ELSE IF stale # Nothing /\ opts.allowStale
    THEN Returns(c, "stale", stale.value)
    ELSE Returns(c, "miss", Default)

(***************************************************************************)
(* Begin: read_l1, then a fresh hit is served; a hit past its eager        *)
(* boundary first claims the lock for a background refresh (try_eager).    *)
(* A get that has to go on asks for the lock.                              *)
(***************************************************************************)
Serves(c, r) == Returns(c, IF r.life.failSafe THEN "reused" ELSE "fresh", r.value)

EagerDue(c) ==
    /\ opts.executor
    /\ ShouldEagerRefresh(memory.life, now)
    /\ lock = NoOne /\ queue = <<>>

Begin(c) ==
    /\ call[c].pc \in {"idle", "done"} /\ exec[c].pc = "none" /\ calls < MaxCalls
    /\ calls' = calls + 1
    /\ \E kind \in {"get", "read"} :
         IF FreshAt(memory, now)
         THEN /\ call' = [call EXCEPT ![c] =
                    [Idle EXCEPT !.pc = "done", !.value = memory.value, !.floor = generation,
                                 !.how = IF memory.life.failSafe THEN "reused" ELSE "fresh"]]
              /\ IF kind = "get" /\ EagerDue(c)
                 THEN /\ lock' = c
                      /\ exec' = [exec EXCEPT ![c] =
                            [NoExecution EXCEPT !.pc = "peek", !.guarded = TRUE, !.eager = TRUE,
                                                !.current = memory]]
                 ELSE UNCHANGED <<lock, exec>>
              /\ UNCHANGED queue
         ELSE LET free == lock = NoOne /\ queue = <<>>
              IN  /\ call' = [call EXCEPT ![c] =
                        [Idle EXCEPT !.pc = CASE kind = "read" -> "l2"
                                              [] kind = "get" /\ free -> "recheck"
                                              [] OTHER -> "wait",
                                     !.kind = kind, !.stale = Observed, !.floor = generation]]
                  /\ lock' = IF kind = "get" /\ free THEN c ELSE lock
                  /\ queue' = IF kind = "get" /\ ~free THEN Append(queue, c) ELSE queue
                  /\ UNCHANGED exec
    /\ UNCHANGED <<now, opts, memory, l2, reopen, generation, next, events, limit, since>>

(***************************************************************************)
(* The key's lock: first come, first served; waiting is bounded.           *)
(***************************************************************************)
LockTimeout(c) ==
    IF opts.lock = Never /\ opts.failSafe /\ call[c].stale # Nothing
    THEN opts.soft
    ELSE opts.lock

Grant(c) ==
    /\ call[c].pc = "wait"
    /\ lock = NoOne /\ Head(queue) = c
    /\ lock' = c
    /\ queue' = Tail(queue)
    /\ call' = [call EXCEPT ![c].pc = "recheck"]
    /\ UNCHANGED <<now, opts, memory, l2, reopen, generation, exec, next, events, calls, limit,
                   since>>

\* Out of time: serve the stale value, or go on without the lock.
LockTimesOut(c) ==
    /\ call[c].pc = "wait" /\ LockTimeout(c) # Never
    /\ queue' = Without(queue, c)
    /\ IF opts.failSafe /\ call[c].stale # Nothing
       THEN Returns(c, "stale", call[c].stale.value)
       ELSE /\ call' = [call EXCEPT ![c].pc = "recheck"]
            /\ UNCHANGED lock
    /\ Eventful
    /\ UNCHANGED <<now, opts, memory, l2, reopen, generation, exec, next, calls, limit,
                   since>>

\* The second look at L1.  A miss keeps the stale value of the first look.
Recheck(c) ==
    /\ call[c].pc = "recheck"
    /\ IF FreshAt(memory, now)
       THEN Serves(c, memory)
       ELSE /\ call' = [call EXCEPT ![c].pc = "l2",
                                    ![c].stale = IF Live(memory, now) THEN memory ELSE @]
            /\ UNCHANGED lock
    /\ UNCHANGED <<now, opts, memory, l2, reopen, queue, generation, exec, next,
                   events, calls, limit,
                   since>>

(***************************************************************************)
(* The circuit breaker.                                                    *)
(***************************************************************************)
Admitted == reopen = Closed \/ reopen <= now

\* fetch_max: a delayed failure cannot shorten a newer window.
Tripped(at) == Greatest(reopen, Greatest(SaturatingAdd(at, CircuitDuration), at + 1))

(***************************************************************************)
(* The L2 read.  The hydration fence (generation and L1 content) is taken  *)
(* before the backend is asked.                                            *)
(***************************************************************************)
FallbackAvailable(c) == call[c].stale # Nothing \/ (call[c].kind = "get" /\ opts.default)

StartFetch(c) ==
    /\ call[c].pc = "l2"
    /\ IF Admitted
       THEN /\ reopen' = Closed
            /\ call' = [call EXCEPT ![c].pc = "fetch", ![c].fence = generation,
                                    ![c].seen = Observed]
            /\ UNCHANGED lock
       ELSE /\ AfterL2(c, call[c].stale)
            /\ UNCHANGED reopen
    /\ UNCHANGED <<now, opts, memory, l2, queue, generation, exec, next, events, calls, limit,
                   since>>

Fetch(c) ==
    /\ call[c].pc = "fetch"
    /\ reopen' = Closed
    /\ IF Live(l2, now)
       THEN /\ call' = [call EXCEPT ![c].pc = "hydrate", ![c].at = now,
                            ![c].found = [l2 EXCEPT !.life = Rehydrated(l2.life, now)]]
            /\ UNCHANGED lock
       ELSE AfterL2(c, call[c].stale)
    /\ UNCHANGED <<now, opts, memory, l2, queue, generation, exec, next, events, calls, limit,
                   since>>

\* The backend fails: the clock is sampled for the trip.
FetchFails(c) ==
    /\ call[c].pc = "fetch"
    /\ call' = [call EXCEPT ![c].pc = "trip", ![c].at = now]
    /\ Eventful
    /\ UNCHANGED <<now, opts, memory, l2, reopen, lock, queue, generation, exec, next,
                   calls, limit,
                   since>>

Trip(c) ==
    /\ call[c].pc = "trip"
    /\ reopen' = Tripped(call[c].at)
    /\ IF opts.rethrow THEN Returns(c, "error", Default) ELSE AfterL2(c, call[c].stale)
    /\ UNCHANGED <<now, opts, memory, l2, queue, generation, exec, next, events, calls, limit,
                   since>>

\* A soft timeout is a miss; a hard one is an error that does not trip the circuit.
FetchTimesOut(c) ==
    LET timeout == DistributedTimeout(opts, FallbackAvailable(c))
        soft    == opts.failSafe /\ FallbackAvailable(c) /\ timeout = opts.distributedSoft
    IN  /\ call[c].pc = "fetch" /\ timeout # Never
        /\ IF ~soft /\ opts.rethrow
           THEN Returns(c, "error", Default)
           ELSE AfterL2(c, call[c].stale)
        /\ Eventful
        /\ UNCHANGED <<now, opts, memory, l2, reopen, queue, generation, exec, next,
                   calls, limit,
                   since>>

Installs(fence, seen, found) ==
    /\ fence = generation
    /\ seen # Nothing =>
         \/ seen.life.created < found.life.created
         \/ seen.life.created = found.life.created /\ IsFresh(found.life, now)
    /\ ~IsPhysicallyExpired(found.life, now)
    /\ Observed = seen

Hydrate(fence, seen, found) ==
    memory' = IF Installs(fence, seen, found)
              THEN [found EXCEPT !.life = MemoryHydration(found.life, opts, now)]
              ELSE memory

Hydrates(c) ==
    LET found == call[c].found
    IN  /\ call[c].pc = "hydrate"
        /\ Hydrate(call[c].fence, call[c].seen, found)
        /\ IF IsFresh(found.life, call[c].at)
           THEN Serves(c, found)
           ELSE AfterL2(c, NewerOf(call[c].stale, found))
        /\ UNCHANGED <<now, opts, l2, reopen, queue, generation, exec, next, events, calls, limit,
                   since>>

(***************************************************************************)
(* compute_origin: the execution takes the lock over, captures the lane's  *)
(* generation and is polled once.  A zero timeout never starts it.         *)
(***************************************************************************)
OriginTimeout(c) == FactoryTimeout(opts, call[c].stale # Nothing)

StartOrigin(c) ==
    /\ call[c].pc = "origin" /\ exec[c].pc = "none"
    /\ IF OriginTimeout(c) = 0
       THEN /\ lock' = Released(c)
            /\ call' = [call EXCEPT ![c].pc = "fallback"]
            /\ UNCHANGED exec
       ELSE /\ exec' = [exec EXCEPT ![c] =
                  [NoExecution EXCEPT !.pc = "run", !.guarded = lock = c, !.fence = generation,
                                      !.started = now, !.current = call[c].stale]]
            /\ call' = [call EXCEPT ![c].pc = "await"]
            /\ UNCHANGED lock
    /\ UNCHANGED <<now, opts, memory, l2, reopen, queue, generation, next, events, calls, limit,
                   since>>

\* A bug: nobody helps a factory whose caller has gone.
DrivenByOwner(c) == opts.executor \/ call[c].pc = "await"

\* A factory is polled by the executor, by its own caller, or by any call that waits
\* for the lock (assist_any_origin).
Driven(c) ==
    \/ opts.executor
    \/ call[c].pc = "await"
    \/ \E d \in Callers : call[d].pc = "wait"

Running(c) == exec[c].pc = "run" /\ ~exec[c].cancelled /\ Driven(c)

\* The end of an execution frees the lock.  A caller still waiting for it gets the result:
\* a failed factory sends it to its fallback, a panic or a cancellation is its error.
Ends(c, result, value, others) ==
    /\ lock' = IF exec[c].guarded THEN NoOne ELSE lock
    /\ exec' = [exec EXCEPT ![c] = NoExecution]
    /\ call' = [others EXCEPT ![c] =
          IF @.pc # "await" \/ exec[c].eager THEN @
          ELSE IF result = "failed" THEN [@ EXCEPT !.pc = "fallback"]
          ELSE [Idle EXCEPT !.pc = "done", !.how = result, !.value = value]]

FactoryFails(c) ==
    /\ Running(c)
    /\ Ends(c, "failed", Default, call)
    /\ Eventful
    /\ UNCHANGED <<now, opts, memory, l2, reopen, queue, generation, next,
                   calls, limit,
                   since>>

\* A panic also ends every call that was helping the execution along.
FactoryPanics(c) ==
    LET helpers == IF exec[c].eager THEN {} ELSE {d \in Callers : call[d].pc = "wait"}
    IN  /\ Running(c)
        /\ Ends(c, "error", Default,
                [d \in Callers |-> IF d \in helpers THEN [Idle EXCEPT !.pc = "done", !.how = "error"]
                                   ELSE call[d]])
        /\ queue' = SelectSeq(queue, LAMBDA d : d \notin helpers)
        /\ Eventful
        /\ UNCHANGED <<now, opts, memory, l2, reopen, generation, next, calls, limit,
                   since>>

(***************************************************************************)
(* A write of the key: a new generation, both levels, and the ghosts; fence*)
(* is the generation the value was made under.                             *)
(***************************************************************************)
Written(value, created, jitter, fence) ==
    LET life   == Fresh(opts, created, now, jitter)
        stored == DistributedFresh(opts, created, now)
    IN  /\ memory' = [value |-> value, life |-> life]
        /\ l2' = [value |-> value, life |-> stored]
        /\ generation' = generation + 1
        /\ limit' = [limit EXCEPT ![value] = Greatest(life.physical, stored.physical)]
        /\ since' = [since EXCEPT ![value] = fence + 1]

\* A bug: the product is stored whatever happened to the key since the factory began.
IsCurrentAlways(c) == TRUE

IsCurrent(c) == exec[c].fence = generation

\* The factory returns a new value or, given a stale one, says it was not modified; and
\* store_product: nothing is stored if the key was mutated since the factory began.  A
\* poll already under way may still store after the execution was cancelled.
Store(c) ==
    /\ exec[c].pc = "run" /\ Driven(c)
    /\ \E value \in {next} \cup {r.value : r \in {exec[c].current} \ {Nothing}} :
         /\ next' = IF value = next THEN next + 1 ELSE next
         /\ IF IsCurrent(c)
            THEN \E jitter \in 0 .. opts.jitter : Written(value, exec[c].started, jitter, exec[c].fence)
            ELSE UNCHANGED <<memory, l2, generation, limit, since>>
         /\ Ends(c, "made", value, call)
    /\ UNCHANGED <<now, opts, reopen, queue, events, calls>>

\* A cancelled execution is dropped, and its lock with it.
DropExecution(c) ==
    /\ exec[c].pc = "run" /\ exec[c].cancelled
    /\ Ends(c, "error", Default, call)
    /\ UNCHANGED <<now, opts, memory, l2, reopen, queue, generation, next, events, calls, limit,
                   since>>

\* The eager refresh asks L2 first: another node may have refreshed the key already.
Peek(c) ==
    /\ exec[c].pc = "peek"
    /\ LET found == [l2 EXCEPT !.life = Rehydrated(l2.life, now)]
       IN  IF /\ Live(l2, now) /\ IsFresh(l2.life, now)
              /\ l2.life.created > exec[c].current.life.created
           THEN /\ Hydrate(generation, Observed, found)
                /\ Ends(c, "made", Default, call)
           ELSE /\ exec' = [exec EXCEPT ![c].pc = "run", ![c].fence = generation,
                                        ![c].started = now]
                /\ UNCHANGED <<memory, lock, call>>
    /\ UNCHANGED <<now, opts, l2, reopen, queue, generation, next, events, calls, limit,
                   since>>

(***************************************************************************)
(* The caller's side of its execution.                                     *)
(***************************************************************************)
\* The factory's time is up.  It goes on in the background if the policy allows.
TimesOut(c) ==
    /\ call[c].pc = "await" /\ exec[c].pc = "run"
    /\ OriginTimeout(c) # Never
    /\ call' = [call EXCEPT ![c].pc = "fallback"]
    /\ exec' = [exec EXCEPT ![c].cancelled = ~opts.background]
    /\ Eventful
    /\ UNCHANGED <<now, opts, memory, l2, reopen, lock, queue, generation, next, calls, limit,
                   since>>

\* fallback: throttle the stale value, else use the default; both go into L1.
Fallback(c) ==
    LET stale == call[c].stale
    IN  /\ call[c].pc = "fallback"
        /\ IF opts.failSafe /\ stale # Nothing /\ ~IsPhysicallyExpired(stale.life, now)
           THEN /\ memory' = [stale EXCEPT !.life = Throttled(stale.life, opts, now)]
                /\ Returns(c, "stale", stale.value)
           ELSE IF opts.failSafe /\ opts.default
           THEN /\ memory' = [value |-> Default, life |-> FailSafeDefault(opts, now)]
                /\ Returns(c, "stale", Default)
           ELSE /\ Returns(c, "error", Default)
                /\ UNCHANGED memory
        /\ UNCHANGED <<now, opts, l2, reopen, queue, generation, exec, next, events, calls, limit,
                   since>>

\* The call is dropped: a factory it started goes on.  An explicit cancellation stops it.
Leave(c) ==
    /\ call[c].pc \in {"wait", "fetch", "await"}
    /\ call' = [call EXCEPT ![c] = Idle]
    /\ queue' = Without(queue, c)
    /\ lock' = Released(c)
    /\ \E explicit \in BOOLEAN :
         exec' = [exec EXCEPT ![c].cancelled = explicit /\ call[c].pc = "await"]
    /\ Eventful
    /\ UNCHANGED <<now, opts, memory, l2, reopen, generation, next, calls, limit,
                   since>>

(***************************************************************************)
(* The rest of the cache: events of the key, and time.                  *)
(***************************************************************************)
SetKey ==
    /\ Eventful
    /\ next' = next + 1
    /\ Written(next, now, 0, generation)
    /\ UNCHANGED <<now, opts, reopen, lock, queue, call, exec, calls>>

RemoveKey ==
    /\ Eventful
    /\ memory' = Nothing
    /\ l2' = Nothing
    /\ generation' = generation + 1
    /\ UNCHANGED <<now, opts, reopen, lock, queue, call, exec, next, calls, limit, since>>

Stales(r) == IF Live(r, now) THEN [r EXCEPT !.life = Expired(r.life, now, now)] ELSE Nothing

ExpireKey ==
    /\ Eventful
    /\ memory' = Stales(memory)
    /\ l2' = Stales(l2)
    /\ generation' = generation + 1
    /\ UNCHANGED <<now, opts, reopen, lock, queue, call, exec, next, calls, limit, since>>

Tick ==
    /\ now < MaxTime
    /\ now' = now + 1
    /\ UNCHANGED <<opts, memory, l2, reopen, lock, queue, generation, call, exec, next,
                   events, calls, limit,
                   since>>

\* The steps of a call that has begun, and of its factory.
Continues(c) ==
    \/ Grant(c) \/ Recheck(c) \/ StartFetch(c) \/ Fetch(c) \/ FetchFails(c)
    \/ Trip(c) \/ Hydrates(c) \/ StartOrigin(c) \/ Fallback(c)

Works(c) ==
    Peek(c) \/ FactoryFails(c) \/ FactoryPanics(c) \/ Store(c) \/ DropExecution(c)

Next ==
    \/ \E c \in Callers : Begin(c) \/ Continues(c) \/ Works(c) \/ LockTimesOut(c)
                          \/ FetchTimesOut(c) \/ TimesOut(c) \/ Leave(c)
    \/ SetKey \/ RemoveKey \/ ExpireKey \/ Tick

Spec == Init /\ [][Next]_vars

\* Tasks are polled, the backend answers or fails, a factory that is polled ends, and
\* the lock is handed to the head of its queue.
FairSpec == Spec /\ \A c \in Callers : WF_vars(Continues(c)) /\ WF_vars(Works(c))

-----------------------------------------------------------------------------
(***************************************************************************)
(* Properties.                                                             *)
(***************************************************************************)
TypeOK ==
    /\ now \in 0 .. MaxTime
    /\ opts \in Policies
    /\ memory \in Representations /\ l2 \in Representations
    /\ reopen \in Timestamps \cup {Closed}
    /\ lock \in Callers \cup {NoOne}
    /\ queue \in Seq(Callers) /\ IsInjective(queue)
    /\ generation \in Nat
    /\ \A c \in Callers :
         /\ {call[c].stale, call[c].seen, call[c].found, exec[c].current} \subseteq Representations
         /\ call[c].value \in Values

\* The lock and the factories agree at every moment: whoever holds the lock is a call on
\* its way to the origin or an execution that took the lock over, and an execution that
\* took it over still has it.  So of the factories of one key at most one has the lock,
\* across timeouts, drops, cancellations and panics, and the lock never leaks.
LockHasOneOwner ==
    /\ \A c \in Callers : exec[c].guarded => lock = c
    /\ lock # NoOne =>
         \/ exec[lock].guarded
         \/ call[lock].pc \in {"recheck", "l2", "fetch", "trip", "hydrate", "origin"}
    /\ \A c \in Callers : call[c].pc = "wait" <=> \E i \in DOMAIN queue : queue[i] = c

\* No representation outlives the lifetime its origin gave the value: throttling a stale
\* value, copying it from L2 and expiring it never move its physical deadline out.
PhysicalIsNotExtended ==
    \A r \in {memory, l2} :
        r # Nothing /\ r.value # Default => r.life.physical <= limit[r.value]

\* A call served with a fresh value that is no fail-safe copy gets one that was made
\* current by the last mutation completed before the call began, or by a later one.
ServedIsCurrent ==
    \A c \in Callers :
        call[c].pc = "done" /\ call[c].how = "fresh" =>
            since[call[c].value] >= call[c].floor

\* The calls, the lock and the stored representations at every moment.
CallsInv == TypeOK /\ LockHasOneOwner /\ PhysicalIsNotExtended

\* Every call returns, whether or not an executor exists: without one, an orphaned
\* factory is driven to its end by the calls that wait for its lock.
CallsReturn == \A c \in Callers : []<>(call[c].pc \in {"idle", "done"})

=============================================================================
