------------------------------ MODULE SingleFlight ------------------------------
(***************************************************************************)
(* src/single_flight.rs: callers of one key share one computation.  The    *)
(* first caller leads: it creates the flight, installs the factory future  *)
(* and polls it; others subscribe.  Whoever is scheduled polls the shared  *)
(* future, and the result reaches every subscriber.                        *)
(*                                                                         *)
(* One key.  A step is what runs between two acquisitions of the table     *)
(* shard or of the flight's cell, or one poll of user work.  The factory   *)
(* is external: a poll of it returns, stays pending or panics, and pending *)
(* work wakes its waker.                                                   *)
(***************************************************************************)
EXTENDS Integers, FiniteSets

CONSTANTS
    Callers,       \* calls of the cache, each with one subscription
    Flights,       \* flight allocations; f also names the driver task of f
    Canceller,     \* whoever cancels work: a caller's token, a shutdown
    NoFlight,
    CancelReasons, \* reasons the canceller gives
    CanExecute,    \* the callers on a thread with an executor (tasks.can_execute())
    Outcomes,      \* how the factory ends
    MaxPolls       \* bound on the polls of one factory future that stay pending

ASSUME NoFlightAssumption == NoFlight \notin Flights
ASSUME DisjointAssumption ==
    /\ Callers \cap Flights = {}
    /\ Canceller \notin Callers \cup Flights
ASSUME ReasonsAssumption == {"none", "ScopeFinished"} \cap CancelReasons = {}
ASSUME OutcomesAssumption == Outcomes \subseteq {"Owned", "LeaseLost", "Panicked"}
ASSUME CanExecuteAssumption == CanExecute \subseteq Callers
ASSUME MaxPollsAssumption == MaxPolls \in Nat
ASSUME CallersAssumption == IsFiniteSet(Callers)

Tasks == Callers \cup Flights \cup {Canceller}

VARIABLES
    table,        \* the flight the table lists for the key
    state,        \* Cell.state, terminal variants spelt out
    subscribers,  \* Cell.subscribers
    runnable,     \* Flight.runnable, FALSE once the work is gone and nobody looks at it
    reason,       \* Flight.request: the first cancellation reason
    wakers,       \* Flight.wakers: tasks to notify
    polls,        \* external: polls of the present factory that stayed pending
    armed,        \* external: the factory will wake the flight's waker
    pc,
    on,           \* the flight a task works on
    leader,       \* Subscription.leader
    polled,       \* Subscription.polled, Driver.polled
    term,         \* the Terminal a completing task carries
    got,          \* the Completion a caller received
    notified      \* external: the executor has scheduled the task

flightVars == <<table, state, subscribers, runnable, reason, wakers, polls, armed>>
taskVars == <<pc, on, leader, polled, term, got, notified>>
vars == <<flightVars, taskVars>>

Live == {"Starting", "Pending", "Polling"}
Terminal == {"Owned", "LeaseLost", "Shared", "Panicked", "PanicTaken", "Cancelled"}

Init ==
    /\ table = NoFlight
    /\ state = [f \in Flights |-> "Unborn"]
    /\ subscribers = [f \in Flights |-> 0]
    /\ runnable = [f \in Flights |-> FALSE]
    /\ reason = [f \in Flights |-> "none"]
    /\ wakers = [f \in Flights |-> {}]
    /\ polls = [f \in Flights |-> 0]
    /\ armed = [f \in Flights |-> FALSE]
    /\ pc = [t \in Tasks |-> "idle"]
    /\ on = [t \in Tasks |-> NoFlight]
    /\ leader = [c \in Callers |-> FALSE]
    /\ polled = [t \in Callers \cup Flights |-> FALSE]
    /\ term = [t \in Tasks |-> "none"]
    /\ got = [c \in Callers |-> "none"]
    /\ notified = [t \in Callers \cup Flights |-> FALSE]

Goto(t, place) == pc' = [pc EXCEPT ![t] = place]

\* What follows poll_work or cancel: Subscription::poll ends in try_complete,
\* Driver::poll in is_finished.
Return(t) == IF t \in Callers THEN "try" ELSE IF t \in Flights THEN "check" ELSE "idle"

\* Flight::notify takes the registered wakers and wakes them (a task that is
\* over stays so).
Notify(f) ==
    /\ notified' = [t \in Callers \cup Flights |->
                        notified[t] \/ (t \in wakers[f] /\ pc[t] # "done")]
    /\ wakers' = [wakers EXCEPT ![f] = {}]

\* Request::cancel_with: the first reason stays.
CancelWith(f, why) ==
    reason' = [reason EXCEPT ![f] = IF @ = "none" THEN why ELSE @]

\* The table entry goes only if it is this very flight.
Unlist(f) == table' = IF table = f THEN NoFlight ELSE table

-------------------------------------------------------------------------------
(* A call: acquire, lead or join *)

\* Mutant: a caller leads although a flight is listed.
LeadAnyway(c) ==
    \E f \in Flights :
        /\ state[f] = "Unborn"
        /\ f = CHOOSE new \in Flights : state[new] = "Unborn"
        /\ table' = f
        /\ state' = [state EXCEPT ![f] = "Starting"]
        /\ subscribers' = [subscribers EXCEPT ![f] = 1]
        /\ runnable' = [runnable EXCEPT ![f] = TRUE]
        /\ leader' = [leader EXCEPT ![c] = TRUE]
        /\ on' = [on EXCEPT ![c] = f]
        /\ Goto(c, "prepare")

\* Flights::acquire lists a new flight ...
Lead(c) ==
    \E f \in Flights :
        /\ table = NoFlight
        /\ state[f] = "Unborn"
        /\ f = CHOOSE new \in Flights : state[new] = "Unborn"
        /\ table' = f
        /\ state' = [state EXCEPT ![f] = "Starting"]
        /\ subscribers' = [subscribers EXCEPT ![f] = 1]
        /\ runnable' = [runnable EXCEPT ![f] = TRUE]
        /\ leader' = [leader EXCEPT ![c] = TRUE]
        /\ on' = [on EXCEPT ![c] = f]
        /\ Goto(c, "prepare")

\* ... or joins the listed one.
Join(c) ==
    /\ table # NoFlight
    /\ subscribers' = [subscribers EXCEPT ![table] = @ + 1]
    /\ on' = [on EXCEPT ![c] = table]
    /\ Goto(c, "try")
    /\ UNCHANGED <<table, state, runnable, leader>>

Acquire(c) ==
    /\ pc[c] = "idle"
    /\ Lead(c) \/ Join(c)
    /\ UNCHANGED <<reason, wakers, polls, armed, polled, term, got, notified>>

\* Flight::install, then the leader's first poll, which registers no waker.
Install(c) ==
    /\ pc[c] = "prepare"
    /\ state' = [state EXCEPT ![on[c]] = IF @ = "Starting" THEN "Pending" ELSE @]
    /\ Goto(c, "poll")
    /\ UNCHANGED <<table, subscribers, runnable, reason, wakers, polls, armed,
                   on, leader, polled, term, got, notified>>

\* Preparation unwinds before install: the subscription is dropped.
Abandon(c) ==
    /\ pc[c] = "prepare"
    /\ Goto(c, "drop")
    /\ UNCHANGED <<flightVars, on, leader, polled, term, got, notified>>

\* The leader takes the panic payload, once.
TakesPayload(c) == leader[c] /\ state[on[c]] = "Panicked"

\* try_complete finds no result yet: the caller awaits its subscription ...
TryPends(c) ==
    /\ state[on[c]] \in Live
    /\ polled[c] \/ ~leader[c] \/ c \notin CanExecute
    /\ Goto(c, "await")
    /\ UNCHANGED <<state, on, got>>

\* ... and a leader that can spawns the driver first (tasks.can_execute()).
TrySpawns(c) ==
    /\ state[on[c]] \in Live
    /\ ~polled[c] /\ leader[c] /\ c \in CanExecute
    /\ pc' = [pc EXCEPT ![c] = "await", ![on[c]] = "await"]
    /\ on' = [on EXCEPT ![on[c]] = on[c]]
    /\ UNCHANGED <<state, got>>

\* An owned result is moved out.
TryOwned(c) ==
    /\ state[on[c]] \in {"Owned", "LeaseLost"}
    /\ state' = [state EXCEPT ![on[c]] = "Finished"]
    /\ got' = [got EXCEPT ![c] = "Owned"]
    /\ Goto(c, "drop")
    /\ UNCHANGED on

TryPanicked(c) ==
    /\ state[on[c]] \in {"Panicked", "PanicTaken"}
    /\ got' = [got EXCEPT ![c] = IF TakesPayload(c) THEN "Panicked" ELSE "FollowerPanicked"]
    /\ state' = [state EXCEPT ![on[c]] = IF TakesPayload(c) THEN "PanicTaken" ELSE @]
    /\ Goto(c, "drop")
    /\ UNCHANGED on

\* A copy is given out; on a consumed flight try_complete panics and the call unwinds.
TryCopied(c) ==
    /\ state[on[c]] \in {"Shared", "Cancelled", "Finished"}
    /\ got' = [got EXCEPT ![c] = IF state[on[c]] = "Finished" THEN "Unwound" ELSE state[on[c]]]
    /\ Goto(c, "drop")
    /\ UNCHANGED <<state, on>>

TryComplete(c) ==
    /\ pc[c] = "try"
    /\ TryPends(c) \/ TrySpawns(c) \/ TryOwned(c) \/ TryPanicked(c) \/ TryCopied(c)
    /\ UNCHANGED <<table, subscribers, runnable, reason, wakers, polls, armed,
                   leader, polled, term, notified>>

-------------------------------------------------------------------------------
(* Polling the shared work *)

\* Mutant: the waker is registered after the work was polled and found pending.
AwaitUnregistered(t) ==
    /\ pc[t] = "await"
    /\ ~polled[t] \/ notified[t]
    /\ notified' = [notified EXCEPT ![t] = FALSE]
    /\ runnable' = [runnable EXCEPT ![on[t]] = @ \/ ~polled[t]]
    /\ polled' = [polled EXCEPT ![t] = TRUE]
    /\ Goto(t, "poll")
    /\ UNCHANGED <<table, state, subscribers, reason, wakers, polls, armed,
                   on, leader, term, got>>

\* Subscription::poll and Driver::poll up to poll_work.
Await(t) ==
    /\ pc[t] = "await"
    /\ ~polled[t] \/ notified[t]
    /\ notified' = [notified EXCEPT ![t] = FALSE]
    /\ wakers' = [wakers EXCEPT ![on[t]] = @ \cup {t}]
    /\ runnable' = [runnable EXCEPT ![on[t]] = @ \/ (~polled[t] /\ state[on[t]] \in Live)]
    /\ polled' = [polled EXCEPT ![t] = TRUE]
    /\ Goto(t, "poll")
    /\ UNCHANGED <<table, state, subscribers, reason, polls, armed, on, leader, term, got>>

\* poll_work takes pending, runnable work out of the cell, or returns.
PollWork(t) ==
    /\ pc[t] = "poll"
    /\ LET f == on[t] IN
        IF state[f] = "Pending" /\ runnable[f]
        THEN /\ runnable' = [runnable EXCEPT ![f] = FALSE]
             /\ state' = [state EXCEPT ![f] = "Polling"]
             /\ Goto(t, "polling")
        ELSE Goto(t, Return(t)) /\ UNCHANGED <<runnable, state>>
    /\ UNCHANGED <<table, subscribers, reason, wakers, polls, armed,
                   on, leader, polled, term, got, notified>>

\* The factory returns (perhaps a lost lease) or panics; its future is dropped.
\* complete(): the table entry goes before the terminal state is published.
UserEnds(t) ==
    /\ pc[t] = "polling"
    /\ \E outcome \in Outcomes : term' = [term EXCEPT ![t] = outcome]
    /\ armed' = [armed EXCEPT ![on[t]] = FALSE]
    /\ polls' = [polls EXCEPT ![on[t]] = 0]
    /\ Unlist(on[t])
    /\ Goto(t, "publish")
    /\ UNCHANGED <<state, subscribers, runnable, reason, wakers,
                   on, leader, polled, got, notified>>

\* The factory stays pending with the flight's waker.  If a reason was recorded
\* meanwhile the work is dropped, otherwise it goes back.
UserPends(t) ==
    /\ pc[t] = "polling"
    /\ LET f == on[t]
           cancelled == reason[f] # "none"
       IN  /\ polls[f] < MaxPolls
           /\ polls' = [polls EXCEPT ![f] = IF cancelled THEN 0 ELSE @ + 1]
           /\ armed' = [armed EXCEPT ![f] = ~cancelled]
           /\ term' = [term EXCEPT ![t] = IF cancelled THEN "Cancelled" ELSE "none"]
           /\ IF cancelled
              THEN Unlist(f) /\ Goto(t, "publish")
              ELSE Goto(t, "requeue") /\ UNCHANGED table
    /\ UNCHANGED <<state, subscribers, runnable, reason, wakers,
                   on, leader, polled, got, notified>>

\* The waker the factory holds is the flight: Wake for Flight.
UserWakes(f) ==
    /\ armed[f]
    /\ armed' = [armed EXCEPT ![f] = FALSE]
    /\ runnable' = [runnable EXCEPT ![f] = TRUE]
    /\ Notify(f)
    /\ UNCHANGED <<table, state, subscribers, reason, polls,
                   pc, on, leader, polled, term, got>>

Requeue(t) ==
    /\ pc[t] = "requeue"
    /\ state' = [state EXCEPT ![on[t]] = "Pending"]
    /\ Goto(t, "recheck")
    /\ UNCHANGED <<table, subscribers, runnable, reason, wakers, polls, armed,
                   on, leader, polled, term, got, notified>>

\* "A cancel can race the transition back to Pending."
Recheck(t) ==
    /\ pc[t] = "recheck"
    /\ Goto(t, IF reason[on[t]] # "none" THEN "cancel" ELSE Return(t))
    /\ UNCHANGED <<flightVars, on, leader, polled, term, got, notified>>

\* Driver::poll ends in is_finished.
DriverChecks(f) ==
    /\ pc[f] = "check"
    /\ IF state[f] \in Live
       THEN Goto(f, "await") /\ UNCHANGED <<polled, notified>>
       ELSE /\ Goto(f, "done")
            /\ polled' = [polled EXCEPT ![f] = FALSE]
            /\ notified' = [notified EXCEPT ![f] = FALSE]
    /\ UNCHANGED <<flightVars, on, leader, term, got>>

-------------------------------------------------------------------------------
(* Completion *)

\* A recorded reason overrides the result, except a typed lost lease.
Verdict(f, terminal) ==
    IF reason[f] = "LeaseLost" /\ terminal = "LeaseLost" THEN terminal
    ELSE IF reason[f] # "none" THEN "Cancelled" ELSE terminal

\* Mutant: two subscribers race for one owned result.
PublishedUnshared(f, terminal) ==
    IF subscribers[f] = 0 THEN "Finished" ELSE Verdict(f, terminal)

\* A result for several subscribers is shared, for none discarded.
Published(f, terminal) ==
    IF subscribers[f] = 0 THEN "Finished"
    ELSE IF Verdict(f, terminal) \in {"Owned", "LeaseLost"} /\ subscribers[f] > 1 THEN "Shared"
    ELSE Verdict(f, terminal)

Publish(t) ==
    /\ pc[t] = "publish"
    /\ state' = [state EXCEPT ![on[t]] = Published(on[t], term[t])]
    /\ runnable' = [runnable EXCEPT ![on[t]] = FALSE]
    /\ term' = [term EXCEPT ![t] = "none"]
    /\ Goto(t, "finish")
    /\ UNCHANGED <<table, subscribers, reason, wakers, polls, armed,
                   on, leader, polled, got, notified>>

Finish(t) ==
    /\ pc[t] = "finish"
    /\ CancelWith(on[t], "ScopeFinished")
    /\ Notify(on[t])
    /\ Goto(t, Return(t))
    /\ UNCHANGED <<table, state, subscribers, runnable, polls, armed,
                   on, leader, polled, term, got>>

-------------------------------------------------------------------------------
(* CancelWork::cancel, by a token, a shutdown, or poll_work itself *)

CancelBegins ==
    /\ pc[Canceller] = "idle"
    /\ \E f \in Flights, why \in CancelReasons :
        /\ state[f] # "Unborn"
        /\ reason[f] = "none"       \* a later cancel() finds nothing left to do
        /\ CancelWith(f, why)
        /\ on' = [on EXCEPT ![Canceller] = f]
    /\ Goto(Canceller, "cancel")
    /\ UNCHANGED <<table, state, subscribers, runnable, wakers, polls, armed,
                   leader, polled, term, got, notified>>

CancelState(t) ==
    /\ pc[t] = "cancel"
    /\ LET f == on[t] IN
        IF state[f] \in {"Starting", "Pending"}
        THEN /\ state' = [state EXCEPT ![f] = "Cancelled"]
             /\ armed' = [armed EXCEPT ![f] = FALSE]
             /\ polls' = [polls EXCEPT ![f] = 0]
             /\ runnable' = [runnable EXCEPT ![f] = FALSE]
        ELSE UNCHANGED <<state, armed, polls, runnable>>
    /\ Goto(t, "cancel_unlist")
    /\ UNCHANGED <<table, subscribers, reason, wakers,
                   on, leader, polled, term, got, notified>>

CancelUnlist(t) ==
    /\ pc[t] = "cancel_unlist"
    /\ Unlist(on[t])
    /\ Goto(t, "cancel_notify")
    /\ UNCHANGED <<state, subscribers, runnable, reason, wakers, polls, armed,
                   on, leader, polled, term, got, notified>>

CancelNotify(t) ==
    /\ pc[t] = "cancel_notify"
    /\ Notify(on[t])
    /\ Goto(t, Return(t))
    /\ UNCHANGED <<table, state, subscribers, runnable, reason, polls, armed,
                   on, leader, polled, term, got>>

-------------------------------------------------------------------------------
(* Dropping a subscription *)

\* A caller drops the call it awaits.
Forget(c) ==
    /\ pc[c] = "await"
    /\ Goto(c, "drop")
    /\ UNCHANGED <<flightVars, on, leader, polled, term, got, notified>>

Drop(c) ==
    /\ pc[c] = "drop"
    /\ LET f == on[c]
           last == subscribers[f] = 1
       IN  /\ subscribers' = [subscribers EXCEPT ![f] = @ - 1]
           /\ state' = [state EXCEPT ![f] = IF last /\ @ \in Terminal THEN "Finished" ELSE @]
           /\ Goto(c, IF last /\ state[f] = "Starting" THEN "abandon" ELSE "drop_notify")
    /\ UNCHANGED <<table, runnable, reason, wakers, polls, armed,
                   on, leader, polled, term, got, notified>>

\* abandon_start looks again, under the table shard and the cell.
AbandonStart(c) ==
    /\ pc[c] = "abandon"
    /\ LET f == on[c] IN
        IF subscribers[f] = 0 /\ state[f] = "Starting"
        THEN /\ state' = [state EXCEPT ![f] = "Finished"]
             /\ runnable' = [runnable EXCEPT ![f] = FALSE]
             /\ table' = NoFlight
             /\ CancelWith(f, "ScopeFinished")
             /\ Notify(f)
        ELSE UNCHANGED <<state, runnable, table, reason, notified, wakers>>
    /\ Goto(c, "drop_notify")
    /\ UNCHANGED <<subscribers, polls, armed, on, leader, polled, term, got>>

DropNotify(c) ==
    /\ pc[c] = "drop_notify"
    /\ runnable' = [runnable EXCEPT ![on[c]] = state[on[c]] \in Live]
    /\ Notify(on[c])
    /\ polled' = [polled EXCEPT ![c] = FALSE]
    /\ Goto(c, "done")
    /\ UNCHANGED <<table, state, subscribers, reason, polls, armed, on, leader, term, got>>

-------------------------------------------------------------------------------
Driven(t) ==
    \/ Await(t) \/ PollWork(t) \/ UserEnds(t) \/ UserPends(t)
    \/ Requeue(t) \/ Recheck(t) \/ Publish(t) \/ Finish(t)
    \/ CancelState(t) \/ CancelUnlist(t) \/ CancelNotify(t)

Called(c) ==
    Install(c) \/ TryComplete(c) \/ Drop(c) \/ AbandonStart(c) \/ DropNotify(c)

Next ==
    \/ \E t \in Callers \cup Flights : Driven(t)
    \/ \E c \in Callers : Acquire(c) \/ Abandon(c) \/ Forget(c) \/ Called(c)
    \/ \E f \in Flights : UserWakes(f) \/ DriverChecks(f)
    \/ CancelBegins
    \/ \/ CancelState(Canceller) \/ CancelUnlist(Canceller)
       \/ CancelNotify(Canceller)

Spec == Init /\ [][Next]_vars

\* Started code runs on, a scheduled task is polled, a new future is polled at
\* least once or dropped, and pending user work wakes its waker.  Nobody has to
\* call, to abandon or to cancel.  A call takes finitely many of these steps, so
\* it is enough that one of them is taken whenever one can be.
Continues ==
    \/ \E t \in Callers \cup Flights : Driven(t)
    \/ \E c \in Callers : Called(c)
    \/ \E f \in Flights : UserWakes(f) \/ DriverChecks(f)
    \/ CancelState(Canceller) \/ CancelUnlist(Canceller) \/ CancelNotify(Canceller)

FairSpec == Spec /\ WF_vars(Continues)

-------------------------------------------------------------------------------
(* Properties *)

\* Inside cancel(), and where the work is out of the cell.
Cancelling == {"cancel", "cancel_unlist", "cancel_notify"}
Working == {"polling", "requeue", "publish"}
DriverPlaces == {"idle", "await", "poll", "recheck", "finish", "check", "done"} \cup Working \cup Cancelling
CallerPlaces == (DriverPlaces \ {"check"}) \cup {"prepare", "try", "drop", "abandon", "drop_notify"}

TypeOK ==
    /\ table \in Flights \cup {NoFlight}
    /\ state \in [Flights -> {"Unborn", "Finished"} \cup Live \cup Terminal]
    /\ subscribers \in [Flights -> 0 .. Cardinality(Callers)]
    /\ runnable \in [Flights -> BOOLEAN]
    /\ reason \in [Flights -> CancelReasons \cup {"none", "ScopeFinished"}]
    /\ wakers \in [Flights -> SUBSET (Callers \cup Flights)]
    /\ polls \in [Flights -> 0 .. MaxPolls]
    /\ armed \in [Flights -> BOOLEAN]
    /\ pc \in [Tasks -> CallerPlaces \cup DriverPlaces]
    /\ on \in [Tasks -> Flights \cup {NoFlight}]
    /\ leader \in [Callers -> BOOLEAN]
    /\ polled \in [Callers \cup Flights -> BOOLEAN]
    /\ term \in [Tasks -> {"none", "Owned", "LeaseLost", "Panicked", "Cancelled"}]
    /\ notified \in [Callers \cup Flights -> BOOLEAN]
    /\ got \in [Callers -> {"none", "Owned", "Shared", "Panicked", "FollowerPanicked",
                            "Cancelled", "Unwound"}]

\* The factory of f has not ended: it is to be installed, waits or is polled.
Computing(f) ==
    \/ state[f] \in {"Starting", "Pending"}
    \/ \E t \in Tasks : on[t] = f /\ pc[t] \in {"polling", "requeue"}

\* One computation per key: two factories run at once only if one of them was
\* cancelled (cancel() unlists a flight that is still being polled).
OneComputation ==
    \A f, g \in Flights :
        Computing(f) /\ Computing(g) /\ f # g => reason[f] # "none" \/ reason[g] # "none"

\* A result that was moved out to one subscriber was nobody else's: a second
\* subscriber makes it shared before anyone takes it.
OwnedResultHasOneTaker ==
    \A c, d \in Callers :
        /\ c # d /\ on[c] = on[d]
        /\ got[c] = "Owned"
        => got[d] \in {"none", "FollowerPanicked"} /\ pc[d] \in {"drop", "drop_notify", "done"}

\* The panic payload is resumed once, in the call that led the flight.
PanicPayloadHasOneTaker ==
    \A c, d \in Callers :
        /\ on[c] = on[d]
        /\ got[c] = "Panicked" /\ got[d] = "Panicked"
        => c = d /\ leader[c]

\* The panic of try_complete, "completed subscription polled again", is out of
\* reach of a subscription that was not consumed, unless its flight was cancelled.
FinishedOnlyIfCancelled ==
    \A c \in Callers :
        pc[c] = "try" /\ state[on[c]] = "Finished" => reason[on[c]] \in CancelReasons

\* A cancelled flight that is at rest is terminal: no cancellation is lost
\* between Polling and Pending.
CancellationSticks ==
    \A f \in Flights :
        /\ reason[f] \in CancelReasons
        /\ \A t \in Tasks : on[t] # f \/ pc[t] \in {"idle", "prepare", "try", "await", "poll",
                                                "drop", "abandon", "drop_notify", "done"}
        => state[f] \notin Live

\* What a factory leaves behind, its value or its panic, is taken by one caller.
ResultsHaveOneTaker == OwnedResultHasOneTaker /\ PanicPayloadHasOneTaker

-------------------------------------------------------------------------------
(* The inductive invariant behind the safety properties, in named parts. *)

\* Where a task can stand, and on which flight.
PlaceInv ==
    /\ \A c \in Callers : pc[c] \in CallerPlaces /\ (pc[c] = "idle" <=> on[c] = NoFlight)
    /\ \A f \in Flights : pc[f] \in DriverPlaces /\ (pc[f] # "idle" => on[f] = f)
    /\ \A f \in Flights : on[f] \in {f, NoFlight}
    /\ pc[Canceller] \in {"idle"} \cup Cancelling
    /\ pc[Canceller] # "idle" => on[Canceller] \in Flights
    /\ \A t \in Tasks : pc[t] = "publish" => term[t] # "none"
    /\ \A f \in Flights : state[f] = "Unborn" =>
        table # f /\ reason[f] = "none" /\ \A t \in Tasks : on[t] # f

\* The work is out of the cell exactly while one task polls or completes it.
WorkInv ==
    \A f \in Flights :
        /\ \A t, u \in Tasks : on[t] = f /\ on[u] = f /\ pc[t] \in Working /\ pc[u] \in Working => t = u
        /\ state[f] = "Polling" <=> \E t \in Tasks : on[t] = f /\ pc[t] \in Working

\* A flight that computes is listed until it is cancelled, and one that is listed computes
\* or is being cancelled.
TableInv ==
    \A f \in Flights :
        /\ state[f] = "Starting" => table = f
        /\ Computing(f) /\ reason[f] = "none" => table = f
        /\ table = f => \/ state[f] \in Live
                        \/ state[f] \in {"Cancelled", "Finished"} /\ reason[f] \in CancelReasons
        /\ \A t \in Tasks : on[t] = f /\ pc[t] = "publish" => table # f

\* A reason is recorded before anything is done about it, and work that is back in the
\* cell with a reason against it has somebody on the way to cancel it.
ReasonInv ==
    \A f \in Flights :
        /\ reason[f] = "ScopeFinished" => state[f] \notin Live
        /\ \A t \in Tasks : on[t] = f /\ pc[t] \in Cancelling => reason[f] # "none"
        /\ \A t \in Tasks : on[t] = f /\ pc[t] \in {"cancel_unlist", "cancel_notify"} => state[f] # "Starting"
        /\ \A t \in Tasks : on[t] = f /\ pc[t] = "finish" => state[f] \notin Live
        /\ reason[f] \in CancelReasons /\ state[f] \in {"Starting", "Pending"}
            => \E t \in Tasks : on[t] = f /\ pc[t] \in {"cancel", "recheck"}

\* The callers that subscribers counts.
Subscribed(f) == {c \in Callers : on[c] = f /\ pc[c] \notin {"abandon", "drop_notify", "done"}}

\* An owned result has at most one subscriber, and a flight that finished without being
\* cancelled none that will look at it.
SubscriberInv ==
    \A f \in Flights :
        /\ subscribers[f] = Cardinality(Subscribed(f))
        /\ state[f] \in {"Owned", "LeaseLost"} => subscribers[f] <= 1
        /\ state[f] = "Finished" /\ reason[f] \notin CancelReasons
            => \A c \in Subscribed(f) : pc[c] = "drop"

\* One caller leads a flight; it alone installs the work and spawns the driver.
LeaderInv ==
    /\ \A c, d \in Callers : leader[c] /\ leader[d] /\ on[c] = on[d] => c = d
    /\ \A c \in Callers :
        /\ pc[c] = "prepare" => leader[c]
        /\ leader[c] => on[c] # NoFlight
        /\ leader[c] /\ ~polled[c] /\ pc[on[c]] # "idle"
            => pc[c] \in {"await", "drop", "abandon", "drop_notify", "done"}
        /\ pc[c] = "abandon" =>
            /\ state[on[c]] \in {"Starting", "Cancelled", "Finished"}
            /\ \A d \in Callers : on[d] = on[c] => pc[d] # "prepare"

\* What a caller was given is what its flight ended with.
ResultInv ==
    \A c \in Callers :
        /\ got[c] # "none" => pc[c] \in {"drop", "abandon", "drop_notify", "done"}
        /\ got[c] = "Owned" => state[on[c]] = "Finished" /\ table # on[c]
        /\ got[c] = "Shared" => state[on[c]] \in {"Shared", "Finished"}
        /\ got[c] = "Cancelled" => state[on[c]] \in {"Cancelled", "Finished"}
        /\ got[c] = "Panicked" => state[on[c]] \in {"PanicTaken", "Finished"} /\ leader[c]
        /\ got[c] = "FollowerPanicked" => state[on[c]] \in {"Panicked", "PanicTaken", "Finished"}
        /\ got[c] = "Unwound" => state[on[c]] = "Finished"

SharedInv ==
    /\ TypeOK /\ PlaceInv /\ WorkInv /\ TableInv /\ ReasonInv
    /\ SubscriberInv /\ LeaderInv /\ ResultInv /\ OwnedResultHasOneTaker

\* The flight of a key at every moment: its types, one computation, no subscription that
\* finds nothing unless its flight was cancelled, and no cancellation that is lost.
FlightInv == TypeOK /\ OneComputation /\ FinishedOnlyIfCancelled /\ CancellationSticks

-------------------------------------------------------------------------------
\* The preparing caller of a flight is gone and nobody will install its work.
Orphaned(f) ==
    /\ f \in Flights
    /\ state[f] = "Starting"
    /\ \A c \in Callers : ~(on[c] = f /\ leader[c] /\ pc[c] = "prepare")

\* Every caller gets an answer, whoever polls, stops polling, panics or cancels,
\* as long as the leader got as far as installing the work.
EveryCallerIsAnswered ==
    []<>(\A c \in Callers : pc[c] \in {"idle", "prepare", "done"} \/ Orphaned(on[c]))

=================================================================================
