--------------------------- MODULE ExecutionScopes ---------------------------
(***************************************************************************)
(* The registry of cache-owned work.  A piece of work is a user future; it *)
(* is polled by its caller, first in an inline frame that only counts it,  *)
(* and after its first suspension in a registered scope that a close can   *)
(* cancel and destroy without another poll.  User code (a poll, a          *)
(* destructor) runs between two steps.  Closing publishes the flag, fires  *)
(* the shutdown token, which queues every registered scope, and cancels    *)
(* what is queued.                                                         *)
(*                                                                         *)
(* The striped activity counters are the set of agents inside the registry *)
(* (idle reads them as one).  Reason "finished" stands for ScopeFinished,  *)
(* "shutdown" for CacheShutdown, "dropped" for CallerDropped, "cancelled"  *)
(* for the reason of an explicit cancellation.                             *)
(***************************************************************************)
EXTENDS Naturals, FiniteSets

CONSTANTS
    Works,       \* pieces of work; each is also the thread of its caller
    Canceller,   \* the thread that cancels through a linked token
    Closers,     \* the threads that close
    MaxPolls

VARIABLES
    closing, fired,
    queue,       \* the scopes the shutdown token has woken, not cancelled yet
    work,
    cancel,      \* per agent: the scope cancellation it is in the middle of
    closer       \* per closer: where it is in close

scopes == <<closing, fired, queue, work, cancel, closer>>

Reasons == {"none", "finished", "shutdown", "dropped", "cancelled"}

Agents == Works \cup {Canceller} \cup Closers

NoWork ==
    [pc |-> "none", state |-> "none", recorded |-> "none", token |-> "none", alive |-> FALSE,
     tracked |-> FALSE, permit |-> FALSE, active |-> FALSE, polls |-> 0, result |-> "none"]

NotCancelling == [pc |-> "idle", target |-> "none", holds |-> FALSE, tracking |-> FALSE, reason |-> "none"]

\* Only the work in present is ever asked for.
ScopesInit(present) ==
    /\ closing = FALSE /\ fired = FALSE /\ queue = {}
    /\ work = [w \in Works |-> IF w \in present THEN NoWork ELSE [NoWork EXCEPT !.pc = "done"]]
    /\ cancel = [a \in Agents |-> NotCancelling]
    /\ closer = [c \in Closers |-> "idle"]

\* The activity counters, and the task tracker.
ScopesIdle ==
    /\ \A w \in Works : ~work[w].permit /\ ~work[w].active
    /\ \A a \in Agents : cancel[a].pc = "idle"
    /\ \A c \in Closers : closer[c] \notin {"fire", "sweep"}

NoTasks == \A w \in Works : ~work[w].tracked

\* An inline frame's token also tells of the close; a registered scope publishes it itself.
TerminalReason(w) ==
    IF work[w].token # "none" THEN work[w].token
    ELSE IF work[w].state = "none" /\ closing THEN "shutdown"
    ELSE "none"

\* Request::cancel_with: the first terminal reason stands.
Published(w, reason) == [work EXCEPT ![w].token = IF @ = "none" THEN reason ELSE @]

(***************************************************************************)
(* The first poll, inline.                                                 *)
(***************************************************************************)
Create(w) ==
    /\ work[w].pc = "none"
    /\ work' = [work EXCEPT ![w].pc = "first", ![w].alive = TRUE, ![w].permit = TRUE]
    /\ UNCHANGED <<closing, fired, queue, cancel, closer>>

FirstPoll(w) ==
    /\ work[w].pc = "first"
    /\ work' = [work EXCEPT ![w].pc = IF TerminalReason(w) = "none" THEN "inline" ELSE "unframe",
                            ![w].result = TerminalReason(w)]
    /\ UNCHANGED <<closing, fired, queue, cancel, closer>>

\* The poll returns: a close wins over a value, a value completes, a suspension promotes.
FirstReturns(w, ready) ==
    LET reason == TerminalReason(w)
    IN  /\ work[w].pc = "inline"
        /\ work' =
             IF reason # "none"
             THEN [work EXCEPT ![w].pc = "unframe", ![w].result = reason]
             ELSE IF ready
             THEN [Published(w, "finished") EXCEPT ![w].pc = "unframe", ![w].result = "finished"]
             ELSE [work EXCEPT ![w].pc = "register", ![w].state = "pending"]
        /\ UNCHANGED <<closing, fired, queue, cancel, closer>>

FirstPanics(w) ==
    /\ work[w].pc = "inline"
    /\ work' = [work EXCEPT ![w].pc = "unframe", ![w].result = "panic"]
    /\ UNCHANGED <<closing, fired, queue, cancel, closer>>

\* The frame is dropped: the reason is published before the work is destroyed, and the
\* permit goes last.
Unframe(w) ==
    /\ work[w].pc = "unframe"
    /\ work' = [Published(w, IF TerminalReason(w) = "none" THEN "dropped" ELSE TerminalReason(w))
                  EXCEPT ![w].pc = "unframed"]
    /\ UNCHANGED <<closing, fired, queue, cancel, closer>>

Unframed(w) ==
    /\ work[w].pc = "unframed"
    /\ work' = [work EXCEPT ![w].pc = "done", ![w].alive = FALSE, ![w].permit = FALSE]
    /\ UNCHANGED <<closing, fired, queue, cancel, closer>>

(***************************************************************************)
(* Scope cancellation, by any agent.  The work leaves the state under its  *)
(* lock; the reason is published, and only then is the work destroyed; the *)
(* tracker token goes after it.                                            *)
(***************************************************************************)
\* The reason the cancellation finds or sets, and what it leaves of the scope.
Found(w, reason) ==
    CASE work[w].state = "completed" -> "finished"
      [] work[w].recorded # "none" -> work[w].recorded
      [] OTHER -> IF TerminalReason(w) = "none" THEN reason ELSE TerminalReason(w)

Struck(w, reason) ==
    [work[w] EXCEPT !.state = IF @ = "pending" THEN "cancelled" ELSE @,
                    !.recorded = IF work[w].state = "completed" THEN @ ELSE Found(w, reason)]

Cancelling(w, reason) ==
    [pc |-> "publish", target |-> w, holds |-> work[w].state = "pending",
     tracking |-> work[w].state # "polling" /\ work[w].tracked, reason |-> Found(w, reason)]

CancelBegins(a, w, reason) ==
    /\ cancel' = [cancel EXCEPT ![a] = Cancelling(w, reason)]
    /\ work' = [work EXCEPT ![w] = Struck(w, reason)]

CancelPublishes(a) ==
    /\ cancel[a].pc = "publish"
    /\ work' = Published(cancel[a].target, cancel[a].reason)
    /\ cancel' = [cancel EXCEPT ![a].pc = "retire"]
    /\ UNCHANGED <<closing, fired, queue, closer>>

CancelRetires(a) ==
    LET w == cancel[a].target
    IN  /\ cancel[a].pc = "retire"
        /\ work' = [work EXCEPT ![w].alive = @ /\ ~cancel[a].holds,
                                ![w].tracked = @ /\ ~cancel[a].tracking]
        /\ cancel' = [cancel EXCEPT ![a].pc = "ending"]
        /\ UNCHANGED <<closing, fired, queue, closer>>

CancelEnds(a) ==
    /\ cancel[a].pc = "ending"
    /\ cancel' = [cancel EXCEPT ![a] = NotCancelling]
    /\ UNCHANGED <<closing, fired, queue, work, closer>>

(***************************************************************************)
(* A suspended work is registered, then the frame lets go of its permit.   *)
(***************************************************************************)
Register(w) ==
    /\ work[w].pc = "register"
    /\ work' = [work EXCEPT ![w].pc = "registered", ![w].tracked = TRUE, ![w].active = TRUE]
    /\ UNCHANGED <<closing, fired, queue, cancel, closer>>

\* A bug: a close that came before the registration is not looked for.
RegisteredUnchecked(w) ==
    /\ work[w].pc = "registered"
    /\ work' = [work EXCEPT ![w].pc = "tracked"]
    /\ UNCHANGED <<closing, fired, queue, cancel, closer>>

\* A close that came before the registration has not queued this scope.
Registered(w) ==
    /\ work[w].pc = "registered"
    /\ IF closing
       THEN /\ work' = [work EXCEPT ![w] = [Struck(w, "shutdown") EXCEPT !.pc = "tracked"]]
            /\ cancel' = [cancel EXCEPT ![w] = Cancelling(w, "shutdown")]
       ELSE /\ work' = [work EXCEPT ![w].pc = "tracked"]
            /\ UNCHANGED cancel
    /\ UNCHANGED <<closing, fired, queue, closer>>

Finished(w) == work[w].state \in {"cancelled", "completed"}

Tracked(w) ==
    /\ work[w].pc = "tracked" /\ cancel[w].pc = "idle"
    /\ work' = [work EXCEPT ![w].pc = "suspended", ![w].tracked = @ /\ ~Finished(w),
                            ![w].active = FALSE, ![w].permit = FALSE]
    /\ UNCHANGED <<closing, fired, queue, cancel, closer>>

(***************************************************************************)
(* Later polls, and the caller that drops its future.                      *)
(***************************************************************************)
PollBegins(w) ==
    /\ work[w].pc = "suspended"
    /\ work' =
         IF work[w].state = "cancelled"
         THEN [Published(w, work[w].recorded) EXCEPT ![w].pc = "done", ![w].result = work[w].recorded,
                                                     ![w].tracked = FALSE]
         ELSE [work EXCEPT ![w].pc = "poll", ![w].state = "polling", ![w].active = TRUE,
                           ![w].polls = @ + 1]
    /\ UNCHANGED <<closing, fired, queue, cancel, closer>>

\* A recorded cancellation, or a close that has not reached this scope yet.
StopReason(w) ==
    IF work[w].recorded # "none" THEN work[w].recorded ELSE IF closing THEN "shutdown" ELSE "none"

PollReturns(w, ready) ==
    LET reason == StopReason(w)
    IN  /\ work[w].pc = "poll"
        /\ ready \/ work[w].polls < MaxPolls
        /\ work' =
             IF reason # "none"
             THEN [work EXCEPT ![w].pc = "publish", ![w].state = "cancelled", ![w].recorded = reason,
                               ![w].result = reason]
             ELSE IF ready
             THEN [work EXCEPT ![w].pc = "publish", ![w].state = "completed", ![w].result = "finished"]
             ELSE [work EXCEPT ![w].pc = "suspended", ![w].state = "pending", ![w].active = FALSE]
        /\ UNCHANGED <<closing, fired, queue, cancel, closer>>

Publish(w) ==
    /\ work[w].pc = "publish"
    /\ work' = [Published(w, IF work[w].state = "completed" THEN "finished" ELSE work[w].recorded)
                  EXCEPT ![w].pc = "retire"]
    /\ UNCHANGED <<closing, fired, queue, cancel, closer>>

\* The work is destroyed, then its tracker token; the activity ends last.
Retire(w) ==
    /\ work[w].pc = "retire"
    /\ work' = [work EXCEPT ![w].pc = "returning", ![w].alive = FALSE, ![w].tracked = FALSE]
    /\ UNCHANGED <<closing, fired, queue, cancel, closer>>

PollEnds(w) ==
    /\ work[w].pc = "returning"
    /\ work' = [work EXCEPT ![w].pc = "done", ![w].active = FALSE]
    /\ UNCHANGED <<closing, fired, queue, cancel, closer>>

DropReason(w) ==
    IF work[w].token # "none" THEN work[w].token ELSE IF closing THEN "shutdown" ELSE "dropped"

\* A panic destroys the work first; then the poll lease settles the scope.
PollPanics(w) ==
    /\ work[w].pc = "poll"
    /\ work' = [work EXCEPT ![w].pc = "lease", ![w].alive = FALSE, ![w].result = "panic"]
    /\ UNCHANGED <<closing, fired, queue, cancel, closer>>

LeaseEnds(w) ==
    LET reason == IF work[w].recorded = "none" THEN DropReason(w) ELSE work[w].recorded
    IN  /\ work[w].pc = "lease"
        /\ work' = [work EXCEPT ![w].pc = "publish", ![w].state = "cancelled", ![w].recorded = reason]
        /\ UNCHANGED <<closing, fired, queue, cancel, closer>>

DropExecution(w) ==
    /\ work[w].pc = "suspended"
    /\ cancel' = [cancel EXCEPT ![w] = Cancelling(w, DropReason(w))]
    /\ work' = [work EXCEPT ![w] = [Struck(w, DropReason(w)) EXCEPT !.pc = "done"]]
    /\ UNCHANGED <<closing, fired, queue, closer>>

\* A linked token is cancelled: its listeners cancel the scope from another thread.  After a
\* recorded reason it would change nothing.
LinkedCancel(w) ==
    /\ cancel[Canceller].pc = "idle"
    /\ work[w].state \in {"pending", "polling"} /\ work[w].recorded = "none"
    /\ CancelBegins(Canceller, w, "cancelled")
    /\ UNCHANGED <<closing, fired, queue, closer>>

(***************************************************************************)
(* Close.                                                                  *)
(***************************************************************************)
CloseScopes(c) ==
    /\ closer[c] = "close"
    /\ closing' = TRUE
    /\ closer' = [closer EXCEPT ![c] = "fire"]
    /\ UNCHANGED <<fired, queue, work, cancel>>

\* The token wakes every registered scope once.
Fire(c) ==
    /\ closer[c] = "fire"
    /\ fired' = TRUE
    /\ queue' = IF fired THEN queue ELSE queue \cup {w \in Works : work[w].tracked}
    /\ closer' = [closer EXCEPT ![c] = "sweep"]
    /\ UNCHANGED <<closing, work, cancel>>

Sweep(c) ==
    /\ closer[c] = "sweep" /\ cancel[c].pc = "idle"
    /\ IF queue = {}
       THEN /\ closer' = [closer EXCEPT ![c] = "closed"]
            /\ UNCHANGED <<queue, work, cancel>>
       ELSE /\ \E w \in queue : queue' = queue \ {w} /\ CancelBegins(c, w, "shutdown")
            /\ UNCHANGED closer
    /\ UNCHANGED <<closing, fired>>

\* What the threads go on with by themselves; a caller need not poll again.
WorkSteps(w) ==
    \/ FirstPoll(w) \/ FirstPanics(w) \/ Unframe(w) \/ Unframed(w)
    \/ Register(w) \/ Registered(w) \/ Tracked(w) \/ PollPanics(w) \/ LeaseEnds(w)
    \/ Publish(w) \/ Retire(w) \/ PollEnds(w)
    \/ \E ready \in BOOLEAN : FirstReturns(w, ready) \/ PollReturns(w, ready)

CancelSteps(a) == CancelPublishes(a) \/ CancelRetires(a) \/ CancelEnds(a)

CloseSteps(c) == CloseScopes(c) \/ Fire(c) \/ Sweep(c)

ScopesContinue ==
    \/ \E w \in Works : WorkSteps(w)
    \/ \E a \in Agents : CancelSteps(a)
    \/ \E c \in Closers : CloseSteps(c)

\* What callers decide.
ScopesCalls == \E w \in Works : Create(w) \/ PollBegins(w) \/ DropExecution(w) \/ LinkedCancel(w)

=============================================================================
