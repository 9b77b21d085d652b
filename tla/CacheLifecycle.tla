--------------------------- MODULE CacheLifecycle ----------------------------
(***************************************************************************)
(* Close and shutdown of one cache: the registry of its work, its plugin   *)
(* host and its supervised background tasks, composed.  Close is           *)
(* synchronous and may be called by several threads; shutdown is awaited   *)
(* under a gate, may be dropped at any await, and leaves the result that   *)
(* every later call returns.                                               *)
(***************************************************************************)
EXTENDS ExecutionScopes, PluginHost

CONSTANTS
    Shutdowns,   \* the closers that await shutdown
    Tasks,       \* background tasks that user code or the teardown schedules
    Loads,       \* the sets of clients that may show up together
    MaxDrops

ASSUME ShutdownsAssumption == Shutdowns \subseteq Closers

VARIABLES
    lifecycle,   \* "running", "closing" or "closed"
    report,      \* the failures of the closed cache
    gate,        \* the shutdown that holds the gate
    shutdown,    \* per closer: its step, its wakeup, the task it joins, the failures it has taken
    task,        \* per task: its state, whether its handle is kept, whether it failed
    failures,    \* failures of tasks, not taken yet
    drops,
    forgotten    \* ghost: what a dropped shutdown had taken and nobody reports or joins again

own == <<lifecycle, report, gate, shutdown, task, failures, drops, forgotten>>

vars == <<scopes, plugins, own>>

Waiting == [pc |-> "idle", woken |-> FALSE, joining |-> {}, taken |-> {}, started |-> FALSE]

Init ==
    \E load \in Loads :
      /\ ScopesInit(load) /\ PluginsInit(load)
      /\ lifecycle = "running" /\ report = {} /\ gate = {}
      /\ shutdown = [c \in Closers |-> Waiting]
      /\ task = [t \in Tasks |-> [state |-> IF t \in load THEN "none" ELSE "finished",
                                   kept |-> FALSE, failed |-> FALSE]]
      /\ failures = {} /\ drops = 0 /\ forgotten = {}

(***************************************************************************)
(* The parts' own steps.  An activity that ends after the flag is up wakes *)
(* the drainer.                                                            *)
(***************************************************************************)
\* changed.notify_waiters.
Notifies ==
    /\ closing
    /\ \/ \E w \in Works : \/ work[w].active /\ ~work'[w].active
                           \/ work[w].permit /\ ~work'[w].permit
       \/ \E a \in Agents : cancel[a].pc # "idle" /\ cancel'[a].pc = "idle"
       \/ \E c \in Closers : closer[c] = "sweep" /\ closer'[c] = "closed"

Notified ==
    /\ shutdown' = [c \in Closers |-> [shutdown[c] EXCEPT !.woken = @ \/ Notifies]]
    /\ UNCHANGED <<plugins, lifecycle, report, gate, task, failures, drops, forgotten>>

(***************************************************************************)
(* Supervised tasks.                                                       *)
(***************************************************************************)
Started(r) == [r EXCEPT !.state = "running", !.kept = TRUE]

Spawn(t) ==
    /\ task[t].state = "none"
    /\ \/ \E w \in Works : work[w].pc \in {"inline", "poll"}
       \/ \E p \in Plugins : session[p].state = "stopping"
    /\ task' = [task EXCEPT ![t] = Started(@)]
    /\ UNCHANGED <<scopes, plugins, lifecycle, report, gate, shutdown, failures, drops, forgotten>>

\* A panic, or a cleanup that fails, is kept for the report.
TaskEnds(t, fails) ==
    /\ task[t].state = "running"
    /\ task' = [task EXCEPT ![t].state = "finished", ![t].failed = fails]
    /\ failures' = IF fails THEN failures \cup {t} ELSE failures
    /\ UNCHANGED <<scopes, plugins, lifecycle, report, gate, shutdown, drops, forgotten>>

(***************************************************************************)
(* Close.                                                                  *)
(***************************************************************************)
Closing(c) ==
    /\ closer' = [closer EXCEPT ![c] = "close"]
    /\ lifecycle' = IF lifecycle = "running" THEN "closing" ELSE lifecycle
    /\ UNCHANGED <<closing, fired, queue, work, cancel, plugins, report, task, failures, drops, forgotten>>

Close(c) ==
    /\ c \notin Shutdowns /\ closer[c] = "idle"
    /\ Closing(c)
    /\ shutdown' = [shutdown EXCEPT ![c].started = lifecycle = "running"]
    /\ UNCHANGED gate

\* Only the closer that started the close stops the plugins.
ClosePlugins(c) ==
    /\ closer[c] = "closed"
    /\ IF shutdown[c].started
       THEN CloseAttachments /\ closer' = [closer EXCEPT ![c] = "stop"]
       ELSE UNCHANGED plugins /\ closer' = [closer EXCEPT ![c] = "over"]
    /\ UNCHANGED <<closing, fired, queue, work, cancel, own>>

StopPlugins(c) ==
    /\ closer[c] = "stop"
    /\ StopAll
    /\ closer' = [closer EXCEPT ![c] = "over"]
    /\ UNCHANGED <<closing, fired, queue, work, cancel, own>>

(***************************************************************************)
(* Shutdown.                                                               *)
(***************************************************************************)
\* A bug: a close that somebody else has begun is taken as done.
EnterTrustsCloser(s) ==
    /\ shutdown[s].pc = "idle" /\ gate = {}
    /\ IF lifecycle = "closed"
       THEN /\ shutdown' = [shutdown EXCEPT ![s].pc = "returned", ![s].taken = report]
            /\ UNCHANGED <<scopes, plugins, lifecycle, report, gate, task, failures, drops, forgotten>>
       ELSE /\ closer' = [closer EXCEPT ![s] = IF lifecycle = "running" THEN "close" ELSE "over"]
            /\ lifecycle' = "closing"
            /\ gate' = {s}
            /\ shutdown' = [shutdown EXCEPT ![s].pc = "enable", ![s].started = lifecycle = "running"]
            /\ UNCHANGED <<closing, fired, queue, work, cancel, plugins, report, task, failures, drops,
                           forgotten>>

Enter(s) ==
    /\ shutdown[s].pc = "idle" /\ gate = {}
    /\ IF lifecycle = "closed"
       THEN /\ shutdown' = [shutdown EXCEPT ![s].pc = "returned", ![s].taken = report]
            /\ UNCHANGED <<scopes, plugins, lifecycle, report, gate, task, failures, drops, forgotten>>
       ELSE /\ Closing(s)
            /\ gate' = {s}
            /\ shutdown' = [shutdown EXCEPT ![s].pc = "enable", ![s].started = lifecycle = "running"]

Goes(s, from, to) ==
    /\ shutdown[s].pc = from
    /\ shutdown' = [shutdown EXCEPT ![s].pc = to]
    /\ UNCHANGED <<scopes, plugins, lifecycle, report, gate, task, failures, drops, forgotten>>

\* drained: the wakeup is subscribed to before the first look.
Enable(s) ==
    /\ shutdown[s].pc = "enable" /\ closer[s] = "over"
    /\ shutdown' = [shutdown EXCEPT ![s].pc = "idle1", ![s].woken = FALSE]
    /\ UNCHANGED <<scopes, plugins, lifecycle, report, gate, task, failures, drops, forgotten>>

Looks(s) ==
    \/ Goes(s, "idle1", IF ScopesIdle THEN "tasks" ELSE "asleep")
    \/ Goes(s, "tasks", IF NoTasks THEN "idle2" ELSE "asleep")
    \/ Goes(s, "idle2", IF ScopesIdle THEN "attachments" ELSE "asleep")

\* With tasks left their end wakes it too.
Sleeps(s) == Goes(s, "asleep", IF NoTasks THEN "wait" ELSE "waitTasks")

Wakes(s) ==
    \/ shutdown[s].woken /\ Goes(s, "wait", "enable")
    \/ (shutdown[s].woken \/ NoTasks) /\ Goes(s, "waitTasks", "enable")

\* The plugin host: close, stop what is there, wait for attachments and deliveries, then
\* stop and await what came meanwhile.
ShutAttachments(s) ==
    /\ shutdown[s].pc = "attachments"
    /\ CloseAttachments
    /\ shutdown' = [shutdown EXCEPT ![s].pc = "stop"]
    /\ UNCHANGED <<scopes, lifecycle, report, gate, task, failures, drops, forgotten>>

StopSlots(s, from, to) ==
    /\ shutdown[s].pc = from
    /\ StopAll
    /\ shutdown' = [shutdown EXCEPT ![s].pc = to]
    /\ UNCHANGED <<scopes, lifecycle, report, gate, task, failures, drops, forgotten>>

Attached(s) == AttachmentsIdle /\ Goes(s, "attaching", "again")

PluginsStopped(s) == AllStopped /\ Goes(s, "stopped", "drain1")

\* Tasks::drain: the handle leaves the queue before it is awaited.
Pop(s, from, to) ==
    /\ shutdown[s].pc = from /\ shutdown[s].joining = {}
    /\ \/ \E t \in Tasks :
            /\ task[t].kept
            /\ task' = [task EXCEPT ![t].kept = FALSE]
            /\ shutdown' = [shutdown EXCEPT ![s].joining = {t}]
       \/ /\ \A t \in Tasks : ~task[t].kept
          /\ shutdown' = [shutdown EXCEPT ![s].pc = to]
          /\ UNCHANGED task
    /\ UNCHANGED <<scopes, plugins, lifecycle, report, gate, failures, drops, forgotten>>

Join(s) ==
    /\ \E t \in shutdown[s].joining : task[t].state = "finished"
    /\ shutdown' = [shutdown EXCEPT ![s].joining = {}]
    /\ UNCHANGED <<scopes, plugins, lifecycle, report, gate, task, failures, drops, forgotten>>

\* The failures taken so far, and those waiting.
Takes(s) == shutdown[s].taken \cup failures

Take(s) ==
    /\ shutdown[s].pc = "take"
    /\ shutdown' = [shutdown EXCEPT ![s].pc = "recovery", ![s].taken = Takes(s)]
    /\ failures' = {}
    /\ UNCHANGED <<scopes, plugins, lifecycle, report, gate, task, drops, forgotten>>

\* recovery.shutdown, then locks.shutdown, which schedules the cleanup of what is still held.
ShutLocks(s) ==
    /\ shutdown[s].pc = "recovery"
    /\ \E cleanup \in SUBSET {t \in Tasks : task[t].state = "none"} :
         task' = [t \in Tasks |-> IF t \in cleanup THEN Started(task[t]) ELSE task[t]]
    /\ shutdown' = [shutdown EXCEPT ![s].pc = "drain2"]
    /\ UNCHANGED <<scopes, plugins, lifecycle, report, gate, failures, drops, forgotten>>

Finishes(s) ==
    /\ shutdown[s].pc = "finish"
    /\ report' = Takes(s) \cup {p \in slots : session[p].failed}
    /\ lifecycle' = "closed" /\ failures' = {} /\ gate' = {}
    /\ shutdown' = [shutdown EXCEPT ![s].pc = "returned", ![s].taken = report']
    /\ UNCHANGED <<scopes, plugins, task, drops, forgotten>>

\* The future is dropped at an await: the gate opens, what it held is gone.
DropShutdown(s) ==
    /\ shutdown[s].pc \in {"wait", "waitTasks", "attaching", "stopped", "drain1", "recovery", "drain2"}
    /\ drops < MaxDrops
    /\ drops' = drops + 1
    /\ gate' = {}
    /\ forgotten' = forgotten \cup shutdown[s].taken \cup shutdown[s].joining
    /\ shutdown' = [shutdown EXCEPT ![s] = Waiting]
    /\ UNCHANGED <<scopes, plugins, lifecycle, report, task, failures>>

ShutdownSteps(s) ==
    \/ Enable(s) \/ Looks(s) \/ Sleeps(s) \/ Wakes(s)
    \/ ShutAttachments(s) \/ StopSlots(s, "stop", "attaching") \/ Attached(s)
    \/ StopSlots(s, "again", "stopped") \/ PluginsStopped(s)
    \/ Pop(s, "drain1", "take") \/ Join(s) \/ Take(s) \/ ShutLocks(s)
    \/ Pop(s, "drain2", "finish") \/ Finishes(s)

\* What threads, tasks and a polled shutdown go on with.
Continue ==
    \/ ScopesContinue /\ Notified
    \/ PluginsContinue /\ UNCHANGED <<scopes, own>>
    \/ \E t \in Tasks, fails \in BOOLEAN : TaskEnds(t, fails)
    \/ \E c \in Closers : ClosePlugins(c) \/ StopPlugins(c)
    \/ \E s \in Shutdowns : ShutdownSteps(s)

\* What users decide.
Calls ==
    \/ ScopesCalls /\ Notified
    \/ PluginsCalls /\ UNCHANGED <<scopes, own>>
    \/ \E t \in Tasks : Spawn(t)
    \/ \E c \in Closers : Close(c)
    \/ \E s \in Shutdowns : Enter(s) \/ DropShutdown(s)

Next == Continue \/ Calls

Spec == Init /\ [][Next]_vars

\* Threads run on: polls, destructors, hooks and tasks return, a shutdown that is awaited is
\* polled.  No caller has to poll its work again.
FairSpec == Spec /\ WF_vars(Continue)

(***************************************************************************)
(* Properties.                                                             *)
(***************************************************************************)
TypeOK ==
    /\ closing \in BOOLEAN /\ fired \in BOOLEAN /\ queue \subseteq Works
    /\ \A w \in Works :
         /\ work[w].state \in {"none", "pending", "polling", "cancelled", "completed"}
         /\ work[w].recorded \in Reasons /\ work[w].token \in Reasons
         /\ work[w].polls \in 0..MaxPolls
    /\ lifecycle \in {"running", "closing", "closed"}
    /\ slots \subseteq Plugins /\ \A p \in Plugins : session[p].callbacks \in 0..Cardinality(Notifiers)
    /\ gate \subseteq Shutdowns /\ report \subseteq Tasks \cup Plugins

\* A shutdown that has drained the registry.
Drained(s) ==
    \/ shutdown[s].pc \in {"attachments", "stop", "attaching", "again", "stopped", "drain1", "take",
                            "recovery", "drain2", "finish"}
    \/ shutdown[s].pc = "returned"

\* Once the registry has reported drainage, no user future is being polled or will be, none
\* that suspended is still to be destroyed, and no tracker token is out.
DrainedIsQuiet ==
    (\E s \in Shutdowns : Drained(s)) =>
        /\ closing
        /\ \A w \in Works : /\ work[w].pc \notin {"inline", "poll"}
                             /\ ~work[w].tracked
                             /\ work[w].state # "none" => ~work[w].alive

\* What the caller of a piece of work is told is what its token says: a value only if the
\* token says finished, and the reason of a cancellation is the published one.
OutcomeAgrees ==
    \A w \in Works : work[w].pc = "done" /\ work[w].result \notin {"none", "panic"} =>
        work[w].token = work[w].result

\* A session is torn down at most once, and never while one of its callbacks runs.
StopsAlone ==
    \A p \in Plugins :
        /\ session[p].stops <= 1
        /\ session[p].stops = 1 => \A n \in Notifiers : p \notin notifier[n].leases

\* When the cache is closed every session that ever started has been torn down, and every
\* task has ended, except one whose handle a dropped shutdown was awaiting.
ClosedIsComplete ==
    lifecycle = "closed" =>
        /\ \A p \in Plugins : session[p].state \in {"none", "stopped"} /\ attaching[p] # "starting"
        /\ \A t \in Tasks : task[t].state # "running" \/ t \in forgotten

\* The result that is kept names every failed task and every failed teardown that is still
\* registered; only what a dropped shutdown had already taken is missing.
FailuresReported ==
    lifecycle = "closed" =>
        /\ {t \in Tasks : task[t].failed} \subseteq report \cup forgotten
        /\ {p \in slots : session[p].failed} \subseteq report

\* Close and shutdown at every moment: outcomes, plugin teardown and the final report.
LifecycleInv == TypeOK /\ OutcomeAgrees /\ StopsAlone /\ ClosedIsComplete /\ FailuresReported

\* A shutdown that is awaited returns, and every close does, although nobody polls the
\* suspended work again.
ShutdownReturns ==
    []<>(/\ \A s \in Shutdowns : shutdown[s].pc \in {"idle", "returned"}
         /\ \A c \in Closers : closer[c] \in {"idle", "over"})

=============================================================================
