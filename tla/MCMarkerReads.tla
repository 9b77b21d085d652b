---------------------------- MODULE MCMarkerReads ----------------------------
(***************************************************************************)
(* Small instances of MarkerReads.                                         *)
(***************************************************************************)
EXTENDS MarkerReads, TLC

CONSTANTS r1, r2

Plain ==
    [memory |-> 1, distributed |-> 2, failSafe |-> FALSE, maximum |-> 2,
     distributedMaximum |-> 2, throttle |-> 1, jitter |-> 0, eager |-> 0,
     soft |-> Never, hard |-> Never, distributedSoft |-> Never, distributedHard |-> Never,
     lock |-> Never, rethrow |-> FALSE, shortcut |-> TRUE, skipRead |-> FALSE,
     skipWrite |-> FALSE, lifecycle |-> "durable", locker |-> "none"]

\* The journal is the only shared state; stale observations survive its faults.
Durable == [Plain EXCEPT !.failSafe = TRUE, !.lock = 1, !.soft = 1]

\* Snapshots written under a fencing lease, refreshed eagerly.
Fenced ==
    [Plain EXCEPT !.lifecycle = "snapshots", !.locker = "fenced", !.memory = 2, !.eager = 50,
                  !.shortcut = FALSE]

\* Snapshots whose locker only advises; no time for the refresh once there is a fallback.
Cooperative ==
    [Plain EXCEPT !.lifecycle = "snapshots", !.locker = "cooperative", !.failSafe = TRUE,
                  !.distributed = 1, !.soft = 0, !.shortcut = FALSE]

\* Snapshots that are written and never read.
WriteOnly == [Plain EXCEPT !.lifecycle = "snapshots", !.distributed = 1, !.skipRead = TRUE, !.rethrow = TRUE,
                  !.shortcut = FALSE]

\* A cache without a journal, and without time for a refresh.
LocalOnly == [Plain EXCEPT !.lifecycle = "local", !.hard = 0, !.shortcut = FALSE]

LocalEager ==
    [Plain EXCEPT !.lifecycle = "local", !.memory = 2, !.eager = 50, !.shortcut = FALSE]

SkipsJournal == [Plain EXCEPT !.skipRead = TRUE, !.rethrow = TRUE]

MCPolicies == {Durable, Fenced, Cooperative, WriteOnly, LocalOnly, LocalEager, SkipsJournal}

=============================================================================
