----------------------------- MODULE MCGetOrSet -----------------------------
(***************************************************************************)
(* Small instances of GetOrSet.                                            *)
(***************************************************************************)
EXTENDS GetOrSet, TLC

CONSTANTS c1, c2

Plain ==
    [memory |-> 1, distributed |-> 1, failSafe |-> FALSE, maximum |-> 2,
     distributedMaximum |-> 2, throttle |-> 1, jitter |-> 0, eager |-> 0,
     soft |-> Never, hard |-> Never, distributedSoft |-> Never, distributedHard |-> Never,
     lock |-> Never, background |-> TRUE, rethrow |-> FALSE, default |-> FALSE,
     allowStale |-> FALSE, executor |-> TRUE]

\* Fail-safe with soft timeouts and no executor: stale values, orphaned factories.
FailSafe ==
    [Plain EXCEPT !.failSafe = TRUE, !.soft = 1, !.distributedSoft = 1, !.allowStale = TRUE,
                  !.executor = FALSE]

\* Bounded waits without fail-safe: unlocked factories, cancelled factories, rethrown faults.
Bounded ==
    [Plain EXCEPT !.hard = 1, !.lock = 1, !.background = FALSE, !.distributedHard = 1,
                  !.rethrow = TRUE]

\* Eager refresh halfway, jitter, and a fail-safe default for factories without time.
Eager ==
    [Plain EXCEPT !.memory = 2, !.eager = 50, !.jitter = 1, !.failSafe = TRUE, !.hard = 0,
                  !.default = TRUE]

MCPolicies == {FailSafe, Bounded, Eager}

=============================================================================
