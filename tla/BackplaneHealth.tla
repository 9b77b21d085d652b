---------------------------- MODULE BackplaneHealth ----------------------------
(***************************************************************************)
(* What a backplane promises about its health (BackplaneState, read by     *)
(* ensure_health of cache/runtime.rs): the first acknowledgement opens the *)
(* initial continuity epoch, every later one a new epoch, a stopped        *)
(* backplane is stopped for good.                                          *)
(***************************************************************************)
EXTENDS Integers

VARIABLES health, fresh    \* fresh: no connection was acknowledged yet

vars == <<health, fresh>>

Init ==
    /\ health = [kind |-> "Disconnected", epoch |-> 1]
    /\ fresh = TRUE

\* Only a gap precedes an acknowledgement, and continuity is never resumed.
Acknowledge ==
    /\ health.kind = "Disconnected"
    /\ health' = [kind |-> "Connected",
                  epoch |-> IF fresh THEN health.epoch ELSE health.epoch + 1]
    /\ fresh' = FALSE

Disconnect ==
    /\ health.kind = "Connected"
    /\ health' = [health EXCEPT !.kind = "Disconnected"]
    /\ UNCHANGED fresh

Stop ==
    /\ health.kind # "Stopped"
    /\ health' = [health EXCEPT !.kind = "Stopped"]
    /\ UNCHANGED fresh

Next == Acknowledge \/ Disconnect \/ Stop

Spec == Init /\ [][Next]_vars

===============================================================================
