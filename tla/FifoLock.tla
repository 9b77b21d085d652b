------------------------------- MODULE FifoLock -------------------------------
(***************************************************************************)
(* What a key's mutation lane promises: one holder, waiters in a line,     *)
(* nobody overtakes a waiting claimant, and a holder that leaves passes    *)
(* the lock to the oldest waiter in the same step.                         *)
(***************************************************************************)
EXTENDS Integers, Sequences

CONSTANTS Claimants, NoClaimant

VARIABLES holder, line

vars == <<holder, line>>

Init ==
    /\ holder = NoClaimant
    /\ line = << >>

\* A claim is admitted at once only when nobody holds and nobody waits.
Take(p) ==
    /\ holder = NoClaimant
    /\ line = << >>
    /\ holder' = p
    /\ UNCHANGED line

\* A claim that finds the lock held waits behind everybody else.
Join(p) ==
    /\ holder # NoClaimant
    /\ p # holder
    /\ \A i \in DOMAIN line : line[i] # p
    /\ line' = Append(line, p)
    /\ UNCHANGED holder

\* A cancelled waiter leaves the line and moves nobody past anybody.
Leave(p) ==
    /\ \E i \in DOMAIN line :
        /\ line[i] = p
        /\ line' = SubSeq(line, 1, i - 1) \o SubSeq(line, i + 1, Len(line))
    /\ UNCHANGED holder

\* The holder leaves: the oldest waiter holds, or nobody does.
Pass ==
    /\ holder # NoClaimant
    /\ IF line = << >>
       THEN holder' = NoClaimant /\ UNCHANGED line
       ELSE holder' = Head(line) /\ line' = Tail(line)

Next == Pass \/ \E p \in Claimants : Take(p) \/ Join(p) \/ Leave(p)

Spec == Init /\ [][Next]_vars

===============================================================================
