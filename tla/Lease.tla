--------------------------------- MODULE Lease ---------------------------------
(***************************************************************************)
(* Token leases of distributed_lock.rs over a lock server (the Redis       *)
(* scripts of redis_backend.rs; MemoryLeaseAuthority executes the same     *)
(* operations): acquisition by a supervised worker, renewal, proofs,       *)
(* fenced writes, release, and the cleanup of abandoned acquisitions.      *)
(*                                                                         *)
(* A caller acquires once and is its own token.  now is the one clock: the *)
(* nodes' and the server's clocks run at the same rate.  Each caller's     *)
(* requests go down one connection in order.                               *)
(***************************************************************************)
EXTENDS Integers, Sequences, FiniteSets

CONSTANTS
    Callers, None,
    Ttl,         \* LeaseTtl
    Waits,       \* acquisition timeouts callers use (0: immediate)
    MaxTime,     \* bound: the clock
    MaxFaults    \* bound: requests lost with their connection

ASSUME LeaseAssumption ==
    /\ Ttl \in Nat \ {0} /\ MaxTime \in Nat /\ MaxFaults \in Nat
    /\ Waits \subseteq Nat
    /\ None \notin Callers \cup {"yes", "no", "error"}

VARIABLES
    now,
    server,      \* the lock entry: token, expiry, and the tokens granted so far
    net,         \* requests on each caller's connection
    call,        \* acquire_owned_supervised and its caller
    worker,      \* the supervised acquisition
    lease,       \* LeaseInner, its renewal task and its cleanup
    log,         \* history: tokens of the writes the server executed
    lost         \* requests lost

vars == <<now, server, net, call, worker, lease, log, lost>>

-------------------------------------------------------------------------------
(* The lock server. *)

Free == server.token = None \/ now >= server.exp
HeldBy(c) == server.token = c /\ now < server.exp

\* SET NX PX, or try_once.
Acquires(c) ==
    IF Free
    THEN [token |-> c, exp |-> now + Ttl, granted |-> Append(server.granted, c)]
    ELSE server

\* RENEW_LOCK_SCRIPT.
Renews(c) == IF HeldBy(c) THEN [server EXCEPT !.exp = now + Ttl] ELSE server

\* RELEASE_LOCK_SCRIPT.
Releases(c) == IF server.token = c THEN [server EXCEPT !.token = None] ELSE server

\* A mutant: the write trusts the proof.
WritesUnfenced(c) == Append(log, c)

\* FENCED_WRITE_SCRIPT, with_memory_ownership.
Writes(c) == IF HeldBy(c) THEN Append(log, c) ELSE log

\* What a request answers.
Answer(c, r) ==
    CASE r = "set" -> IF Free THEN "yes" ELSE "no"
      [] r \in {"renew", "write"} -> IF HeldBy(c) THEN "yes" ELSE "no"
      [] r = "release" -> "yes"

\* The reply goes to whoever of the caller's tasks still waits for it.
Answered(c, r, a) ==
    /\ worker' = IF worker[c].pc = "set" /\ r = "set" THEN [worker EXCEPT ![c].reply = a] ELSE worker
    /\ lease' = IF lease[c].renewal = "asked" /\ r = "renew" THEN [lease EXCEPT ![c].reply = a]
                ELSE lease

\* The server executes the caller's next request.
Serve(c) ==
    /\ net[c] # << >>
    /\ LET r == Head(net[c]) IN
       /\ server' = CASE r = "set" -> Acquires(c)
                      [] r = "renew" -> Renews(c)
                      [] r = "release" -> Releases(c)
                      [] r = "write" -> server
       /\ log' = IF r = "write" THEN Writes(c) ELSE log
       /\ Answered(c, r, Answer(c, r))
    /\ net' = [net EXCEPT ![c] = Tail(@)]
    /\ UNCHANGED <<now, call, lost>>

\* The connection breaks before the request is executed: its sender gets an error.
Lose(c) ==
    /\ net[c] # << >> /\ Cardinality(lost) < MaxFaults
    /\ lost' = lost \cup {c}
    /\ Answered(c, Head(net[c]), "error")
    /\ net' = [net EXCEPT ![c] = Tail(@)]
    /\ UNCHANGED <<now, server, call, log>>

Send(c, rs) == net' = [net EXCEPT ![c] = @ \o rs]

Tick ==
    /\ now < MaxTime
    /\ now' = now + 1
    /\ UNCHANGED <<server, net, call, worker, lease, log, lost>>

-------------------------------------------------------------------------------
(* The supervised acquisition worker (acquire_owned_supervised with          *)
(* acquire_receipt_supervised).                                              *)

Exhausted(c) == now >= worker[c].deadline
Immediate(c) == worker[c].wait = 0
Closed(c) == call[c].pc # "waiting"

\* A worker at pc with the result so far; what else it had is out of scope.
WorkerAt(pc, result) ==
    [pc |-> pc, first |-> TRUE, wait |-> 0, deadline |-> 0, started |-> 0, reply |-> None,
     result |-> result]

\* No lease: AcquireCleanup releases a token that may have been granted.  (Where
\* the worker releases it as well, the second compare-release finds nothing.)
GivesUp(c) ==
    /\ worker' = [worker EXCEPT ![c] = WorkerAt("send", "none")]
    /\ Send(c, <<"release">>)

\* acquire_owned_supervised spawns the worker.
Start(c, w) ==
    /\ call[c].pc = "idle"
    /\ call' = [call EXCEPT ![c].pc = "waiting"]
    /\ worker' = [worker EXCEPT ![c].pc = "try", ![c].wait = w, ![c].deadline = now + w]
    /\ UNCHANGED <<now, server, net, lease, log, lost>>

\* The head of the loop: give up, or send SET NX with its start remembered.
Try(c) ==
    /\ worker[c].pc = "try"
    /\ IF Exhausted(c) /\ ~(worker[c].first /\ Immediate(c))
          THEN GivesUp(c)
          ELSE /\ worker' = [worker EXCEPT ![c].pc = "set", ![c].started = now]
               /\ Send(c, <<"set">>)
    /\ UNCHANGED <<now, server, call, lease, log, lost>>

\* The reply does not arrive within the budget.
SetTimesOut(c) ==
    /\ worker[c].pc = "set" /\ worker[c].reply = None
    /\ GivesUp(c)
    /\ UNCHANGED <<now, server, call, lease, log, lost>>

\* The outcome is uncertain.
SetFails(c) ==
    /\ worker[c].pc = "set" /\ worker[c].reply = "error"
    /\ GivesUp(c)
    /\ UNCHANGED <<now, server, call, lease, log, lost>>

\* Another owner: pause and try again, or give up.
SetRefused(c) ==
    /\ worker[c].pc = "set" /\ worker[c].reply = "no"
    /\ IF Exhausted(c)
          THEN GivesUp(c)
          ELSE /\ worker' = [worker EXCEPT ![c].pc = "try", ![c].reply = None, ![c].first = FALSE,
                                           ![c].started = 0]
               /\ UNCHANGED net
    /\ UNCHANGED <<now, server, call, lease, log, lost>>

\* Granted in time: DistributedLease::new, valid from the start of the request.
SetGranted(c) ==
    /\ worker[c].pc = "set" /\ worker[c].reply = "yes"
    /\ Immediate(c) \/ ~Exhausted(c)
    /\ worker' = [worker EXCEPT ![c] = WorkerAt("send", "lease")]
    /\ lease' = [lease EXCEPT ![c].state = "Held", ![c].until = worker[c].started + Ttl,
                              ![c].renewal = "sleep"]
    /\ UNCHANGED <<now, server, net, call, log, lost>>

\* Granted too late: release and give up.
SetTooLate(c) ==
    /\ worker[c].pc = "set" /\ worker[c].reply = "yes"
    /\ Exhausted(c) /\ ~Immediate(c)
    /\ GivesUp(c)
    /\ UNCHANGED <<now, server, call, lease, log, lost>>

\* sender.closed(): the caller left while the acquisition waits.
Abandon(c) ==
    /\ Closed(c)
    /\ worker[c].pc \in {"try", "set"}
    /\ worker' = [worker EXCEPT ![c] = WorkerAt("done", "none")]
    /\ Send(c, <<"release">>)
    /\ UNCHANGED <<now, server, call, lease, log, lost>>

-------------------------------------------------------------------------------
(* The end of a lease: stop_renewal, then LeaseCleanup. *)

\* stop_renewal aborts the renewal task, which ends at its next await.
StopRenewal(c) ==
    [lease EXCEPT ![c].state = "Released", ![c].cleanup = "join", ![c].renewal = "gone",
                  ![c].reply = None, ![c].asked = 0]

\* A mutant: a result nobody takes is dropped with its lease.
SendResultDrops(c) ==
    /\ worker[c].pc = "send"
    /\ worker' = [worker EXCEPT ![c].pc = IF Closed(c) THEN "done" ELSE "sent"]
    /\ UNCHANGED <<now, server, net, call, lease, log, lost>>

\* The result goes to the caller; a lease nobody waits for is released.
SendResult(c) ==
    /\ worker[c].pc = "send"
    /\ worker' = [worker EXCEPT ![c].pc = IF Closed(c) THEN "done" ELSE "sent"]
    /\ lease' = IF Closed(c) /\ worker[c].result = "lease" THEN StopRenewal(c) ELSE lease
    /\ UNCHANGED <<now, server, net, call, log, lost>>

\* The caller takes the result.
Receive(c) ==
    /\ call[c].pc = "waiting" /\ worker[c].pc = "sent"
    /\ call' = [call EXCEPT ![c].pc = IF worker[c].result = "lease" THEN "owner" ELSE "over"]
    /\ worker' = [worker EXCEPT ![c].pc = "done"]
    /\ UNCHANGED <<now, server, net, lease, log, lost>>

\* The caller times out or is cancelled; a lease already in the channel is
\* dropped with it (Drop of DistributedLease).
Leave(c) ==
    /\ call[c].pc = "waiting"
    /\ call' = [call EXCEPT ![c].pc = "over"]
    /\ worker' = IF worker[c].pc = "sent" THEN [worker EXCEPT ![c].pc = "done"] ELSE worker
    /\ lease' = IF worker[c].pc = "sent" /\ worker[c].result = "lease" THEN StopRenewal(c)
                ELSE lease
    /\ UNCHANGED <<now, server, net, log, lost>>

\* release, or the drop of the handle (a dropped release goes on supervised).
EndLease(c) ==
    /\ call[c].pc = "owner"
    /\ call' = [call EXCEPT ![c].pc = "over"]
    /\ lease' = StopRenewal(c)
    /\ UNCHANGED <<now, server, net, worker, log, lost>>

\* LeaseCleanup::run: once the renewal task ended, release the token.  Nothing
\* depends on the reply bounded_release waits for.
Cleanup(c) ==
    /\ lease[c].cleanup = "join" /\ lease[c].renewal = "gone"
    /\ lease' = [lease EXCEPT ![c].cleanup = "done"]
    /\ Send(c, <<"release">>)
    /\ UNCHANGED <<now, server, call, worker, log, lost>>

-------------------------------------------------------------------------------
(* The lease in use. *)

LocallyValid(c) == now < lease[c].until

\* The renewal task gives up: Lost, for good.
Loses(c) == lease' = [lease EXCEPT ![c].state = "Lost", ![c].renewal = "gone", ![c].reply = None,
                                      ![c].asked = 0]

RenewalWakes(c) ==
    /\ lease[c].renewal = "sleep"
    /\ IF lease[c].state # "Held"
          THEN lease' = [lease EXCEPT ![c].renewal = "gone"] /\ UNCHANGED net
          ELSE IF ~LocallyValid(c)
          THEN Loses(c) /\ UNCHANGED net
          ELSE /\ lease' = [lease EXCEPT ![c].renewal = "asked", ![c].asked = now]
               /\ Send(c, <<"renew">>)
    /\ UNCHANGED <<now, server, call, worker, log, lost>>

\* A mutant: a renewal revives a lost lease.
RenewedRevives(c) ==
    /\ lease[c].renewal = "asked" /\ lease[c].reply = "yes"
    /\ lease' = [lease EXCEPT ![c].state = "Held", ![c].until = lease[c].asked + Ttl,
                              ![c].renewal = "sleep", ![c].reply = None]
    /\ UNCHANGED <<now, server, net, call, worker, log, lost>>

\* Renewed: the deadline moves, unless the lease ended or lapsed meanwhile.
Renewed(c) ==
    /\ lease[c].renewal = "asked" /\ lease[c].reply = "yes"
    /\ IF lease[c].state = "Held" /\ LocallyValid(c)
          THEN lease' = [lease EXCEPT ![c].until = lease[c].asked + Ttl,
                                      ![c].renewal = "sleep", ![c].reply = None, ![c].asked = 0]
          ELSE Loses(c)
    /\ UNCHANGED <<now, server, net, call, worker, log, lost>>

\* Refused, failed or timed out.
RenewalFails(c) ==
    /\ lease[c].renewal = "asked" /\ lease[c].reply # "yes"
    /\ Loses(c)
    /\ UNCHANGED <<now, server, net, call, worker, log, lost>>

\* proof, then write_with_lease with it; the request may take its time.
Write(c) ==
    /\ call[c].pc = "owner" /\ ~call[c].wrote
    /\ lease[c].state = "Held" /\ LocallyValid(c)
    /\ Send(c, <<"write">>)
    /\ call' = [call EXCEPT ![c].wrote = TRUE]
    /\ UNCHANGED <<now, server, worker, lease, log, lost>>

\* proof finds the deadline passed.
ProofFails(c) ==
    /\ call[c].pc = "owner"
    /\ lease[c].state = "Held" /\ ~LocallyValid(c)
    /\ lease' = [lease EXCEPT ![c].state = "Lost"]
    /\ UNCHANGED <<now, server, net, call, worker, log, lost>>

-------------------------------------------------------------------------------

Init ==
    /\ now = 0
    /\ server = [token |-> None, exp |-> 0, granted |-> << >>]
    /\ net = [c \in Callers |-> << >>]
    /\ call = [c \in Callers |-> [pc |-> "idle", wrote |-> FALSE]]
    /\ worker = [c \in Callers |-> WorkerAt("idle", "none")]
    /\ lease = [c \in Callers |-> [state |-> "None", until |-> 0, renewal |-> "gone", asked |-> 0,
                                   reply |-> None, cleanup |-> "none"]]
    /\ log = << >> /\ lost = {}

Worker(c) ==
    \/ Try(c) \/ SetTimesOut(c) \/ SetFails(c) \/ SetRefused(c) \/ SetGranted(c)
    \/ SetTooLate(c) \/ Abandon(c) \/ SendResult(c)
Holder(c) ==
    \/ RenewalWakes(c) \/ Renewed(c) \/ RenewalFails(c) \/ Cleanup(c)
Caller(c) ==
    \/ \E w \in Waits : Start(c, w)
    \/ Receive(c) \/ Leave(c) \/ EndLease(c) \/ Write(c) \/ ProofFails(c)

Next ==
    \/ Tick
    \/ \E c \in Callers : Serve(c) \/ Lose(c) \/ Worker(c) \/ Holder(c) \/ Caller(c)

Spec == Init /\ [][Next]_vars

\* Supervised tasks are polled to their end and the server serves its connections.
FairSpec ==
    /\ Spec
    /\ \A c \in Callers : WF_vars(Serve(c)) /\ WF_vars(Worker(c)) /\ WF_vars(Cleanup(c))
                          /\ WF_vars(Abandon(c))

-------------------------------------------------------------------------------
(* Properties. *)

Requests == {"set", "renew", "release", "write"}
Replies == {"yes", "no", "error", None}

CallStates == [pc : {"idle", "waiting", "owner", "over"}, wrote : BOOLEAN]
WorkerStates ==
    [pc : {"idle", "try", "set", "send", "sent", "done"}, first : BOOLEAN, wait : Nat,
     deadline : Nat, started : Nat, reply : Replies, result : {"none", "lease"}]
LeaseStates ==
    [state : {"None", "Held", "Lost", "Released"}, until : Nat,
     renewal : {"sleep", "asked", "gone"}, asked : Nat, reply : Replies,
     cleanup : {"none", "join", "done"}]

TypeOK ==
    /\ now \in Nat /\ log \in Seq(Callers)
    /\ server \in [token : Callers \cup {None}, exp : Nat, granted : Seq(Callers)]
    /\ net \in [Callers -> Seq(Requests)]
    /\ call \in [Callers -> CallStates]
    /\ worker \in [Callers -> WorkerStates]
    /\ lease \in [Callers -> LeaseStates]

\* A lease that still passes the local check of proof() is held at the server:
\* the deadline counted from the start of the request is never later than the
\* server's, through delays, renewals and failed renewals.
ValidIsHeld == \A c \in Callers : lease[c].state = "Held" /\ LocallyValid(c) => HeldBy(c)

\* Writes l follow grants G: a later write has a grant after all grants of an earlier one.
FollowGrants(l, G) ==
    \A i, j \in 1..Len(l) : i < j =>
        \E g, h \in 1..Len(G) :
            /\ G[g] = l[i] /\ G[h] = l[j]
            /\ g <= h
            /\ \A k \in 1..Len(G) : G[k] = l[i] => k <= h

\* Fenced writes reach the value in the order in which the lease was granted,
\* however late a request of an earlier owner arrives (write_with_lease).
WritesFollowGrants == FollowGrants(log, server.granted)

-------------------------------------------------------------------------------
(* The inductive invariant behind LeaseInv, in named parts. *)

Pending(c, r) == \E i \in DOMAIN net[c] : net[c][i] = r
AsksOnce(c) == \A i, j \in DOMAIN net[c] : net[c][i] = "set" /\ net[c][j] = "set" => i = j
Granted(c) == \E k \in DOMAIN server.granted : server.granted[k] = c

\* Until d the server holds the lock for c.
Covers(c, d) == now < d => server.token = c /\ d <= server.exp

\* Before a worker has its answer there is no lease, no cleanup and no release; it asks
\* once at a time, and a token that was granted is not asked for again.
AskInv(c) ==
    /\ call[c].pc = "idle" => worker[c].pc = "idle"
    /\ worker[c].pc \in {"idle", "try", "set"} =>
          worker[c].result = "none" /\ ~Pending(c, "release")
    /\ worker[c].result = "none" =>
          lease[c].state = "None" /\ lease[c].renewal = "gone" /\ lease[c].cleanup = "none"
    /\ worker[c].pc \in {"idle", "try"} => ~Pending(c, "set") /\ worker[c].reply = None
    /\ worker[c].pc = "set" => worker[c].started <= now
    /\ worker[c].pc = "set" /\ worker[c].reply # None => ~Pending(c, "set")
    /\ worker[c].result = "lease" => ~Pending(c, "set")
    /\ AsksOnce(c)
    /\ Granted(c) =>
          /\ ~Pending(c, "set") /\ worker[c].pc \notin {"idle", "try"}
          /\ worker[c].pc = "set" => worker[c].reply = "yes"

\* A lease that was not given up has no release on its way, and the cleanup of a lease
\* is begun once.
ReleaseInv(c) ==
    /\ call[c].pc = "owner" => worker[c].result = "lease" /\ worker[c].pc = "done"
    /\ worker[c].pc \in {"send", "sent"} \/ call[c].pc = "owner" => lease[c].cleanup = "none"
    /\ worker[c].result = "lease" /\ lease[c].cleanup # "done" => ~Pending(c, "release")
    /\ lease[c].state = "Held" => lease[c].cleanup = "none"
    /\ lease[c].renewal = "asked" => lease[c].cleanup = "none" /\ lease[c].asked <= now
    /\ lease[c].renewal # "asked" => lease[c].reply = None

\* Every answer that confirms ownership, and every lease made of one, is covered.
CoverInv(c) ==
    /\ worker[c].pc = "set" /\ worker[c].reply = "yes" => Covers(c, worker[c].started + Ttl)
    /\ lease[c].state = "Held" => Covers(c, lease[c].until)
    /\ lease[c].renewal = "asked" /\ lease[c].reply = "yes" => Covers(c, lease[c].asked + Ttl)

\* The token at the server is the one granted last, and only granted tokens write.
GrantInv ==
    /\ server.token # None =>
          server.granted # << >> /\ server.granted[Len(server.granted)] = server.token
    /\ server.exp <= now + Ttl
    /\ \A i \in DOMAIN log : Granted(log[i])

OwnershipInv ==
    /\ TypeOK /\ GrantInv /\ WritesFollowGrants
    /\ \A c \in Callers : AskInv(c) /\ ReleaseInv(c) /\ CoverInv(c)

\* Ownership and what is done under it, at every moment.
LeaseInv == TypeOK /\ ValidIsHeld /\ WritesFollowGrants

\* "A lost lease cannot silently become valid again" (LeaseState).
LostStaysLost ==
    [][\A c \in Callers : lease[c].state \in {"Lost", "Released"} => lease'[c].state # "Held"]_vars

\* Ownership nobody has a handle to is given back, without waiting for its TTL,
\* wherever the caller gave up: before the request, during it, with the reply in
\* the channel, or after (AcquireCleanup, LeaseCleanup, acquire_owned_supervised).
AbandonedIsFreed ==
    \A c \in Callers : call[c].pc = "over" ~> (~HeldBy(c) \/ c \in lost)

===============================================================================
