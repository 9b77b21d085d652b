---------------------------- MODULE RedisBackplane ----------------------------
(***************************************************************************)
(* The supervised Redis subscriber of redis_backend.rs: the push callback  *)
(* of each socket, the bounded push relay, the supervisor that reconnects, *)
(* the health it publishes, publishing and shutdown.                       *)
(*                                                                         *)
(* Sockets are named by their incarnation.  The server, the network and    *)
(* the client library are the environment.  Every step under the liveness  *)
(* lock, and every operation on a channel, is one action.                  *)
(***************************************************************************)
EXTENDS Integers, Sequences, FiniteSets

CONSTANTS
    Messages,        \* messages other nodes publish on the channel
    Publishers,      \* calls of publish on this node
    Shutters,        \* calls of shutdown
    None,
    Capacity,        \* capacity of the push relay
    MaxIncarnation,  \* bound: sockets opened
    MaxFaults        \* bound: sockets that die and frames that do not decode

ASSUME BackplaneAssumption ==
    /\ Capacity \in Nat \ {0} /\ MaxIncarnation \in Nat \ {0} /\ MaxFaults \in Nat
    /\ None \notin Nat /\ None \notin Messages /\ None \notin Shutters

Incarnations == 1..MaxIncarnation

VARIABLES
    incarnation, liveness, state, stop,   \* fields of BackplaneInner
    subscriber,  \* BackplaneInner::subscriber: the incarnation of the stored handle
    worker,      \* whether BackplaneInner::worker still holds the handle
    manager,     \* whether BackplaneInner::manager still holds the connection
    pc,          \* the constructor, then the supervisor it spawns
    epoch,       \* the epoch restore_subscriber returned
    sock,        \* what is left of each socket
    wire,        \* frames the server has sent on each socket
    relay,       \* the push channel
    missed,      \* the push channel has overwritten what its receiver had not read
    seen,        \* messages handed to the subscribers of this backplane
    at,          \* history: the epoch in force when a message was published
    call,        \* publish calls
    shut,        \* shutdown calls
    gate,        \* shutdown_gate
    faults,
    owned,       \* the RedisBackplane has not been dropped
    detached     \* history: a shutdown was dropped while it joined the worker

net == <<sock, wire, at, faults>>
health == <<liveness, state>>
closing == <<worker, manager, shut, gate, owned, detached>>
vars == <<incarnation, liveness, state, stop, subscriber, worker, manager, pc, epoch,
          sock, wire, relay, missed, seen, at, call, shut, gate, faults,
          owned, detached>>

Booting == pc \in {"boot", "boot_ack", "boot_admit"}
Running == ~Booting /\ pc \notin {"failed", "gone"}

-------------------------------------------------------------------------------
(* Health: the watch channel, written under the liveness lock. *)

Disconnected == [state EXCEPT !.kind = "Disconnected"]

\* disconnect: a stopped backplane stays stopped.
Disconnects == state' = IF state.kind = "Stopped" THEN state ELSE Disconnected

\* A mutant: the socket's liveness is not consulted.
AdmitsUnchecked(e) ==
    /\ ~stop
    /\ state.kind # "Stopped"
    /\ state' = [kind |-> "Connected", epoch |-> e]

\* admit_connected: only a socket that is still live, and only before the stop.
Admits(e) ==
    /\ liveness = incarnation
    /\ ~stop
    /\ state.kind # "Stopped"
    /\ state' = [kind |-> "Connected", epoch |-> e]

-------------------------------------------------------------------------------
(* The push relay: a bounded broadcast channel with one receiver. *)

Frame(i, k, m) == [inc |-> i, kind |-> k, msg |-> m]

\* A send to a full channel overwrites the oldest entry.
Send(f) ==
    IF Len(relay) < Capacity
    THEN relay' = Append(relay, f) /\ UNCHANGED missed
    ELSE relay' = Append(Tail(relay), f) /\ missed' = TRUE

-------------------------------------------------------------------------------
(* The server, the network and the sockets' push callbacks. *)

\* Another node publishes: every subscribed socket gets the frame, which this
\* node can or cannot decode.
RemotePublish(m) ==
    /\ at[m] = None
    /\ at' = [at EXCEPT ![m] = IF Booting THEN 0 ELSE state.epoch]
    /\ \E k \in {"Message", "Malformed", "Unknown"} :
         /\ k # "Message" => faults < MaxFaults
         /\ faults' = IF k = "Message" THEN faults ELSE faults + 1
         /\ wire' = [i \in Incarnations |->
                        IF sock[i] = "subscribed" THEN Append(wire[i], Frame(i, k, m))
                        ELSE wire[i]]
    /\ UNCHANGED <<incarnation, health, stop, subscriber, pc, epoch, sock, relay, missed, seen,
                   call, closing>>

\* set_push_sender: a frame that arrived goes to the relay.
PushFrame(i) ==
    /\ wire[i] # << >> /\ sock[i] \in {"open", "subscribed", "closing"}
    /\ Send(Head(wire[i]))
    /\ wire' = [wire EXCEPT ![i] = Tail(@)]
    /\ UNCHANGED <<incarnation, health, stop, subscriber, pc, epoch, sock, seen, at, call,
                   faults, closing>>

\* The connection breaks; frames still on it are lost.
SocketDies(i) ==
    /\ sock[i] \in {"open", "subscribed"}
    /\ faults < MaxFaults /\ faults' = faults + 1
    /\ sock' = [sock EXCEPT ![i] = "dead"]
    /\ wire' = [wire EXCEPT ![i] = << >>]
    /\ UNCHANGED <<incarnation, health, stop, subscriber, pc, epoch, relay, missed, seen, at,
                   call, closing>>

\* A socket whose last handle was dropped: it closes with or without a
\* disconnection push.
SocketCloses(i) ==
    /\ sock[i] = "closing"
    /\ sock' = [sock EXCEPT ![i] = "closed"]
    /\ wire' = [wire EXCEPT ![i] = << >>]
    /\ UNCHANGED <<incarnation, health, stop, subscriber, pc, epoch, relay, missed, seen, at,
                   call, faults, closing>>

\* A mutant: an old socket's disconnection also ends its successor.
PushDisconnectionStale(i) ==
    /\ sock[i] \in {"dead", "closing"}
    /\ sock' = [sock EXCEPT ![i] = "marked"]
    /\ wire' = [wire EXCEPT ![i] = << >>]
    /\ Disconnects
    /\ UNCHANGED <<incarnation, liveness, stop, subscriber, pc, epoch, relay, missed, seen, at,
                   call, faults, closing>>

\* set_push_sender with a disconnection, first under the liveness lock ...
PushDisconnection(i) ==
    /\ sock[i] \in {"dead", "closing"}
    /\ sock' = [sock EXCEPT ![i] = "marked"]
    /\ wire' = [wire EXCEPT ![i] = << >>]
    /\ IF incarnation = i
          THEN liveness' = None /\ Disconnects
          ELSE UNCHANGED health
    /\ UNCHANGED <<incarnation, stop, subscriber, pc, epoch, relay, missed, seen, at, call,
                   faults, closing>>

\* ... then into the relay.
PushMarked(i) ==
    /\ sock[i] = "marked"
    /\ Send(Frame(i, "Disconnection", None))
    /\ sock' = [sock EXCEPT ![i] = "closed"]
    /\ UNCHANGED <<incarnation, health, stop, subscriber, pc, epoch, wire, seen, at, call,
                   faults, closing>>

Socket(i) ==
    \/ PushFrame(i) \/ SocketDies(i) \/ SocketCloses(i) \/ PushDisconnection(i) \/ PushMarked(i)

\* Dropping the last handle of a socket closes it.
Dropped(i) ==
    [j \in Incarnations |->
        IF j = i /\ sock[j] \in {"open", "subscribed"} THEN "closing" ELSE sock[j]]

-------------------------------------------------------------------------------
(* connect_named and the supervisor it spawns. *)

\* open_subscriber marks the incarnation live and connects.
Open(from, to) ==
    /\ pc = from
    /\ liveness' = incarnation
    /\ sock' = [sock EXCEPT ![incarnation] = "open"]
    /\ pc' = to
    /\ UNCHANGED <<incarnation, state, stop, subscriber, epoch, wire, relay, missed, seen, at,
                   call, faults, closing>>

\* The server executes SUBSCRIBE; its acknowledgement is on the way.
Subscribe ==
    /\ sock[incarnation] = "open"
    /\ sock' = [sock EXCEPT ![incarnation] = "subscribed"]
    /\ UNCHANGED <<incarnation, health, stop, subscriber, pc, epoch, wire, relay, missed, seen,
                   at, call, faults, closing>>

\* The acknowledgement arrives.
Ack(from, to) ==
    /\ pc = from
    /\ sock[incarnation] = "subscribed"
    /\ pc' = to
    /\ UNCHANGED <<incarnation, health, stop, subscriber, epoch, net, relay, missed, seen, call,
                   closing>>

\* Connecting fails: the socket is gone, or a request timed out.
OpenFails(from, to) ==
    /\ pc = from
    /\ IF sock[incarnation] \in {"open", "subscribed"}
          THEN faults < MaxFaults /\ faults' = faults + 1
          ELSE UNCHANGED faults
    /\ sock' = Dropped(incarnation)
    /\ pc' = to
    /\ UNCHANGED <<incarnation, health, stop, subscriber, epoch, wire, relay, missed, seen, at,
                   call, closing>>

\* connect_named admits the first socket and spawns the supervisor, or fails
\* and drops everything.
BootAdmit ==
    /\ pc = "boot_admit"
    /\ \/ /\ Admits(1)
          /\ subscriber' = incarnation /\ worker' = TRUE
          /\ pc' = "recv"
          /\ UNCHANGED sock
       \/ /\ liveness # incarnation
          /\ pc' = "failed"
          /\ sock' = Dropped(incarnation)
          /\ UNCHANGED <<state, subscriber, worker>>
    /\ UNCHANGED <<incarnation, liveness, stop, manager, epoch, wire, relay, missed, seen, at,
                   call, shut, gate, faults, owned, detached>>

\* The supervisor leaves at its next await once stop was sent or it was aborted.
\* (Between its look at stop and what it selects instead nothing is read that a
\* stop writes: the two are one step, the actions with ~stop below.)
Stops ==
    /\ pc \in {"recv", "restore", "connect", "sleep"}
    /\ stop
    /\ pc' = "gone"
    /\ sock' = IF pc = "connect" THEN Dropped(incarnation) ELSE sock
    /\ UNCHANGED <<incarnation, health, stop, subscriber, epoch, wire, relay, missed, seen, at,
                   call, faults, closing>>

\* What a push of the current socket asks for; pushes of older sockets are ignored.
Reconciles(f) ==
    /\ f.inc = incarnation
    /\ f.kind \in {"Disconnection", "Malformed", "Unknown"}

\* A mutant: an overflow is only counted.
RecvIgnoresLag ==
    /\ pc = "recv" /\ ~stop
    /\ relay # << >> \/ missed
    /\ IF missed
          THEN missed' = FALSE /\ UNCHANGED <<relay, seen, pc>>
          ELSE LET f == Head(relay) IN
               /\ relay' = Tail(relay)
               /\ seen' = IF f.inc = incarnation /\ f.kind = "Message"
                          THEN seen \cup {f.msg} ELSE seen
               /\ pc' = IF Reconciles(f) THEN "reconnect" ELSE "recv"
               /\ UNCHANGED missed
    /\ UNCHANGED <<incarnation, health, stop, subscriber, epoch, net, call, closing>>

\* recv: an overflow, a disconnection or a frame that cannot certify continuity
\* starts a reconnect; a message goes to the subscribers.
Recv ==
    /\ pc = "recv" /\ ~stop
    /\ relay # << >> \/ missed
    /\ IF missed
          THEN missed' = FALSE /\ pc' = "reconnect" /\ UNCHANGED <<relay, seen>>
          ELSE LET f == Head(relay) IN
               /\ relay' = Tail(relay)
               /\ seen' = IF f.inc = incarnation /\ f.kind = "Message"
                          THEN seen \cup {f.msg} ELSE seen
               /\ pc' = IF Reconciles(f) THEN "reconnect" ELSE "recv"
               /\ UNCHANGED missed
    /\ UNCHANGED <<incarnation, health, stop, subscriber, epoch, net, call, closing>>

\* The gap is published, then the old handle is dropped.
Reconnect ==
    /\ pc = "reconnect"
    /\ Disconnects
    /\ pc' = "drop"
    /\ UNCHANGED <<incarnation, liveness, stop, subscriber, epoch, net, relay, missed, seen,
                   call, closing>>

TakeSubscriber(from, to) ==
    /\ pc = from
    /\ sock' = IF subscriber = None THEN sock ELSE Dropped(subscriber)
    /\ subscriber' = None
    /\ pc' = to
    /\ UNCHANGED <<incarnation, health, stop, epoch, wire, relay, missed, seen, at, call,
                   faults, closing>>

\* restore_subscriber: a new incarnation for the new socket.
Restore ==
    /\ pc = "restore" /\ ~stop
    /\ incarnation < MaxIncarnation
    /\ incarnation' = incarnation + 1
    /\ pc' = "open"
    /\ UNCHANGED <<health, stop, subscriber, epoch, net, relay, missed, seen, call, closing>>

Sleep ==
    /\ pc = "sleep" /\ ~stop
    /\ pc' = "restore"
    /\ UNCHANGED <<incarnation, health, stop, subscriber, epoch, net, relay, missed, seen, call,
                   closing>>

\* A mutant: continuity is resumed in the epoch the gap interrupted.
ReadEpochUnchanged ==
    /\ pc = "acked" /\ state.kind # "Stopped"
    /\ epoch' = state.epoch
    /\ pc' = "store"
    /\ UNCHANGED <<incarnation, health, stop, subscriber, net, relay, missed, seen, call, closing>>

\* After the acknowledgement the next epoch is chosen ...
ReadEpoch ==
    /\ pc = "acked" /\ state.kind # "Stopped"
    /\ epoch' = state.epoch + 1
    /\ pc' = "store"
    /\ UNCHANGED <<incarnation, health, stop, subscriber, net, relay, missed, seen, call, closing>>

\* ... unless the backplane stopped meanwhile: the new socket is dropped ...
ReadStopped ==
    /\ pc = "acked" /\ state.kind = "Stopped"
    /\ pc' = "sleep"
    /\ sock' = Dropped(incarnation)
    /\ UNCHANGED <<incarnation, health, stop, subscriber, epoch, wire, relay, missed, seen, at,
                   call, faults, closing>>

\* ... and the handle is stored, even if the backplane stopped in between.
StoreSubscriber ==
    /\ pc = "store"
    /\ subscriber' = incarnation
    /\ pc' = "drain"
    /\ UNCHANGED <<incarnation, health, stop, epoch, net, relay, missed, seen, call, closing>>

\* What the relay still holds: messages of the new socket are handed on, the
\* rest, an overflow included, is covered by the epoch about to be published.
Drain ==
    /\ pc = "drain"
    /\ IF missed
          THEN missed' = FALSE /\ UNCHANGED <<relay, seen, pc>>
          ELSE IF relay = << >>
          THEN pc' = "admit" /\ UNCHANGED <<relay, seen, missed>>
          ELSE /\ relay' = Tail(relay)
               /\ seen' = IF Head(relay).inc = incarnation /\ Head(relay).kind = "Message"
                          THEN seen \cup {Head(relay).msg} ELSE seen
               /\ UNCHANGED <<pc, missed>>
    /\ UNCHANGED <<incarnation, health, stop, subscriber, epoch, net, call, closing>>

\* admit_connected publishes the epoch, or the socket is given up.
Admit ==
    /\ pc = "admit"
    /\ \/ Admits(epoch) /\ pc' = "recv"
       \/ /\ ~ (liveness = incarnation /\ ~stop /\ state.kind # "Stopped")
          /\ pc' = "regret"
          /\ UNCHANGED state
    /\ UNCHANGED <<incarnation, liveness, stop, subscriber, epoch, net, relay, missed, seen,
                   call, closing>>

Supervisor ==
    \/ Open("boot", "boot_ack") \/ Ack("boot_ack", "boot_admit") \/ OpenFails("boot_ack", "failed")
    \/ BootAdmit \/ Stops \/ Recv \/ Reconnect
    \/ TakeSubscriber("drop", "restore") \/ Restore \/ Open("open", "connect")
    \/ Ack("connect", "acked") \/ OpenFails("connect", "sleep") \/ Sleep
    \/ ReadEpoch \/ ReadStopped \/ StoreSubscriber \/ Drain \/ Admit
    \/ TakeSubscriber("regret", "restore")

-------------------------------------------------------------------------------
(* publish and shutdown. *)

\* publish refuses a stopped backplane before and after it has the read lock,
\* which it keeps while it sends.
PublishChecks(p) ==
    /\ call[p] = "idle" /\ owned /\ (Running \/ pc = "gone")
    /\ call' = [call EXCEPT ![p] = IF stop THEN "refused" ELSE "checked"]
    /\ UNCHANGED <<incarnation, health, stop, subscriber, pc, epoch, net, relay, missed, seen,
                   closing>>

PublishEnters(p) ==
    /\ call[p] = "checked"
    /\ call' = [call EXCEPT ![p] = IF stop \/ ~manager THEN "refused" ELSE "sending"]
    /\ UNCHANGED <<incarnation, health, stop, subscriber, pc, epoch, net, relay, missed, seen,
                   closing>>

PublishReturns(p) ==
    /\ call[p] = "sending"
    /\ call' = [call EXCEPT ![p] = "sent"]
    /\ UNCHANGED <<incarnation, health, stop, subscriber, pc, epoch, net, relay, missed, seen,
                   closing>>

\* stop_backplane, under the liveness lock.
StopBackplane(s) ==
    /\ shut[s] = "idle" /\ owned /\ (Running \/ pc = "gone")
    /\ liveness' = None
    /\ stop' = TRUE
    /\ state' = [state EXCEPT !.kind = "Stopped"]
    /\ shut' = [shut EXCEPT ![s] = "stopped"]
    /\ UNCHANGED <<incarnation, subscriber, worker, manager, pc, epoch, net, relay, missed, seen,
                   call, gate, owned, detached>>

\* Behind the gate: the stored socket is closed and the worker's handle taken.
ShutdownTakes(s) ==
    /\ shut[s] = "stopped" /\ gate = None
    /\ gate' = s
    /\ sock' = IF subscriber = None THEN sock ELSE Dropped(subscriber)
    /\ subscriber' = None
    /\ worker' = FALSE
    /\ shut' = [shut EXCEPT ![s] = IF worker THEN "join" ELSE "joined"]
    /\ UNCHANGED <<incarnation, health, stop, manager, pc, epoch, wire, relay, missed, seen, at,
                   call, faults, owned, detached>>

ShutdownJoins(s) ==
    /\ shut[s] = "join" /\ pc = "gone"
    /\ shut' = [shut EXCEPT ![s] = "joined"]
    /\ UNCHANGED <<incarnation, health, stop, subscriber, worker, manager, pc, epoch, net, relay,
                   missed, seen, call, gate, owned, detached>>

\* The publisher goes once no publish holds the read lock.
ShutdownReturns(s) ==
    /\ shut[s] = "joined"
    /\ \A p \in Publishers : call[p] # "sending"
    /\ manager' = FALSE
    /\ gate' = None
    /\ shut' = [shut EXCEPT ![s] = "done"]
    /\ UNCHANGED <<incarnation, health, stop, subscriber, worker, pc, epoch, net, relay, missed,
                   seen, call, owned, detached>>

\* The future of a shutdown is dropped while it waits.
DropShutdown(s) ==
    /\ shut[s] \in {"stopped", "join", "joined"}
    /\ detached' = (detached \/ shut[s] = "join")
    /\ gate' = IF gate = s THEN None ELSE gate
    /\ shut' = [shut EXCEPT ![s] = "dropped"]
    /\ UNCHANGED <<incarnation, health, stop, subscriber, worker, manager, pc, epoch, net, relay,
                   missed, seen, call, owned>>

\* Drop: no call borrows the backplane any more; abort() acts like the stop.
DropBackplane ==
    /\ owned /\ (Running \/ pc = "gone")
    /\ \A p \in Publishers : call[p] \notin {"checked", "sending"}
    /\ \A s \in Shutters : shut[s] \in {"idle", "done", "dropped"}
    /\ owned' = FALSE
    /\ liveness' = None
    /\ stop' = TRUE
    /\ state' = [state EXCEPT !.kind = "Stopped"]
    /\ sock' = IF subscriber = None THEN sock ELSE Dropped(subscriber)
    /\ subscriber' = None
    /\ worker' = FALSE
    /\ UNCHANGED <<incarnation, manager, pc, epoch, wire, relay, missed, seen, at, call, shut,
                   gate, faults, detached>>

ShutdownGoesOn(s) == ShutdownTakes(s) \/ ShutdownJoins(s) \/ ShutdownReturns(s)
Shutdown(s) == StopBackplane(s) \/ ShutdownGoesOn(s)
PublishGoesOn(p) == PublishEnters(p) \/ PublishReturns(p)
Publish(p) == PublishChecks(p) \/ PublishGoesOn(p)

-------------------------------------------------------------------------------

Init ==
    /\ incarnation = 1 /\ liveness = None
    /\ state = [kind |-> "Disconnected", epoch |-> 1]
    /\ stop = FALSE /\ subscriber = None /\ worker = FALSE /\ manager = TRUE
    /\ pc = "boot" /\ epoch = 1
    /\ sock = [i \in Incarnations |-> "none"]
    /\ wire = [i \in Incarnations |-> << >>]
    /\ relay = << >> /\ missed = FALSE
    /\ seen = {} /\ at = [m \in Messages |-> None]
    /\ call = [p \in Publishers |-> "idle"]
    /\ shut = [s \in Shutters |-> "idle"]
    /\ gate = None /\ faults = 0 /\ owned = TRUE /\ detached = FALSE

Next ==
    \/ \E m \in Messages : RemotePublish(m)
    \/ \E i \in Incarnations : Socket(i)
    \/ Subscribe \/ Supervisor
    \/ \E p \in Publishers : Publish(p)
    \/ \E s \in Shutters : Shutdown(s) \/ DropShutdown(s)
    \/ DropBackplane

Spec == Init /\ [][Next]_vars

\* Tasks the runtime polls, frames that arrive, requests the server answers.
FairSpec ==
    /\ Spec
    /\ WF_vars(Supervisor) /\ WF_vars(Subscribe)
    /\ \A i \in Incarnations :
          WF_vars(PushFrame(i) \/ SocketCloses(i) \/ PushDisconnection(i) \/ PushMarked(i))
    /\ \A p \in Publishers : WF_vars(PublishGoesOn(p))
    /\ \A s \in Shutters : SF_vars(ShutdownGoesOn(s))

-------------------------------------------------------------------------------
(* Properties. *)

Frames ==
    {f \in [inc : Incarnations, kind : {"Message", "Malformed", "Unknown", "Disconnection"},
            msg : Messages \cup {None}] : f.kind # "Disconnection" => f.msg \in Messages}

TypeOK ==
    /\ incarnation \in Incarnations /\ liveness \in Incarnations \cup {None}
    /\ state \in [kind : {"Connected", "Disconnected", "Stopped"}, epoch : 1..MaxIncarnation]
    /\ stop \in BOOLEAN /\ worker \in BOOLEAN /\ manager \in BOOLEAN /\ missed \in BOOLEAN
    /\ owned \in BOOLEAN /\ detached \in BOOLEAN
    /\ subscriber \in Incarnations \cup {None}
    /\ pc \in {"boot", "boot_ack", "boot_admit", "failed", "recv", "reconnect", "drop", "restore",
               "open", "connect", "acked", "store", "drain", "admit", "regret", "sleep", "gone"}
    /\ epoch \in 1..MaxIncarnation
    /\ sock \in [Incarnations -> {"none", "open", "subscribed", "dead", "marked", "closing",
                                "closed"}]
    /\ wire \in [Incarnations -> Seq(Frames)]
    /\ relay \in Seq(Frames) /\ Len(relay) <= Capacity
    /\ seen \subseteq Messages
    /\ at \in [Messages -> 0..MaxIncarnation \cup {None}]
    /\ call \in [Publishers -> {"idle", "checked", "refused", "sending", "sent"}]
    /\ shut \in [Shutters -> {"idle", "stopped", "join", "joined", "done", "dropped"}]
    /\ gate \in Shutters \cup {None}
    /\ faults \in 0..MaxFaults

\* While the backplane says Connected, the socket of the current incarnation has
\* not reported its end: a disconnection seen before, during or after the
\* acknowledgement is never overwritten by it (admit_connected, set_push_sender).
ConnectedIsLive == state.kind = "Connected" => liveness = incarnation

\* No message is lost silently: once the supervisor has caught up, every message
\* published during the epoch in force has been handed on; a lost, overwritten or
\* undecodable one has moved the epoch, which makes caches reconcile
\* (supervise_subscriber, restore_subscriber).
NoSilentLoss ==
    /\ state.kind = "Connected" /\ pc = "recv"
    /\ relay = << >> /\ ~missed
    /\ sock[incarnation] = "subscribed" /\ wire[incarnation] = << >>
    => \A m \in Messages : at[m] = state.epoch => m \in seen

\* Open sockets: what a stopped backplane must not keep.
NothingOpen == \A i \in Incarnations : sock[i] \notin {"open", "subscribed"}

\* A shutdown that returned has left nothing running: no supervisor, no open or
\* stored socket, no publish on its way, and none starts later (shutdown, publish).
ShutdownIsComplete ==
    \A s \in Shutters : shut[s] = "done" =>
        /\ \A p \in Publishers : call[p] # "sending"
        /\ ~detached => pc = "gone" /\ subscriber = None /\ NothingOpen

\* What makes these hold.  Health: Connected is published only by the supervisor that
\* receives, in the epoch after the one the gap interrupted.
HealthInv ==
    /\ stop <=> state.kind = "Stopped"
    /\ pc = "gone" => stop
    /\ Booting \/ pc = "failed" => state = [kind |-> "Disconnected", epoch |-> 1]
    /\ state.kind = "Connected" => pc \in {"recv", "reconnect"} /\ liveness = incarnation
    /\ pc \in {"store", "drain", "admit"} => epoch = state.epoch + 1
    /\ state.epoch <= incarnation
    /\ pc \in {"open", "connect", "acked", "store", "drain", "admit"} => state.epoch < incarnation

\* Sockets: an open one is the stored one or the one being connected, and one whose
\* acknowledgement arrived is not subscribed a second time.
SocketInv ==
    /\ subscriber \in {None, incarnation}
    /\ Booting \/ pc \in {"failed", "restore", "open", "connect", "acked", "store", "sleep"}
        => subscriber = None
    /\ \A i \in Incarnations : sock[i] \in {"open", "subscribed"} =>
        \/ i = subscriber
        \/ i = incarnation /\ pc \in {"boot_ack", "boot_admit", "connect", "acked", "store"}
    /\ pc \in {"boot_admit", "acked", "store", "drain", "admit", "recv", "reconnect"}
        => sock[incarnation] \notin {"none", "open"}

\* Shutdown: one call at a time is behind the gate, the worker's handle is gone only if
\* somebody joins it, has joined it or lost it.
ShutdownInv ==
    /\ Booting \/ pc = "failed" => ~worker /\ owned /\ \A s \in Shutters : shut[s] = "idle"
    /\ \A s \in Shutters : gate = s <=> shut[s] \in {"join", "joined"}
    /\ \A s \in Shutters : shut[s] # "idle" => stop
    /\ ~owned => \A s \in Shutters : shut[s] \in {"idle", "done", "dropped"}
    /\ \A s \in Shutters : shut[s] \in {"join", "joined", "done"} => ~worker
    /\ \A s \in Shutters : shut[s] = "done" => ~manager
    /\ ~manager => \A p \in Publishers : call[p] # "sending"
    /\ \A s \in Shutters : shut[s] \in {"joined", "done"} => detached \/ pc = "gone"
    /\ ~worker /\ owned /\ ~Booting /\ pc # "failed" =>
        detached \/ pc = "gone" \/ \E s \in Shutters : shut[s] = "join"
    /\ ~worker /\ ~Booting /\ pc # "failed" =>
        stop /\ (subscriber = None \/ pc \in {"drain", "admit", "regret"})

\* Delivery: a message of the epoch in force that was not handed on is on its way on the
\* socket or in the relay, unless the socket or the relay has lost something.
DeliveryInv ==
    /\ \A i \in Incarnations : \A k \in DOMAIN wire[i] : wire[i][k].inc = i
    /\ \A m \in Messages : at[m] # None => at[m] <= state.epoch
    /\ Booting => \A m \in Messages : at[m] \in {None, 0}
    /\ state.kind = "Connected" /\ pc = "recv" /\ sock[incarnation] = "subscribed" /\ ~missed
        => \A m \in Messages : at[m] = state.epoch =>
            \/ m \in seen
            \/ \E k \in DOMAIN wire[incarnation] : wire[incarnation][k].msg = m
            \/ \E k \in DOMAIN relay : relay[k].inc = incarnation /\ relay[k].msg = m

\* The inductive invariant.
BackplaneInv == TypeOK /\ HealthInv /\ SocketInv /\ ShutdownInv /\ DeliveryInv

\* The subscriber at every moment: its types, no silent loss, and nothing left running
\* by a shutdown.
SubscriberInv == TypeOK /\ NoSilentLoss /\ ShutdownIsComplete

Health == INSTANCE BackplaneHealth WITH health <- state, fresh <- (Booting \/ pc = "failed")

\* The subscriber's health is that of BackplaneHealth: epochs only grow, one per
\* acknowledgement after a gap, and a stop is final whatever acknowledgement or
\* disconnection comes late (admit_connected, disconnect, stop_backplane).
RefinesHealth == Health!Spec

\* A gap ends: the supervisor reconnects until a socket is acknowledged or the
\* backplane is stopped (supervise_subscriber).
GapEnds ==
    state.kind = "Disconnected" /\ Running /\ incarnation + (MaxFaults - faults) < MaxIncarnation
       ~> state.kind # "Disconnected"

\* Dropping the backplane ends its task and its socket, also when the drop falls
\* between the acknowledgement of a new socket and its storing (Drop).
DropEnds == ~owned ~> pc = "gone" /\ subscriber = None /\ NothingOpen

\* What the supervisor owes an end to: gaps, and itself once its owner is gone.
SupervisorSettles == GapEnds /\ DropEnds

===============================================================================
