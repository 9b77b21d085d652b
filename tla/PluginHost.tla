----------------------------- MODULE PluginHost ------------------------------
(***************************************************************************)
(* One cache's plugin attachments.  A session is attached outside the      *)
(* registration lock, receives events through callback leases, and is      *)
(* stopped once: at once when no callback runs, otherwise by whoever       *)
(* finishes the last callback.  The host closes its attachments before it  *)
(* takes the registration lock, so an attachment under way finds out.      *)
(***************************************************************************)
EXTENDS Naturals, FiniteSets

CONSTANTS
    Plugins,     \* attachments; each is also the thread that attaches it
    Notifiers    \* threads that deliver one event each

VARIABLES
    attachmentsClosed,   \* the closing flag of the attachments' own scopes
    host,                \* "running" or "stopped"
    slots,               \* the registered slots
    session,
    attaching, notifier

plugins == <<attachmentsClosed, host, slots, session, attaching, notifier>>

NoSession == [state |-> "none", callbacks |-> 0, stops |-> 0, failed |-> FALSE]

Quiet == [pc |-> "idle", snapshot |-> {}, leases |-> {}, finishing |-> {}]

\* Only the plugins and notifiers in present ever show up.
PluginsInit(present) ==
    /\ attachmentsClosed = FALSE /\ host = "running" /\ slots = {}
    /\ session = [p \in Plugins |-> NoSession]
    /\ attaching = [p \in Plugins |-> IF p \in present THEN "none" ELSE "rejected"]
    /\ notifier = [n \in Notifiers |-> [Quiet EXCEPT !.pc = IF n \in present THEN "idle" ELSE "done"]]

\* Attachments and event deliveries under way, as the attachments' scopes count them.
AttachmentsIdle ==
    /\ \A p \in Plugins : attaching[p] \in {"none", "attached", "rejected"}
    /\ \A n \in Notifiers : notifier[n].pc \in {"idle", "done"}

(***************************************************************************)
(* Stopping a session.                                                     *)
(***************************************************************************)

\* request_stop.
StopRequested(r) ==
    CASE r.state = "running" /\ r.callbacks = 0 -> [r EXCEPT !.state = "stopping", !.stops = @ + 1]
      [] r.state = "running" /\ r.callbacks > 0 -> [r EXCEPT !.state = "draining"]
      [] OTHER -> r

\* finish_callback: the last one out of a draining session tears it down.
CallbackFinished(r) ==
    IF r.state = "draining" /\ r.callbacks = 1
    THEN [r EXCEPT !.state = "stopping", !.callbacks = 0, !.stops = @ + 1]
    ELSE [r EXCEPT !.callbacks = @ - 1]

\* finish_stop: the hook returns, fails or panics; the session is destroyed either way.
StopHook(p, fails) ==
    /\ session[p].state = "stopping"
    /\ session' = [session EXCEPT ![p].state = "stopped", ![p].failed = fails]
    /\ UNCHANGED <<attachmentsClosed, host, slots, attaching, notifier>>

(***************************************************************************)
(* Attachment.                                                             *)
(***************************************************************************)
Pruned == {p \in slots : session[p].state # "stopped"}

\* attach: admission, pruning, and the check of the host before any user code.
Attach(p) ==
    /\ attaching[p] = "none"
    /\ attaching' = [attaching EXCEPT ![p] =
          IF attachmentsClosed \/ host = "stopped" THEN "rejected" ELSE "starting"]
    /\ slots' = IF ~attachmentsClosed /\ host = "running" THEN Pruned ELSE slots
    /\ UNCHANGED <<attachmentsClosed, host, session, notifier>>

StartFails(p) ==
    /\ attaching[p] = "starting"
    /\ attaching' = [attaching EXCEPT ![p] = "rejected"]
    /\ UNCHANGED <<attachmentsClosed, host, slots, session, notifier>>

\* A bug: an attachment that comes late is only turned away.
PushForgetsLate(p) ==
    /\ attaching[p] = "starting"
    /\ slots' = IF host = "running" THEN slots \cup {p} ELSE slots
    /\ session' = [session EXCEPT ![p].state = "running"]
    /\ attaching' = [attaching EXCEPT ![p] = IF host = "running" THEN "pushed" ELSE "rejected"]
    /\ UNCHANGED <<attachmentsClosed, host, notifier>>

\* The session exists; a host that has stopped meanwhile keeps the slot for its shutdown,
\* and the attaching thread tears it down.
Push(p) ==
    /\ attaching[p] = "starting"
    /\ slots' = slots \cup {p}
    /\ session' = [session EXCEPT ![p] =
          IF host = "running" THEN [@ EXCEPT !.state = "running"]
          ELSE StopRequested([@ EXCEPT !.state = "running"])]
    /\ attaching' = [attaching EXCEPT ![p] = IF host = "running" THEN "pushed" ELSE "refused"]
    /\ UNCHANGED <<attachmentsClosed, host, notifier>>

\* The status check after registration; then the attachment is over.
Settle(p) ==
    /\ attaching[p] = "pushed"
    /\ session' = [session EXCEPT ![p] = IF attachmentsClosed THEN StopRequested(@) ELSE @]
    /\ attaching' = [attaching EXCEPT ![p] = IF attachmentsClosed THEN "refused" ELSE "attached"]
    /\ UNCHANGED <<attachmentsClosed, host, slots, notifier>>

\* The teardown that the attaching thread may be running itself comes first.
Refuse(p) ==
    /\ attaching[p] = "refused" /\ session[p].state # "stopping"
    /\ attaching' = [attaching EXCEPT ![p] = "rejected"]
    /\ UNCHANGED <<attachmentsClosed, host, slots, session, notifier>>

\* The registration guard is stopped or dropped.
Detach(p) ==
    /\ attaching[p] = "attached" /\ session[p].state = "running"
    /\ session' = [session EXCEPT ![p] = StopRequested(@)]
    /\ UNCHANGED <<attachmentsClosed, host, slots, attaching, notifier>>

Prune ==
    /\ host = "running" /\ Pruned # slots
    /\ slots' = Pruned
    /\ UNCHANGED <<attachmentsClosed, host, session, attaching, notifier>>

(***************************************************************************)
(* Events.                                                                 *)
(***************************************************************************)
\* capture: admitted before the slots are read.
Capture(n) ==
    /\ notifier[n].pc = "idle"
    /\ ~attachmentsClosed /\ slots # {}
    /\ notifier' = [notifier EXCEPT ![n].pc = "capture",
                                    ![n].snapshot = IF host = "running" THEN slots ELSE {}]
    /\ UNCHANGED <<attachmentsClosed, host, slots, session, attaching>>

\* callback: a lease, from a running session only.
Lease(n, p) ==
    /\ notifier[n].pc = "capture" /\ p \in notifier[n].snapshot
    /\ notifier' = [notifier EXCEPT ![n].snapshot = @ \ {p},
                                    ![n].leases = IF session[p].state = "running" THEN @ \cup {p} ELSE @]
    /\ session' = [session EXCEPT ![p].callbacks = IF session[p].state = "running" THEN @ + 1 ELSE @]
    /\ UNCHANGED <<attachmentsClosed, host, slots, attaching>>

\* The callback has run, and its lease is dropped.
Finish(n, p) ==
    /\ notifier[n].pc = "capture" /\ notifier[n].snapshot = {} /\ p \in notifier[n].leases
    /\ session' = [session EXCEPT ![p] = CallbackFinished(@)]
    /\ notifier' = [notifier EXCEPT ![n].leases = @ \ {p},
                                    ![n].finishing = IF session'[p].state = "stopping" THEN @ \cup {p} ELSE @]
    /\ UNCHANGED <<attachmentsClosed, host, slots, attaching>>

Delivered(n) ==
    /\ notifier[n].pc = "capture" /\ notifier[n].snapshot = {} /\ notifier[n].leases = {}
    /\ \A p \in notifier[n].finishing : session[p].state = "stopped"
    /\ notifier' = [notifier EXCEPT ![n] = [Quiet EXCEPT !.pc = "done"]]
    /\ UNCHANGED <<attachmentsClosed, host, slots, session, attaching>>

(***************************************************************************)
(* The host's own teardown: first the attachments close, then the slots    *)
(* are taken, then every one of them is asked to stop.                     *)
(***************************************************************************)
CloseAttachments ==
    /\ attachmentsClosed' = TRUE
    /\ UNCHANGED <<host, slots, session, attaching, notifier>>

StopAll ==
    /\ host' = "stopped"
    /\ session' = [p \in Plugins |-> IF p \in slots THEN StopRequested(session[p]) ELSE session[p]]
    /\ UNCHANGED <<attachmentsClosed, slots, attaching, notifier>>

AllStopped == \A p \in slots : session[p].state = "stopped"

PluginsContinue ==
    \/ \E p \in Plugins :
         \/ StartFails(p) \/ Push(p) \/ Settle(p) \/ Refuse(p)
         \/ \E fails \in BOOLEAN : StopHook(p, fails)
    \/ \E n \in Notifiers :
         \/ Delivered(n)
         \/ \E p \in Plugins : Lease(n, p) \/ Finish(n, p)

PluginsCalls ==
    \/ Prune
    \/ \E p \in Plugins : Attach(p) \/ Detach(p)
    \/ \E n \in Notifiers : Capture(n)

=============================================================================
