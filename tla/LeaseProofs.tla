------------------------------ MODULE LeaseProofs ------------------------------
(***************************************************************************)
(* Proofs about the token leases of Lease, for any callers, any TTL, any   *)
(* waits and any bounds.                                                   *)
(***************************************************************************)
EXTENDS Lease, TLAPS

-------------------------------------------------------------------------------
(* Connections. *)

\* A request is sent at the end of its caller's connection.
LEMMA SendFacts ==
    ASSUME TypeOK, NEW c \in Callers, NEW q \in Requests, Send(c, <<q>>)
    PROVE  /\ net' \in [Callers -> Seq(Requests)]
           /\ \A d \in Callers \ {c} : net'[d] = net[d]
           /\ \A r : Pending(c, r)' <=> Pending(c, r) \/ r = q
           /\ AsksOnce(c) /\ (q = "set" => ~Pending(c, "set")) => AsksOnce(c)'
  <1> DEFINE s == net[c]
  <1>1. s \in Seq(Requests) /\ Len(s) \in Nat /\ DOMAIN s = 1 .. Len(s)
    BY SMTT(30) DEF TypeOK
  <1>2. s \o <<q>> \in Seq(Requests)
    BY <1>1, SMTT(30)
  <1>3. net' = [net EXCEPT ![c] = s \o <<q>>]
    BY Zenon DEF Send
  <1>4. /\ net' \in [Callers -> Seq(Requests)] /\ net'[c] = s \o <<q>>
        /\ \A d \in Callers \ {c} : net'[d] = net[d]
    BY <1>2, <1>3, Zenon DEF TypeOK
  <1>5. /\ DOMAIN net'[c] = 1 .. Len(s) + 1
        /\ \A i \in 1 .. Len(s) : net'[c][i] = s[i]
        /\ net'[c][Len(s) + 1] = q
    BY <1>1, <1>4, SMTT(30)
  <1>6. \A r : Pending(c, r)' <=> Pending(c, r) \/ r = q
    <2>1. ASSUME NEW r, Pending(c, r)' PROVE Pending(c, r) \/ r = q
      BY <1>1, <1>5, <2>1, SMTT(30) DEF Pending
    <2>2. ASSUME NEW r, Pending(c, r) PROVE Pending(c, r)'
      BY <1>1, <1>5, <2>2, SMTT(30) DEF Pending
    <2>3. Pending(c, q)'
      BY <1>1, <1>5, SMTT(30) DEF Pending
    <2> QED
      BY <2>1, <2>2, <2>3, Zenon
  <1>7. AsksOnce(c) /\ (q = "set" => ~Pending(c, "set")) => AsksOnce(c)'
    BY <1>1, <1>5, SMTT(30) DEF Pending, AsksOnce
  <1> QED
    BY <1>4, <1>6, <1>7, Zenon

\* A request is taken from the head of its caller's connection.
LEMMA TakeFacts ==
    ASSUME TypeOK, NEW c \in Callers, net[c] # << >>, net' = [net EXCEPT ![c] = Tail(@)]
    PROVE  /\ net' \in [Callers -> Seq(Requests)]
           /\ \A d \in Callers \ {c} : net'[d] = net[d]
           /\ Head(net[c]) \in Requests /\ Pending(c, Head(net[c]))
           /\ \A r : Pending(c, r)' => Pending(c, r)
           /\ AsksOnce(c) => AsksOnce(c)'
           /\ AsksOnce(c) /\ Head(net[c]) = "set" => ~Pending(c, "set")'
  <1> DEFINE s == net[c]
  <1>1. /\ s \in Seq(Requests) /\ Len(s) \in Nat \ {0} /\ DOMAIN s = 1 .. Len(s)
        /\ Head(s) = s[1] /\ Head(s) \in Requests
    BY SMTT(30) DEF TypeOK
  <1>2. Tail(s) \in Seq(Requests)
    BY <1>1, SMTT(30)
  <1>3. /\ net' \in [Callers -> Seq(Requests)] /\ net'[c] = Tail(s)
        /\ \A d \in Callers \ {c} : net'[d] = net[d]
    BY <1>2, Zenon DEF TypeOK
  <1>4. DOMAIN net'[c] = 1 .. Len(s) - 1 /\ \A i \in 1 .. Len(s) - 1 : net'[c][i] = s[i + 1]
    BY <1>1, <1>3, SMTT(30)
  <1>5. Pending(c, Head(s))
    BY <1>1, SMTT(30) DEF Pending
  <1>6. ASSUME NEW r, Pending(c, r)' PROVE Pending(c, r)
    <2>1. PICK i \in 1 .. Len(s) - 1 : s[i + 1] = r
      BY <1>4, <1>6, Zenon DEF Pending
    <2>2. i + 1 \in DOMAIN s
      BY <1>1, SMTT(30)
    <2> QED
      BY <2>1, <2>2, Zenon DEF Pending
  <1>7. ASSUME AsksOnce(c) PROVE AsksOnce(c)'
    <2>1. ASSUME NEW i \in DOMAIN net'[c], NEW j \in DOMAIN net'[c],
                 net'[c][i] = "set", net'[c][j] = "set"
          PROVE  i = j
      <3>1. i + 1 \in DOMAIN s /\ j + 1 \in DOMAIN s /\ i \in Nat /\ j \in Nat
        BY <1>1, <1>4, SMTT(30)
      <3>2. s[i + 1] = "set" /\ s[j + 1] = "set"
        BY <1>4, <2>1, Zenon
      <3> QED
        BY <1>7, <3>1, <3>2, SMTT(30) DEF AsksOnce
    <2> QED
      BY <2>1, Zenon DEF AsksOnce
  <1>8. ASSUME AsksOnce(c), Head(s) = "set", Pending(c, "set")' PROVE FALSE
    <2>1. PICK i \in 1 .. Len(s) - 1 : s[i + 1] = "set"
      BY <1>4, <1>8, Zenon DEF Pending
    <2>2. i + 1 \in DOMAIN s /\ 1 \in DOMAIN s /\ i + 1 # 1 /\ s[1] = "set"
      BY <1>1, <1>8, SMTT(30)
    <2> QED
      BY <1>8, <2>1, <2>2, Zenon DEF AsksOnce
  <1> QED
    BY <1>1, <1>3, <1>5, <1>6, <1>7, <1>8, Zenon

\* A connection nothing happens on.
LEMMA SameFacts ==
    ASSUME NEW c \in Callers, net'[c] = net[c]
    PROVE  (\A r : Pending(c, r)' <=> Pending(c, r)) /\ (AsksOnce(c)' <=> AsksOnce(c))
  BY Zenon DEF Pending, AsksOnce

\* What a step of another caller, of the clock or of the server leaves as it was.
LEMMA OtherCaller ==
    ASSUME OwnershipInv, NEW d \in Callers, now' \in Nat, now <= now',
           call'[d] = call[d], worker'[d] = worker[d], lease'[d] = lease[d], net'[d] = net[d],
           Granted(d)' <=> Granted(d), \A t \in Nat : Covers(d, t) => Covers(d, t)'
    PROVE  AskInv(d)' /\ ReleaseInv(d)' /\ CoverInv(d)'
  <1>1. AskInv(d) /\ ReleaseInv(d) /\ CoverInv(d) /\ TypeOK
    BY Zenon DEF OwnershipInv
  <1>2. (\A r : Pending(d, r)' <=> Pending(d, r)) /\ (AsksOnce(d)' <=> AsksOnce(d))
    BY SameFacts, Zenon
  <1>3. /\ worker[d].started \in Nat /\ worker[d].started + Ttl \in Nat
        /\ lease[d].asked \in Nat /\ lease[d].asked + Ttl \in Nat /\ lease[d].until \in Nat
        /\ now \in Nat
    <2>1. worker[d] \in WorkerStates /\ lease[d] \in LeaseStates /\ now \in Nat
      BY <1>1, Zenon DEF TypeOK
    <2>2. worker[d].started \in Nat /\ lease[d].asked \in Nat /\ lease[d].until \in Nat
      BY <2>1, Zenon DEF WorkerStates, LeaseStates
    <2> QED
      BY <2>1, <2>2, LeaseAssumption, SMTT(30)
  <1>4. AskInv(d)'
    BY <1>1, <1>2, <1>3, SMTT(30) DEF AskInv
  <1>5. ReleaseInv(d)'
    BY <1>1, <1>2, <1>3, SMTT(30) DEF ReleaseInv
  <1>6. CoverInv(d)'
    BY <1>1, <1>3, Zenon DEF CoverInv
  <1> QED
    BY <1>4, <1>5, <1>6, Zenon

\* A step of one caller that leaves the server as it was.
LEMMA LocalStep ==
    ASSUME OwnershipInv, NEW c \in Callers, UNCHANGED <<now, server, log>>,
           \A d \in Callers \ {c} : /\ call'[d] = call[d] /\ worker'[d] = worker[d]
                                    /\ lease'[d] = lease[d] /\ net'[d] = net[d],
           TypeOK', AskInv(c)', ReleaseInv(c)', CoverInv(c)'
    PROVE  OwnershipInv'
  <1>1. GrantInv' /\ WritesFollowGrants'
    <2>1. GrantInv'
      BY SMTT(30) DEF OwnershipInv, GrantInv, Granted
    <2>2. WritesFollowGrants'
      BY Zenon DEF OwnershipInv, WritesFollowGrants
    <2> QED
      BY <2>1, <2>2, Zenon
  <1>2. ASSUME NEW d \in Callers \ {c}
        PROVE  AskInv(d)' /\ ReleaseInv(d)' /\ CoverInv(d)'
    <2>1. (Granted(d)' <=> Granted(d)) /\ \A t \in Nat : Covers(d, t) => Covers(d, t)'
      BY Zenon DEF Granted, Covers
    <2>2. now' \in Nat /\ now <= now'
      BY SMTT(30) DEF OwnershipInv, TypeOK
    <2> QED
      BY <2>1, <2>2, OtherCaller, Zenon
  <1> QED
    BY <1>1, <1>2, Zenon DEF OwnershipInv

-------------------------------------------------------------------------------
(* Types of the records the actions change. *)

LEMMA CallUpdates ==
    ASSUME NEW f \in [Callers -> CallStates], NEW c \in Callers
    PROVE  /\ \A v \in {"idle", "waiting", "owner", "over"} :
                [f EXCEPT ![c].pc = v] \in [Callers -> CallStates]
           /\ \A v \in BOOLEAN : [f EXCEPT ![c].wrote = v] \in [Callers -> CallStates]
  BY Zenon DEF CallStates

LEMMA WorkerUpdates ==
    ASSUME NEW f \in [Callers -> WorkerStates], NEW c \in Callers
    PROVE  /\ \A v \in {"idle", "try", "set", "send", "sent", "done"} :
                [f EXCEPT ![c].pc = v] \in [Callers -> WorkerStates]
           /\ \A v \in Nat : /\ [f EXCEPT ![c].wait = v] \in [Callers -> WorkerStates]
                              /\ [f EXCEPT ![c].deadline = v] \in [Callers -> WorkerStates]
                              /\ [f EXCEPT ![c].started = v] \in [Callers -> WorkerStates]
           /\ \A v \in Replies : [f EXCEPT ![c].reply = v] \in [Callers -> WorkerStates]
           /\ \A v \in BOOLEAN : [f EXCEPT ![c].first = v] \in [Callers -> WorkerStates]
  BY SMTT(30) DEF WorkerStates

\* WorkerAt.
LEMMA WorkerAtTypes ==
    \A pc \in {"idle", "try", "set", "send", "sent", "done"}, result \in {"none", "lease"} :
        WorkerAt(pc, result) \in WorkerStates
  BY Zenon DEF WorkerAt, WorkerStates, Replies

LEMMA LeaseUpdates ==
    ASSUME NEW f \in [Callers -> LeaseStates], NEW c \in Callers
    PROVE  /\ \A v \in {"None", "Held", "Lost", "Released"} :
                [f EXCEPT ![c].state = v] \in [Callers -> LeaseStates]
           /\ \A v \in {"sleep", "asked", "gone"} :
                [f EXCEPT ![c].renewal = v] \in [Callers -> LeaseStates]
           /\ \A v \in {"none", "join", "done"} :
                [f EXCEPT ![c].cleanup = v] \in [Callers -> LeaseStates]
           /\ \A v \in Nat : /\ [f EXCEPT ![c].until = v] \in [Callers -> LeaseStates]
                              /\ [f EXCEPT ![c].asked = v] \in [Callers -> LeaseStates]
           /\ \A v \in Replies : [f EXCEPT ![c].reply = v] \in [Callers -> LeaseStates]
  BY SMTT(30) DEF LeaseStates

-------------------------------------------------------------------------------
(* Every action preserves the inductive invariant. *)

\* The acquisition begins; nothing was asked before.
LEMMA StartPreserves ==
    ASSUME OwnershipInv, NEW c \in Callers, NEW w \in Waits, Start(c, w)
    PROVE  OwnershipInv'
  <1> TypeOK /\ AskInv(c) /\ ReleaseInv(c) /\ CoverInv(c)
    BY Zenon DEF OwnershipInv
  <1> USE LeaseAssumption
  <1>0. /\ worker' = [worker EXCEPT ![c].pc = "try", ![c].wait = w, ![c].deadline = now + w]
        /\ w \in Nat /\ now + w \in Nat
    BY SMTT(30) DEF Start, TypeOK
  <1>1. /\ net' = net
        /\ \A r : Pending(c, r)' <=> Pending(c, r)
        /\ AsksOnce(c)'
    <2>1. net' = net
      BY <1>0, Zenon DEF Start
    <2> QED
      BY <2>1, SameFacts, Zenon DEF AskInv
  <1>2. TypeOK'
    <2>1. call' \in [Callers -> CallStates]
      BY <1>0, CallUpdates, Zenon DEF TypeOK, Replies, Start
    <2>2. worker' \in [Callers -> WorkerStates]
      BY <1>0, WorkerUpdates, Zenon DEF TypeOK
    <2>3. UNCHANGED <<now, server, log, lease>>
      BY <1>0, Zenon DEF Start
    <2> QED
      BY <1>1, <2>1, <2>2, <2>3, Zenon DEF TypeOK
  <1>3. /\ UNCHANGED <<now, server, log>>
        /\ \A d \in Callers \ {c} : /\ call'[d] = call[d] /\ worker'[d] = worker[d]
                                    /\ lease'[d] = lease[d] /\ net'[d] = net[d]
    BY <1>0, <1>1, Zenon DEF TypeOK, CallStates, WorkerStates, LeaseStates, Start
  <1>4. Granted(c)' <=> Granted(c)
    BY <1>3, Zenon DEF Granted
  <1>5. AskInv(c)'
    BY <1>0, <1>1, <1>3, <1>4, SMTT(30)
       DEF TypeOK, CallStates, WorkerStates, LeaseStates, AskInv, ReleaseInv, Start
  <1>6. ReleaseInv(c)'
    BY <1>0, <1>1, <1>3, <1>4, SMTT(30)
       DEF TypeOK, CallStates, WorkerStates, LeaseStates, AskInv, ReleaseInv, Start
  <1>7. CoverInv(c)'
    BY <1>0, <1>1, <1>3, <1>4, SMTT(30)
       DEF TypeOK, CallStates, WorkerStates, LeaseStates, AskInv, ReleaseInv, CoverInv, Covers,
           Start
  <1> QED
    BY Zenon, <1>2, <1>3, <1>5, <1>6, <1>7, LocalStep

\* No time is left before the request.
LEMMA TryGivesUpPreserves ==
    ASSUME OwnershipInv, NEW c \in Callers, Try(c), GivesUp(c)
    PROVE  OwnershipInv'
  <1> TypeOK /\ AskInv(c) /\ ReleaseInv(c) /\ CoverInv(c)
    BY Zenon DEF OwnershipInv
  <1> USE LeaseAssumption
  <1>1. /\ net' \in [Callers -> Seq(Requests)] /\ \A d \in Callers \ {c} : net'[d] = net[d]
        /\ \A r : Pending(c, r)' <=> Pending(c, r) \/ r = "release"
        /\ AsksOnce(c)'
    <2>1. Send(c, <<"release">>) /\ "release" \in Requests
      BY Zenon DEF Try, GivesUp, WorkerAt, Requests
    <2> QED
      BY <2>1, SendFacts, Zenon DEF AskInv
  <1>2. TypeOK'
    <2>1. worker' \in [Callers -> WorkerStates]
      BY WorkerAtTypes, Zenon DEF TypeOK, GivesUp
    <2>2. UNCHANGED <<now, server, log, call, lease>>
      BY Zenon DEF Try, GivesUp, WorkerAt
    <2> QED
      BY <1>1, <2>1, <2>2, Zenon DEF TypeOK
  <1>3. /\ UNCHANGED <<now, server, log>>
        /\ \A d \in Callers \ {c} : /\ call'[d] = call[d] /\ worker'[d] = worker[d]
                                    /\ lease'[d] = lease[d] /\ net'[d] = net[d]
    BY <1>1, Zenon DEF TypeOK, CallStates, WorkerStates, LeaseStates, Try, GivesUp, WorkerAt
  <1>4. Granted(c)' <=> Granted(c)
    BY <1>3, Zenon DEF Granted
  <1>5. AskInv(c)'
    BY <1>1, <1>3, <1>4, Zenon
       DEF TypeOK, CallStates, WorkerStates, LeaseStates, AskInv, ReleaseInv, Try, GivesUp,
           WorkerAt
  <1>6. ReleaseInv(c)'
    BY <1>1, <1>3, <1>4, Zenon
       DEF TypeOK, CallStates, WorkerStates, LeaseStates, AskInv, ReleaseInv, Try, GivesUp,
           WorkerAt
  <1>7. CoverInv(c)'
    BY <1>1, <1>3, <1>4, Zenon
       DEF TypeOK, CallStates, WorkerStates, LeaseStates, AskInv, ReleaseInv, CoverInv, Covers,
           Try, GivesUp, WorkerAt
  <1> QED
    BY Zenon, <1>2, <1>3, <1>5, <1>6, <1>7, LocalStep

\* One request, and its start is now.
LEMMA TryAsksPreserves ==
    ASSUME OwnershipInv, NEW c \in Callers, Try(c), ~GivesUp(c)
    PROVE  OwnershipInv'
  <1> TypeOK /\ AskInv(c) /\ ReleaseInv(c) /\ CoverInv(c)
    BY Zenon DEF OwnershipInv
  <1> USE LeaseAssumption
  <1>0. /\ worker' = [worker EXCEPT ![c].pc = "set", ![c].started = now]
        /\ worker[c].pc = "try" /\ Send(c, <<"set">>) /\ now \in Nat
        /\ UNCHANGED <<now, server, call, lease, log>>
    BY Zenon DEF Try, TypeOK
  <1>1. /\ net' \in [Callers -> Seq(Requests)] /\ \A d \in Callers \ {c} : net'[d] = net[d]
        /\ \A r : Pending(c, r)' <=> Pending(c, r) \/ r = "set"
        /\ AsksOnce(c)'
    <2>1. Send(c, <<"set">>) /\ "set" \in Requests
      BY <1>0, Zenon DEF Requests
    <2> QED
      BY <1>0, <2>1, SendFacts, Zenon DEF AskInv
  <1>2. TypeOK'
    <2>1. worker' \in [Callers -> WorkerStates]
      BY <1>0, WorkerUpdates, Zenon DEF TypeOK
    <2>2. UNCHANGED <<now, server, log, call, lease>>
      BY <1>0, Zenon
    <2> QED
      BY <1>1, <2>1, <2>2, Zenon DEF TypeOK
  <1>3. /\ UNCHANGED <<now, server, log>>
        /\ \A d \in Callers \ {c} : /\ call'[d] = call[d] /\ worker'[d] = worker[d]
                                    /\ lease'[d] = lease[d] /\ net'[d] = net[d]
    BY <1>0, <1>1, Zenon DEF TypeOK, CallStates, WorkerStates, LeaseStates
  <1>4. Granted(c)' <=> Granted(c)
    BY <1>3, Zenon DEF Granted
  <1>5. AskInv(c)'
    <2>1. /\ worker'[c].pc = "set" /\ worker'[c].started = now
          /\ worker'[c].result = worker[c].result /\ worker'[c].reply = worker[c].reply
      BY <1>0, ZenonT(30) DEF TypeOK, WorkerStates
    <2>2. /\ ~Granted(c) /\ ~Pending(c, "release") /\ call[c].pc # "idle"
          /\ worker[c].result = "none" /\ worker[c].reply = None
          /\ lease[c].state = "None" /\ lease[c].renewal = "gone" /\ lease[c].cleanup = "none"
      BY <1>0, Zenon DEF AskInv
    <2>3. ~Pending(c, "release")'
      BY <1>1, <2>2, Zenon
    <2> QED
      BY <1>0, <1>1, <1>4, <2>1, <2>2, <2>3, SMTT(30) DEF AskInv
  <1>6. ReleaseInv(c)'
    BY <1>0, <1>1, <1>3, <1>4, Zenon
       DEF TypeOK, CallStates, WorkerStates, LeaseStates, AskInv, ReleaseInv
  <1>7. CoverInv(c)'
    BY <1>0, <1>1, <1>3, <1>4, SMTT(30)
       DEF TypeOK, CallStates, WorkerStates, LeaseStates, AskInv, ReleaseInv, CoverInv, Covers
  <1> QED
    BY Zenon, <1>2, <1>3, <1>5, <1>6, <1>7, LocalStep

\* The request may still be granted; its release follows it.
LEMMA SetTimesOutPreserves ==
    ASSUME OwnershipInv, NEW c \in Callers, SetTimesOut(c)
    PROVE  OwnershipInv'
  <1> TypeOK /\ AskInv(c) /\ ReleaseInv(c) /\ CoverInv(c)
    BY Zenon DEF OwnershipInv
  <1> USE LeaseAssumption
  <1>1. /\ net' \in [Callers -> Seq(Requests)] /\ \A d \in Callers \ {c} : net'[d] = net[d]
        /\ \A r : Pending(c, r)' <=> Pending(c, r) \/ r = "release"
        /\ AsksOnce(c)'
    <2>1. Send(c, <<"release">>) /\ "release" \in Requests
      BY Zenon DEF SetTimesOut, GivesUp, WorkerAt, Requests
    <2> QED
      BY <2>1, SendFacts, Zenon DEF AskInv
  <1>2. TypeOK'
    <2>1. worker' \in [Callers -> WorkerStates]
      BY WorkerAtTypes, Zenon DEF TypeOK, SetTimesOut, GivesUp
    <2>2. UNCHANGED <<now, server, log, call, lease>>
      BY Zenon DEF SetTimesOut, GivesUp, WorkerAt
    <2> QED
      BY <1>1, <2>1, <2>2, Zenon DEF TypeOK
  <1>3. /\ UNCHANGED <<now, server, log>>
        /\ \A d \in Callers \ {c} : /\ call'[d] = call[d] /\ worker'[d] = worker[d]
                                    /\ lease'[d] = lease[d] /\ net'[d] = net[d]
    BY <1>1, Zenon
       DEF TypeOK, CallStates, WorkerStates, LeaseStates, SetTimesOut, GivesUp, WorkerAt
  <1>4. Granted(c)' <=> Granted(c)
    BY <1>3, Zenon DEF Granted
  <1>5. AskInv(c)'
    BY <1>1, <1>3, <1>4, Zenon
       DEF TypeOK, CallStates, WorkerStates, LeaseStates, AskInv, ReleaseInv, SetTimesOut,
           GivesUp, WorkerAt
  <1>6. ReleaseInv(c)'
    BY <1>1, <1>3, <1>4, Zenon
       DEF TypeOK, CallStates, WorkerStates, LeaseStates, AskInv, ReleaseInv, SetTimesOut,
           GivesUp, WorkerAt
  <1>7. CoverInv(c)'
    BY <1>1, <1>3, <1>4, Zenon
       DEF TypeOK, CallStates, WorkerStates, LeaseStates, AskInv, ReleaseInv, CoverInv, Covers,
           SetTimesOut, GivesUp, WorkerAt
  <1> QED
    BY Zenon, <1>2, <1>3, <1>5, <1>6, <1>7, LocalStep

\* The outcome is uncertain and is released.
LEMMA SetFailsPreserves ==
    ASSUME OwnershipInv, NEW c \in Callers, SetFails(c)
    PROVE  OwnershipInv'
  <1> TypeOK /\ AskInv(c) /\ ReleaseInv(c) /\ CoverInv(c)
    BY Zenon DEF OwnershipInv
  <1> USE LeaseAssumption
  <1>1. /\ net' \in [Callers -> Seq(Requests)] /\ \A d \in Callers \ {c} : net'[d] = net[d]
        /\ \A r : Pending(c, r)' <=> Pending(c, r) \/ r = "release"
        /\ AsksOnce(c)'
    <2>1. Send(c, <<"release">>) /\ "release" \in Requests
      BY Zenon DEF SetFails, GivesUp, WorkerAt, Requests
    <2> QED
      BY <2>1, SendFacts, Zenon DEF AskInv
  <1>2. TypeOK'
    <2>1. worker' \in [Callers -> WorkerStates]
      BY WorkerAtTypes, Zenon DEF TypeOK, SetFails, GivesUp
    <2>2. UNCHANGED <<now, server, log, call, lease>>
      BY Zenon DEF SetFails, GivesUp, WorkerAt
    <2> QED
      BY <1>1, <2>1, <2>2, Zenon DEF TypeOK
  <1>3. /\ UNCHANGED <<now, server, log>>
        /\ \A d \in Callers \ {c} : /\ call'[d] = call[d] /\ worker'[d] = worker[d]
                                    /\ lease'[d] = lease[d] /\ net'[d] = net[d]
    BY <1>1, Zenon DEF TypeOK, CallStates, WorkerStates, LeaseStates, SetFails, GivesUp, WorkerAt
  <1>4. Granted(c)' <=> Granted(c)
    BY <1>3, Zenon DEF Granted
  <1>5. AskInv(c)'
    BY <1>1, <1>3, <1>4, Zenon
       DEF TypeOK, CallStates, WorkerStates, LeaseStates, AskInv, ReleaseInv, SetFails, GivesUp,
           WorkerAt
  <1>6. ReleaseInv(c)'
    BY <1>1, <1>3, <1>4, Zenon
       DEF TypeOK, CallStates, WorkerStates, LeaseStates, AskInv, ReleaseInv, SetFails, GivesUp,
           WorkerAt
  <1>7. CoverInv(c)'
    BY <1>1, <1>3, <1>4, Zenon
       DEF TypeOK, CallStates, WorkerStates, LeaseStates, AskInv, ReleaseInv, CoverInv, Covers,
           SetFails, GivesUp, WorkerAt
  <1> QED
    BY Zenon, <1>2, <1>3, <1>5, <1>6, <1>7, LocalStep

\* Refused, and no time is left.
LEMMA SetRefusedGivesUpPreserves ==
    ASSUME OwnershipInv, NEW c \in Callers, SetRefused(c), GivesUp(c)
    PROVE  OwnershipInv'
  <1> TypeOK /\ AskInv(c) /\ ReleaseInv(c) /\ CoverInv(c)
    BY Zenon DEF OwnershipInv
  <1> USE LeaseAssumption
  <1>1. /\ net' \in [Callers -> Seq(Requests)] /\ \A d \in Callers \ {c} : net'[d] = net[d]
        /\ \A r : Pending(c, r)' <=> Pending(c, r) \/ r = "release"
        /\ AsksOnce(c)'
    <2>1. Send(c, <<"release">>) /\ "release" \in Requests
      BY Zenon DEF SetRefused, GivesUp, WorkerAt, Requests
    <2> QED
      BY <2>1, SendFacts, Zenon DEF AskInv
  <1>2. TypeOK'
    <2>1. worker' \in [Callers -> WorkerStates]
      BY WorkerAtTypes, Zenon DEF TypeOK, GivesUp
    <2>2. UNCHANGED <<now, server, log, call, lease>>
      BY Zenon DEF SetRefused, GivesUp, WorkerAt
    <2> QED
      BY <1>1, <2>1, <2>2, Zenon DEF TypeOK
  <1>3. /\ UNCHANGED <<now, server, log>>
        /\ \A d \in Callers \ {c} : /\ call'[d] = call[d] /\ worker'[d] = worker[d]
                                    /\ lease'[d] = lease[d] /\ net'[d] = net[d]
    BY <1>1, Zenon
       DEF TypeOK, CallStates, WorkerStates, LeaseStates, SetRefused, GivesUp, WorkerAt
  <1>4. Granted(c)' <=> Granted(c)
    BY <1>3, Zenon DEF Granted
  <1>5. AskInv(c)'
    BY <1>1, <1>3, <1>4, Zenon
       DEF TypeOK, CallStates, WorkerStates, LeaseStates, AskInv, ReleaseInv, SetRefused,
           GivesUp, WorkerAt
  <1>6. ReleaseInv(c)'
    BY <1>1, <1>3, <1>4, Zenon
       DEF TypeOK, CallStates, WorkerStates, LeaseStates, AskInv, ReleaseInv, SetRefused,
           GivesUp, WorkerAt
  <1>7. CoverInv(c)'
    BY <1>1, <1>3, <1>4, Zenon
       DEF TypeOK, CallStates, WorkerStates, LeaseStates, AskInv, ReleaseInv, CoverInv, Covers,
           SetRefused, GivesUp, WorkerAt
  <1> QED
    BY Zenon, <1>2, <1>3, <1>5, <1>6, <1>7, LocalStep

\* Refused, and nothing of the request is left.
LEMMA SetRefusedAgainPreserves ==
    ASSUME OwnershipInv, NEW c \in Callers, SetRefused(c), ~GivesUp(c)
    PROVE  OwnershipInv'
  <1> TypeOK /\ AskInv(c) /\ ReleaseInv(c) /\ CoverInv(c)
    BY Zenon DEF OwnershipInv
  <1> USE LeaseAssumption
  <1>0. /\ worker' = [worker EXCEPT ![c].pc = "try", ![c].reply = None, ![c].first = FALSE,
                                      ![c].started = 0]
        /\ worker[c].pc = "set" /\ worker[c].reply = "no" /\ None \in Replies
        /\ UNCHANGED <<now, server, net, call, lease, log>>
    BY Zenon DEF SetRefused, Replies
  <1>1. /\ net' = net
        /\ \A r : Pending(c, r)' <=> Pending(c, r)
        /\ AsksOnce(c)'
    <2>1. net' = net
      BY <1>0, Zenon
    <2> QED
      BY <2>1, SameFacts, Zenon DEF AskInv
  <1>2. TypeOK'
    <2>1. worker' \in [Callers -> WorkerStates]
      BY <1>0, WorkerUpdates, Zenon DEF TypeOK
    <2>2. UNCHANGED <<now, server, log, call, lease>>
      BY <1>0, Zenon
    <2> QED
      BY <1>1, <2>1, <2>2, Zenon DEF TypeOK
  <1>3. /\ UNCHANGED <<now, server, log>>
        /\ \A d \in Callers \ {c} : /\ call'[d] = call[d] /\ worker'[d] = worker[d]
                                    /\ lease'[d] = lease[d] /\ net'[d] = net[d]
    BY <1>0, <1>1, Zenon DEF TypeOK, CallStates, WorkerStates, LeaseStates
  <1>4. Granted(c)' <=> Granted(c)
    BY <1>3, Zenon DEF Granted
  <1>5. AskInv(c)'
    BY <1>0, <1>1, <1>3, <1>4, SMTT(30)
       DEF TypeOK, CallStates, WorkerStates, LeaseStates, AskInv, ReleaseInv
  <1>6. ReleaseInv(c)'
    BY <1>0, <1>1, <1>3, <1>4, Zenon
       DEF TypeOK, CallStates, WorkerStates, LeaseStates, AskInv, ReleaseInv
  <1>7. CoverInv(c)'
    BY <1>0, <1>1, <1>3, <1>4, SMTT(30)
       DEF TypeOK, CallStates, WorkerStates, LeaseStates, AskInv, ReleaseInv, CoverInv, Covers
  <1> QED
    BY Zenon, <1>2, <1>3, <1>5, <1>6, <1>7, LocalStep

\* The lease lasts as long as the grant covers it.
LEMMA SetGrantedPreserves ==
    ASSUME OwnershipInv, NEW c \in Callers, SetGranted(c)
    PROVE  OwnershipInv'
  <1> TypeOK /\ AskInv(c) /\ ReleaseInv(c) /\ CoverInv(c)
    BY Zenon DEF OwnershipInv
  <1> USE LeaseAssumption
  <1>0. /\ lease' = [lease EXCEPT ![c].state = "Held", ![c].until = worker[c].started + Ttl,
                                    ![c].renewal = "sleep"]
        /\ worker[c].started + Ttl \in Nat
    BY SMTT(30) DEF SetGranted, TypeOK, WorkerStates
  <1>1. /\ net' = net
        /\ \A r : Pending(c, r)' <=> Pending(c, r)
        /\ AsksOnce(c)'
    <2>1. net' = net
      BY <1>0, Zenon DEF SetGranted, WorkerAt
    <2> QED
      BY <2>1, SameFacts, Zenon DEF AskInv
  <1>2. TypeOK'
    <2>1. worker' \in [Callers -> WorkerStates]
      BY WorkerAtTypes, Zenon DEF TypeOK, SetGranted
    <2>2. lease' \in [Callers -> LeaseStates]
      BY <1>0, LeaseUpdates, Zenon DEF TypeOK
    <2>3. UNCHANGED <<now, server, log, call>>
      BY <1>0, Zenon DEF SetGranted, WorkerAt
    <2> QED
      BY <1>1, <2>1, <2>2, <2>3, Zenon DEF TypeOK
  <1>3. /\ UNCHANGED <<now, server, log>>
        /\ \A d \in Callers \ {c} : /\ call'[d] = call[d] /\ worker'[d] = worker[d]
                                    /\ lease'[d] = lease[d] /\ net'[d] = net[d]
    BY <1>0, <1>1, Zenon DEF TypeOK, CallStates, WorkerStates, LeaseStates, SetGranted, WorkerAt
  <1>4. Granted(c)' <=> Granted(c)
    BY <1>3, Zenon DEF Granted
  <1>5. AskInv(c)'
    BY <1>0, <1>1, <1>3, <1>4, Zenon
       DEF TypeOK, CallStates, WorkerStates, LeaseStates, AskInv, ReleaseInv, SetGranted,
           WorkerAt
  <1>6. ReleaseInv(c)'
    BY <1>0, <1>1, <1>3, <1>4, SMTT(30)
       DEF TypeOK, CallStates, WorkerStates, LeaseStates, AskInv, ReleaseInv, SetGranted,
           WorkerAt
  <1>7. CoverInv(c)'
    BY <1>0, <1>1, <1>3, <1>4, SMTT(30)
       DEF TypeOK, CallStates, WorkerStates, LeaseStates, AskInv, ReleaseInv, CoverInv, Covers,
           SetGranted, WorkerAt
  <1> QED
    BY Zenon, <1>2, <1>3, <1>5, <1>6, <1>7, LocalStep

\* A grant that came too late is released.
LEMMA SetTooLatePreserves ==
    ASSUME OwnershipInv, NEW c \in Callers, SetTooLate(c)
    PROVE  OwnershipInv'
  <1> TypeOK /\ AskInv(c) /\ ReleaseInv(c) /\ CoverInv(c)
    BY Zenon DEF OwnershipInv
  <1> USE LeaseAssumption
  <1>1. /\ net' \in [Callers -> Seq(Requests)] /\ \A d \in Callers \ {c} : net'[d] = net[d]
        /\ \A r : Pending(c, r)' <=> Pending(c, r) \/ r = "release"
        /\ AsksOnce(c)'
    <2>1. Send(c, <<"release">>) /\ "release" \in Requests
      BY Zenon DEF SetTooLate, GivesUp, WorkerAt, Requests
    <2> QED
      BY <2>1, SendFacts, Zenon DEF AskInv
  <1>2. TypeOK'
    <2>1. worker' \in [Callers -> WorkerStates]
      BY WorkerAtTypes, Zenon DEF TypeOK, SetTooLate, GivesUp
    <2>2. UNCHANGED <<now, server, log, call, lease>>
      BY Zenon DEF SetTooLate, GivesUp, WorkerAt
    <2> QED
      BY <1>1, <2>1, <2>2, Zenon DEF TypeOK
  <1>3. /\ UNCHANGED <<now, server, log>>
        /\ \A d \in Callers \ {c} : /\ call'[d] = call[d] /\ worker'[d] = worker[d]
                                    /\ lease'[d] = lease[d] /\ net'[d] = net[d]
    BY <1>1, Zenon
       DEF TypeOK, CallStates, WorkerStates, LeaseStates, SetTooLate, GivesUp, WorkerAt
  <1>4. Granted(c)' <=> Granted(c)
    BY <1>3, Zenon DEF Granted
  <1>5. AskInv(c)'
    BY <1>1, <1>3, <1>4, Zenon
       DEF TypeOK, CallStates, WorkerStates, LeaseStates, AskInv, ReleaseInv, SetTooLate,
           GivesUp, WorkerAt
  <1>6. ReleaseInv(c)'
    BY <1>1, <1>3, <1>4, Zenon
       DEF TypeOK, CallStates, WorkerStates, LeaseStates, AskInv, ReleaseInv, SetTooLate,
           GivesUp, WorkerAt
  <1>7. CoverInv(c)'
    BY <1>1, <1>3, <1>4, Zenon
       DEF TypeOK, CallStates, WorkerStates, LeaseStates, AskInv, ReleaseInv, CoverInv, Covers,
           SetTooLate, GivesUp, WorkerAt
  <1> QED
    BY Zenon, <1>2, <1>3, <1>5, <1>6, <1>7, LocalStep

\* Nobody waits for the acquisition.
LEMMA AbandonPreserves ==
    ASSUME OwnershipInv, NEW c \in Callers, Abandon(c)
    PROVE  OwnershipInv'
  <1> TypeOK /\ AskInv(c) /\ ReleaseInv(c) /\ CoverInv(c)
    BY Zenon DEF OwnershipInv
  <1> USE LeaseAssumption
  <1>1. /\ net' \in [Callers -> Seq(Requests)] /\ \A d \in Callers \ {c} : net'[d] = net[d]
        /\ \A r : Pending(c, r)' <=> Pending(c, r) \/ r = "release"
        /\ AsksOnce(c)'
    <2>1. Send(c, <<"release">>) /\ "release" \in Requests
      BY Zenon DEF Abandon, WorkerAt, Requests
    <2> QED
      BY <2>1, SendFacts, Zenon DEF AskInv
  <1>2. TypeOK'
    <2>1. worker' \in [Callers -> WorkerStates]
      BY WorkerAtTypes, Zenon DEF TypeOK, Abandon
    <2>2. UNCHANGED <<now, server, log, call, lease>>
      BY Zenon DEF Abandon, WorkerAt
    <2> QED
      BY <1>1, <2>1, <2>2, Zenon DEF TypeOK
  <1>3. /\ UNCHANGED <<now, server, log>>
        /\ \A d \in Callers \ {c} : /\ call'[d] = call[d] /\ worker'[d] = worker[d]
                                    /\ lease'[d] = lease[d] /\ net'[d] = net[d]
    BY <1>1, Zenon DEF TypeOK, CallStates, WorkerStates, LeaseStates, Abandon, WorkerAt
  <1>4. Granted(c)' <=> Granted(c)
    BY <1>3, Zenon DEF Granted
  <1>5. AskInv(c)'
    BY <1>1, <1>3, <1>4, Zenon
       DEF TypeOK, CallStates, WorkerStates, LeaseStates, AskInv, ReleaseInv, Abandon, WorkerAt
  <1>6. ReleaseInv(c)'
    BY <1>1, <1>3, <1>4, Zenon
       DEF TypeOK, CallStates, WorkerStates, LeaseStates, AskInv, ReleaseInv, Abandon, WorkerAt
  <1>7. CoverInv(c)'
    BY <1>1, <1>3, <1>4, ZenonT(30)
       DEF TypeOK, CallStates, WorkerStates, LeaseStates, AskInv, ReleaseInv, CoverInv, Covers,
           Abandon, WorkerAt
  <1> QED
    BY Zenon, <1>2, <1>3, <1>5, <1>6, <1>7, LocalStep

\* A lease nobody waits for ends.
LEMMA SendResultPreserves ==
    ASSUME OwnershipInv, NEW c \in Callers, SendResult(c)
    PROVE  OwnershipInv'
  <1> TypeOK /\ AskInv(c) /\ ReleaseInv(c) /\ CoverInv(c)
    BY Zenon DEF OwnershipInv
  <1> USE LeaseAssumption
  <1>1. /\ net' = net
        /\ \A r : Pending(c, r)' <=> Pending(c, r)
        /\ AsksOnce(c)'
    <2>1. net' = net
      BY Zenon DEF SendResult, StopRenewal
    <2> QED
      BY <2>1, SameFacts, Zenon DEF AskInv
  <1>2. TypeOK'
    <2>1. worker' \in [Callers -> WorkerStates]
      BY WorkerUpdates, Zenon DEF TypeOK, Replies, SendResult, StopRenewal
    <2>2. lease' \in [Callers -> LeaseStates]
      BY LeaseUpdates, ZenonT(30) DEF TypeOK, Replies, SendResult, StopRenewal
    <2>3. UNCHANGED <<now, server, log, call>>
      BY Zenon DEF SendResult, StopRenewal
    <2> QED
      BY <1>1, <2>1, <2>2, <2>3, Zenon DEF TypeOK
  <1>3. /\ UNCHANGED <<now, server, log>>
        /\ \A d \in Callers \ {c} : /\ call'[d] = call[d] /\ worker'[d] = worker[d]
                                    /\ lease'[d] = lease[d] /\ net'[d] = net[d]
    BY <1>1, Zenon DEF TypeOK, CallStates, WorkerStates, LeaseStates, SendResult, StopRenewal
  <1>4. Granted(c)' <=> Granted(c)
    BY <1>3, Zenon DEF Granted
  <1>5. AskInv(c)'
    BY <1>1, <1>3, <1>4, SMTT(30)
       DEF TypeOK, CallStates, WorkerStates, LeaseStates, AskInv, ReleaseInv, SendResult,
           StopRenewal
  <1>6. ReleaseInv(c)'
    BY <1>1, <1>3, <1>4, SMTT(30)
       DEF TypeOK, CallStates, WorkerStates, LeaseStates, AskInv, ReleaseInv, SendResult,
           StopRenewal
  <1>7. CoverInv(c)'
    BY <1>1, <1>3, <1>4, SMTT(30)
       DEF TypeOK, CallStates, WorkerStates, LeaseStates, AskInv, ReleaseInv, CoverInv, Covers,
           SendResult, StopRenewal
  <1> QED
    BY Zenon, <1>2, <1>3, <1>5, <1>6, <1>7, LocalStep

\* The caller owns the lease.
LEMMA ReceivePreserves ==
    ASSUME OwnershipInv, NEW c \in Callers, Receive(c)
    PROVE  OwnershipInv'
  <1> TypeOK /\ AskInv(c) /\ ReleaseInv(c) /\ CoverInv(c)
    BY Zenon DEF OwnershipInv
  <1> USE LeaseAssumption
  <1>1. /\ net' = net
        /\ \A r : Pending(c, r)' <=> Pending(c, r)
        /\ AsksOnce(c)'
    <2>1. net' = net
      BY Zenon DEF Receive
    <2> QED
      BY <2>1, SameFacts, Zenon DEF AskInv
  <1>2. TypeOK'
    <2>1. call' \in [Callers -> CallStates]
      BY CallUpdates, Zenon DEF TypeOK, Replies, Receive
    <2>2. worker' \in [Callers -> WorkerStates]
      BY WorkerUpdates, Zenon DEF TypeOK, Replies, Receive
    <2>3. UNCHANGED <<now, server, log, lease>>
      BY Zenon DEF Receive
    <2> QED
      BY <1>1, <2>1, <2>2, <2>3, Zenon DEF TypeOK
  <1>3. /\ UNCHANGED <<now, server, log>>
        /\ \A d \in Callers \ {c} : /\ call'[d] = call[d] /\ worker'[d] = worker[d]
                                    /\ lease'[d] = lease[d] /\ net'[d] = net[d]
    BY <1>1, Zenon DEF TypeOK, CallStates, WorkerStates, LeaseStates, Receive
  <1>4. Granted(c)' <=> Granted(c)
    BY <1>3, Zenon DEF Granted
  <1>5. AskInv(c)'
    BY <1>1, <1>3, <1>4, SMTT(30)
       DEF TypeOK, CallStates, WorkerStates, LeaseStates, AskInv, ReleaseInv, Receive
  <1>6. ReleaseInv(c)'
    BY <1>1, <1>3, <1>4, SMTT(30)
       DEF TypeOK, CallStates, WorkerStates, LeaseStates, AskInv, ReleaseInv, Receive
  <1>7. CoverInv(c)'
    BY <1>1, <1>3, <1>4, SMTT(30)
       DEF TypeOK, CallStates, WorkerStates, LeaseStates, AskInv, ReleaseInv, CoverInv, Covers,
           Receive
  <1> QED
    BY Zenon, <1>2, <1>3, <1>5, <1>6, <1>7, LocalStep

\* A lease in the channel ends with its caller.
LEMMA LeavePreserves ==
    ASSUME OwnershipInv, NEW c \in Callers, Leave(c)
    PROVE  OwnershipInv'
  <1> TypeOK /\ AskInv(c) /\ ReleaseInv(c) /\ CoverInv(c)
    BY Zenon DEF OwnershipInv
  <1> USE LeaseAssumption
  <1>1. /\ net' = net
        /\ \A r : Pending(c, r)' <=> Pending(c, r)
        /\ AsksOnce(c)'
    <2>1. net' = net
      BY Zenon DEF Leave, StopRenewal
    <2> QED
      BY <2>1, SameFacts, Zenon DEF AskInv
  <1>2. TypeOK'
    <2>1. call' \in [Callers -> CallStates]
      BY CallUpdates, Zenon DEF TypeOK, Replies, Leave, StopRenewal
    <2>2. worker' \in [Callers -> WorkerStates]
      BY WorkerUpdates, ZenonT(30) DEF TypeOK, Replies, Leave, StopRenewal
    <2>3. lease' \in [Callers -> LeaseStates]
      BY LeaseUpdates, ZenonT(30) DEF TypeOK, Replies, Leave, StopRenewal
    <2>4. UNCHANGED <<now, server, log>>
      BY Zenon DEF Leave, StopRenewal
    <2> QED
      BY <1>1, <2>1, <2>2, <2>3, <2>4, Zenon DEF TypeOK
  <1>3. /\ UNCHANGED <<now, server, log>>
        /\ \A d \in Callers \ {c} : /\ call'[d] = call[d] /\ worker'[d] = worker[d]
                                    /\ lease'[d] = lease[d] /\ net'[d] = net[d]
    BY <1>1, Zenon DEF TypeOK, CallStates, WorkerStates, LeaseStates, Leave, StopRenewal
  <1>4. Granted(c)' <=> Granted(c)
    BY <1>3, Zenon DEF Granted
  <1>5. AskInv(c)'
    BY <1>1, <1>3, <1>4, SMTT(30)
       DEF TypeOK, CallStates, WorkerStates, LeaseStates, AskInv, ReleaseInv, Leave, StopRenewal
  <1>6. ReleaseInv(c)'
    BY <1>1, <1>3, <1>4, SMTT(30)
       DEF TypeOK, CallStates, WorkerStates, LeaseStates, AskInv, ReleaseInv, Leave, StopRenewal
  <1>7. CoverInv(c)'
    BY <1>1, <1>3, <1>4, SMTT(30)
       DEF TypeOK, CallStates, WorkerStates, LeaseStates, AskInv, ReleaseInv, CoverInv, Covers,
           Leave, StopRenewal
  <1> QED
    BY Zenon, <1>2, <1>3, <1>5, <1>6, <1>7, LocalStep

\* The owner ends its lease.
LEMMA EndLeasePreserves ==
    ASSUME OwnershipInv, NEW c \in Callers, EndLease(c)
    PROVE  OwnershipInv'
  <1> TypeOK /\ AskInv(c) /\ ReleaseInv(c) /\ CoverInv(c)
    BY Zenon DEF OwnershipInv
  <1> USE LeaseAssumption
  <1>1. /\ net' = net
        /\ \A r : Pending(c, r)' <=> Pending(c, r)
        /\ AsksOnce(c)'
    <2>1. net' = net
      BY Zenon DEF EndLease, StopRenewal
    <2> QED
      BY <2>1, SameFacts, Zenon DEF AskInv
  <1>2. TypeOK'
    <2>1. call' \in [Callers -> CallStates]
      BY CallUpdates, Zenon DEF TypeOK, Replies, EndLease, StopRenewal
    <2>2. lease' \in [Callers -> LeaseStates]
      BY LeaseUpdates, ZenonT(30) DEF TypeOK, Replies, EndLease, StopRenewal
    <2>3. UNCHANGED <<now, server, log, worker>>
      BY Zenon DEF EndLease, StopRenewal
    <2> QED
      BY <1>1, <2>1, <2>2, <2>3, Zenon DEF TypeOK
  <1>3. /\ UNCHANGED <<now, server, log>>
        /\ \A d \in Callers \ {c} : /\ call'[d] = call[d] /\ worker'[d] = worker[d]
                                    /\ lease'[d] = lease[d] /\ net'[d] = net[d]
    BY <1>1, Zenon DEF TypeOK, CallStates, WorkerStates, LeaseStates, EndLease, StopRenewal
  <1>4. Granted(c)' <=> Granted(c)
    BY <1>3, Zenon DEF Granted
  <1>5. AskInv(c)'
    BY <1>1, <1>3, <1>4, SMTT(30)
       DEF TypeOK, CallStates, WorkerStates, LeaseStates, AskInv, ReleaseInv, EndLease,
           StopRenewal
  <1>6. ReleaseInv(c)'
    BY <1>1, <1>3, <1>4, SMTT(30)
       DEF TypeOK, CallStates, WorkerStates, LeaseStates, AskInv, ReleaseInv, EndLease,
           StopRenewal
  <1>7. CoverInv(c)'
    BY <1>1, <1>3, <1>4, SMTT(30)
       DEF TypeOK, CallStates, WorkerStates, LeaseStates, AskInv, ReleaseInv, CoverInv, Covers,
           EndLease, StopRenewal
  <1> QED
    BY Zenon, <1>2, <1>3, <1>5, <1>6, <1>7, LocalStep

\* The token is released after its lease ended.
LEMMA CleanupPreserves ==
    ASSUME OwnershipInv, NEW c \in Callers, Cleanup(c)
    PROVE  OwnershipInv'
  <1> TypeOK /\ AskInv(c) /\ ReleaseInv(c) /\ CoverInv(c)
    BY Zenon DEF OwnershipInv
  <1> USE LeaseAssumption
  <1>1. /\ net' \in [Callers -> Seq(Requests)] /\ \A d \in Callers \ {c} : net'[d] = net[d]
        /\ \A r : Pending(c, r)' <=> Pending(c, r) \/ r = "release"
        /\ AsksOnce(c)'
    <2>1. Send(c, <<"release">>) /\ "release" \in Requests
      BY Zenon DEF Cleanup, Requests
    <2> QED
      BY <2>1, SendFacts, Zenon DEF AskInv
  <1>2. TypeOK'
    <2>1. lease' \in [Callers -> LeaseStates]
      BY LeaseUpdates, Zenon DEF TypeOK, Replies, Cleanup
    <2>2. UNCHANGED <<now, server, log, call, worker>>
      BY Zenon DEF Cleanup
    <2> QED
      BY <1>1, <2>1, <2>2, Zenon DEF TypeOK
  <1>3. /\ UNCHANGED <<now, server, log>>
        /\ \A d \in Callers \ {c} : /\ call'[d] = call[d] /\ worker'[d] = worker[d]
                                    /\ lease'[d] = lease[d] /\ net'[d] = net[d]
    BY <1>1, Zenon DEF TypeOK, CallStates, WorkerStates, LeaseStates, Cleanup
  <1>4. Granted(c)' <=> Granted(c)
    BY <1>3, Zenon DEF Granted
  <1>5. AskInv(c)'
    BY <1>1, <1>3, <1>4, Zenon
       DEF TypeOK, CallStates, WorkerStates, LeaseStates, AskInv, ReleaseInv, Cleanup
  <1>6. ReleaseInv(c)'
    BY <1>1, <1>3, <1>4, SMTT(30)
       DEF TypeOK, CallStates, WorkerStates, LeaseStates, AskInv, ReleaseInv, Cleanup
  <1>7. CoverInv(c)'
    BY <1>1, <1>3, <1>4, SMTT(30)
       DEF TypeOK, CallStates, WorkerStates, LeaseStates, AskInv, ReleaseInv, CoverInv, Covers,
           Cleanup
  <1> QED
    BY Zenon, <1>2, <1>3, <1>5, <1>6, <1>7, LocalStep

\* The lease ended while the renewal slept.
LEMMA RenewalEndsPreserves ==
    ASSUME OwnershipInv, NEW c \in Callers, RenewalWakes(c), lease[c].state # "Held"
    PROVE  OwnershipInv'
  <1> TypeOK /\ AskInv(c) /\ ReleaseInv(c) /\ CoverInv(c)
    BY Zenon DEF OwnershipInv
  <1> USE LeaseAssumption
  <1>0. /\ lease' = [lease EXCEPT ![c].renewal = "gone"] /\ lease[c].renewal = "sleep"
        /\ UNCHANGED <<now, server, net, call, worker, log>>
    BY Zenon DEF RenewalWakes
  <1>1. /\ net' = net
        /\ \A r : Pending(c, r)' <=> Pending(c, r)
        /\ AsksOnce(c)'
    <2>1. net' = net
      BY <1>0, Zenon
    <2> QED
      BY <2>1, SameFacts, Zenon DEF AskInv
  <1>2. TypeOK'
    <2>1. lease' \in [Callers -> LeaseStates]
      BY <1>0, LeaseUpdates, Zenon DEF TypeOK
    <2>2. UNCHANGED <<now, server, log, call, worker>>
      BY <1>0, Zenon
    <2> QED
      BY <1>1, <2>1, <2>2, Zenon DEF TypeOK
  <1>3. /\ UNCHANGED <<now, server, log>>
        /\ \A d \in Callers \ {c} : /\ call'[d] = call[d] /\ worker'[d] = worker[d]
                                    /\ lease'[d] = lease[d] /\ net'[d] = net[d]
    BY <1>0, <1>1, Zenon DEF TypeOK, CallStates, WorkerStates, LeaseStates
  <1>4. Granted(c)' <=> Granted(c)
    BY <1>3, Zenon DEF Granted
  <1>5. AskInv(c)'
    BY <1>0, <1>1, <1>3, <1>4, Zenon
       DEF TypeOK, CallStates, WorkerStates, LeaseStates, AskInv, ReleaseInv
  <1>6. ReleaseInv(c)'
    BY <1>0, <1>1, <1>3, <1>4, SMTT(30)
       DEF TypeOK, CallStates, WorkerStates, LeaseStates, AskInv, ReleaseInv
  <1>7. CoverInv(c)'
    BY <1>0, <1>1, <1>3, <1>4, SMTT(30)
       DEF TypeOK, CallStates, WorkerStates, LeaseStates, AskInv, ReleaseInv, CoverInv, Covers
  <1> QED
    BY Zenon, <1>2, <1>3, <1>5, <1>6, <1>7, LocalStep

\* The lease lapsed while the renewal slept.
LEMMA RenewalLapsesPreserves ==
    ASSUME OwnershipInv, NEW c \in Callers,
           RenewalWakes(c), lease[c].state = "Held", ~LocallyValid(c)
    PROVE  OwnershipInv'
  <1> TypeOK /\ AskInv(c) /\ ReleaseInv(c) /\ CoverInv(c)
    BY Zenon DEF OwnershipInv
  <1> USE LeaseAssumption
  <1>0. /\ lease' = [lease EXCEPT ![c].state = "Lost", ![c].renewal = "gone", ![c].reply = None,
                                    ![c].asked = 0]
        /\ lease[c].renewal = "sleep" /\ None \in Replies
        /\ UNCHANGED <<now, server, net, call, worker, log>>
    BY Zenon DEF RenewalWakes, Loses, Replies
  <1>1. /\ net' = net
        /\ \A r : Pending(c, r)' <=> Pending(c, r)
        /\ AsksOnce(c)'
    <2>1. net' = net
      BY <1>0, Zenon
    <2> QED
      BY <2>1, SameFacts, Zenon DEF AskInv
  <1>2. TypeOK'
    <2>1. lease' \in [Callers -> LeaseStates]
      BY <1>0, LeaseUpdates, ZenonT(30) DEF TypeOK
    <2>2. UNCHANGED <<now, server, log, call, worker>>
      BY <1>0, Zenon
    <2> QED
      BY <1>1, <2>1, <2>2, Zenon DEF TypeOK
  <1>3. /\ UNCHANGED <<now, server, log>>
        /\ \A d \in Callers \ {c} : /\ call'[d] = call[d] /\ worker'[d] = worker[d]
                                    /\ lease'[d] = lease[d] /\ net'[d] = net[d]
    BY <1>0, <1>1, Zenon DEF TypeOK, CallStates, WorkerStates, LeaseStates
  <1>4. Granted(c)' <=> Granted(c)
    BY <1>3, Zenon DEF Granted
  <1>5. AskInv(c)'
    BY <1>0, <1>1, <1>3, <1>4, Zenon
       DEF TypeOK, CallStates, WorkerStates, LeaseStates, AskInv, ReleaseInv
  <1>6. ReleaseInv(c)'
    BY <1>0, <1>1, <1>3, <1>4, SMTT(30)
       DEF TypeOK, CallStates, WorkerStates, LeaseStates, AskInv, ReleaseInv
  <1>7. CoverInv(c)'
    BY <1>0, <1>1, <1>3, <1>4, SMTT(30)
       DEF TypeOK, CallStates, WorkerStates, LeaseStates, AskInv, ReleaseInv, CoverInv, Covers
  <1> QED
    BY Zenon, <1>2, <1>3, <1>5, <1>6, <1>7, LocalStep

\* The renewal is asked for, and its start is now.
LEMMA RenewalAsksPreserves ==
    ASSUME OwnershipInv, NEW c \in Callers,
           RenewalWakes(c), lease[c].state = "Held", LocallyValid(c)
    PROVE  OwnershipInv'
  <1> TypeOK /\ AskInv(c) /\ ReleaseInv(c) /\ CoverInv(c)
    BY Zenon DEF OwnershipInv
  <1> USE LeaseAssumption
  <1>0. /\ lease' = [lease EXCEPT ![c].renewal = "asked", ![c].asked = now]
        /\ lease[c].renewal = "sleep" /\ Send(c, <<"renew">>) /\ now \in Nat
        /\ UNCHANGED <<now, server, call, worker, log>>
    BY Zenon DEF RenewalWakes, TypeOK
  <1>1. /\ net' \in [Callers -> Seq(Requests)] /\ \A d \in Callers \ {c} : net'[d] = net[d]
        /\ \A r : Pending(c, r)' <=> Pending(c, r) \/ r = "renew"
        /\ AsksOnce(c)'
    <2>1. Send(c, <<"renew">>) /\ "renew" \in Requests
      BY <1>0, Zenon DEF Requests
    <2> QED
      BY <1>0, <2>1, SendFacts, Zenon DEF AskInv
  <1>2. TypeOK'
    <2>1. lease' \in [Callers -> LeaseStates]
      BY <1>0, LeaseUpdates, Zenon DEF TypeOK
    <2>2. UNCHANGED <<now, server, log, call, worker>>
      BY <1>0, Zenon
    <2> QED
      BY <1>1, <2>1, <2>2, Zenon DEF TypeOK
  <1>3. /\ UNCHANGED <<now, server, log>>
        /\ \A d \in Callers \ {c} : /\ call'[d] = call[d] /\ worker'[d] = worker[d]
                                    /\ lease'[d] = lease[d] /\ net'[d] = net[d]
    BY <1>0, <1>1, Zenon DEF TypeOK, CallStates, WorkerStates, LeaseStates
  <1>4. Granted(c)' <=> Granted(c)
    BY <1>3, Zenon DEF Granted
  <1>5. AskInv(c)'
    BY <1>0, <1>1, <1>3, <1>4, Zenon
       DEF TypeOK, CallStates, WorkerStates, LeaseStates, AskInv, ReleaseInv
  <1>6. ReleaseInv(c)'
    BY <1>0, <1>1, <1>3, <1>4, SMTT(30)
       DEF TypeOK, CallStates, WorkerStates, LeaseStates, AskInv, ReleaseInv
  <1>7. CoverInv(c)'
    BY <1>0, <1>1, <1>3, <1>4, SMTT(30)
       DEF TypeOK, CallStates, WorkerStates, LeaseStates, AskInv, ReleaseInv, CoverInv, Covers
  <1> QED
    BY Zenon, <1>2, <1>3, <1>5, <1>6, <1>7, LocalStep

\* The lease is lost.
LEMMA RenewalFailsPreserves ==
    ASSUME OwnershipInv, NEW c \in Callers, RenewalFails(c)
    PROVE  OwnershipInv'
  <1> TypeOK /\ AskInv(c) /\ ReleaseInv(c) /\ CoverInv(c)
    BY Zenon DEF OwnershipInv
  <1> USE LeaseAssumption
  <1>1. /\ net' = net
        /\ \A r : Pending(c, r)' <=> Pending(c, r)
        /\ AsksOnce(c)'
    <2>1. net' = net
      BY Zenon DEF RenewalFails, Loses
    <2> QED
      BY <2>1, SameFacts, Zenon DEF AskInv
  <1>2. TypeOK'
    <2>1. lease' \in [Callers -> LeaseStates]
      BY LeaseUpdates, Zenon DEF TypeOK, Replies, RenewalFails, Loses
    <2>2. UNCHANGED <<now, server, log, call, worker>>
      BY Zenon DEF RenewalFails, Loses
    <2> QED
      BY <1>1, <2>1, <2>2, Zenon DEF TypeOK
  <1>3. /\ UNCHANGED <<now, server, log>>
        /\ \A d \in Callers \ {c} : /\ call'[d] = call[d] /\ worker'[d] = worker[d]
                                    /\ lease'[d] = lease[d] /\ net'[d] = net[d]
    BY <1>1, Zenon DEF TypeOK, CallStates, WorkerStates, LeaseStates, RenewalFails, Loses
  <1>4. Granted(c)' <=> Granted(c)
    BY <1>3, Zenon DEF Granted
  <1>5. AskInv(c)'
    BY <1>1, <1>3, <1>4, Zenon
       DEF TypeOK, CallStates, WorkerStates, LeaseStates, AskInv, ReleaseInv, RenewalFails,
           Loses
  <1>6. ReleaseInv(c)'
    BY <1>1, <1>3, <1>4, SMTT(30)
       DEF TypeOK, CallStates, WorkerStates, LeaseStates, AskInv, ReleaseInv, RenewalFails,
           Loses
  <1>7. CoverInv(c)'
    BY <1>1, <1>3, <1>4, SMTT(30)
       DEF TypeOK, CallStates, WorkerStates, LeaseStates, AskInv, ReleaseInv, CoverInv, Covers,
           RenewalFails, Loses
  <1> QED
    BY Zenon, <1>2, <1>3, <1>5, <1>6, <1>7, LocalStep

\* The new deadline is covered by the renewal.
LEMMA RenewedKeepsPreserves ==
    ASSUME OwnershipInv, NEW c \in Callers,
           Renewed(c), lease[c].state = "Held", LocallyValid(c)
    PROVE  OwnershipInv'
  <1> TypeOK /\ AskInv(c) /\ ReleaseInv(c) /\ CoverInv(c)
    BY Zenon DEF OwnershipInv
  <1> USE LeaseAssumption
  <1>0. /\ lease' = [lease EXCEPT ![c].until = lease[c].asked + Ttl, ![c].renewal = "sleep",
                                    ![c].reply = None, ![c].asked = 0]
        /\ lease[c].renewal = "asked" /\ lease[c].reply = "yes" /\ lease[c].state = "Held"
        /\ lease[c].asked + Ttl \in Nat /\ None \in Replies
        /\ UNCHANGED <<now, server, net, call, worker, log>>
    BY SMTT(30) DEF Renewed, TypeOK, LeaseStates, Replies
  <1>1. /\ net' = net
        /\ \A r : Pending(c, r)' <=> Pending(c, r)
        /\ AsksOnce(c)'
    <2>1. net' = net
      BY <1>0, Zenon
    <2> QED
      BY <2>1, SameFacts, Zenon DEF AskInv
  <1>2. TypeOK'
    <2>1. lease' \in [Callers -> LeaseStates]
      BY <1>0, LeaseUpdates, ZenonT(30) DEF TypeOK
    <2>2. UNCHANGED <<now, server, log, call, worker>>
      BY <1>0, Zenon
    <2> QED
      BY <1>1, <2>1, <2>2, Zenon DEF TypeOK
  <1>3. /\ UNCHANGED <<now, server, log>>
        /\ \A d \in Callers \ {c} : /\ call'[d] = call[d] /\ worker'[d] = worker[d]
                                    /\ lease'[d] = lease[d] /\ net'[d] = net[d]
    BY <1>0, <1>1, Zenon DEF TypeOK, CallStates, WorkerStates, LeaseStates
  <1>4. Granted(c)' <=> Granted(c)
    BY <1>3, Zenon DEF Granted
  <1>5. AskInv(c)'
    BY <1>0, <1>1, <1>3, <1>4, Zenon
       DEF TypeOK, CallStates, WorkerStates, LeaseStates, AskInv, ReleaseInv
  <1>6. ReleaseInv(c)'
    BY <1>0, <1>1, <1>3, <1>4, SMTT(30)
       DEF TypeOK, CallStates, WorkerStates, LeaseStates, AskInv, ReleaseInv
  <1>7. CoverInv(c)'
    BY <1>0, <1>1, <1>3, <1>4, SMTT(30)
       DEF TypeOK, CallStates, WorkerStates, LeaseStates, AskInv, ReleaseInv, CoverInv, Covers
  <1> QED
    BY Zenon, <1>2, <1>3, <1>5, <1>6, <1>7, LocalStep

\* The renewal came too late.
LEMMA RenewedLosesPreserves ==
    ASSUME OwnershipInv, NEW c \in Callers,
           Renewed(c), ~(lease[c].state = "Held" /\ LocallyValid(c))
    PROVE  OwnershipInv'
  <1> TypeOK /\ AskInv(c) /\ ReleaseInv(c) /\ CoverInv(c)
    BY Zenon DEF OwnershipInv
  <1> USE LeaseAssumption
  <1>0. /\ lease' = [lease EXCEPT ![c].state = "Lost", ![c].renewal = "gone", ![c].reply = None,
                                    ![c].asked = 0]
        /\ lease[c].renewal = "asked" /\ None \in Replies
        /\ UNCHANGED <<now, server, net, call, worker, log>>
    BY Zenon DEF Renewed, Loses, Replies
  <1>1. /\ net' = net
        /\ \A r : Pending(c, r)' <=> Pending(c, r)
        /\ AsksOnce(c)'
    <2>1. net' = net
      BY <1>0, Zenon
    <2> QED
      BY <2>1, SameFacts, Zenon DEF AskInv
  <1>2. TypeOK'
    <2>1. lease' \in [Callers -> LeaseStates]
      BY <1>0, LeaseUpdates, Zenon DEF TypeOK
    <2>2. UNCHANGED <<now, server, log, call, worker>>
      BY <1>0, Zenon
    <2> QED
      BY <1>1, <2>1, <2>2, Zenon DEF TypeOK
  <1>3. /\ UNCHANGED <<now, server, log>>
        /\ \A d \in Callers \ {c} : /\ call'[d] = call[d] /\ worker'[d] = worker[d]
                                    /\ lease'[d] = lease[d] /\ net'[d] = net[d]
    BY <1>0, <1>1, Zenon DEF TypeOK, CallStates, WorkerStates, LeaseStates
  <1>4. Granted(c)' <=> Granted(c)
    BY <1>3, Zenon DEF Granted
  <1>5. AskInv(c)'
    BY <1>0, <1>1, <1>3, <1>4, Zenon
       DEF TypeOK, CallStates, WorkerStates, LeaseStates, AskInv, ReleaseInv
  <1>6. ReleaseInv(c)'
    BY <1>0, <1>1, <1>3, <1>4, SMTT(30)
       DEF TypeOK, CallStates, WorkerStates, LeaseStates, AskInv, ReleaseInv
  <1>7. CoverInv(c)'
    BY <1>0, <1>1, <1>3, <1>4, SMTT(30)
       DEF TypeOK, CallStates, WorkerStates, LeaseStates, AskInv, ReleaseInv, CoverInv, Covers
  <1> QED
    BY Zenon, <1>2, <1>3, <1>5, <1>6, <1>7, LocalStep

\* A write goes out.
LEMMA WritePreserves ==
    ASSUME OwnershipInv, NEW c \in Callers, Write(c)
    PROVE  OwnershipInv'
  <1> TypeOK /\ AskInv(c) /\ ReleaseInv(c) /\ CoverInv(c)
    BY Zenon DEF OwnershipInv
  <1> USE LeaseAssumption
  <1>1. /\ net' \in [Callers -> Seq(Requests)] /\ \A d \in Callers \ {c} : net'[d] = net[d]
        /\ \A r : Pending(c, r)' <=> Pending(c, r) \/ r = "write"
        /\ AsksOnce(c)'
    <2>1. Send(c, <<"write">>) /\ "write" \in Requests
      BY Zenon DEF Write, Requests
    <2> QED
      BY <2>1, SendFacts, Zenon DEF AskInv
  <1>2. TypeOK'
    <2>1. call' \in [Callers -> CallStates]
      BY CallUpdates, Zenon DEF TypeOK, Replies, Write
    <2>2. UNCHANGED <<now, server, log, worker, lease>>
      BY Zenon DEF Write
    <2> QED
      BY <1>1, <2>1, <2>2, Zenon DEF TypeOK
  <1>3. /\ UNCHANGED <<now, server, log>>
        /\ \A d \in Callers \ {c} : /\ call'[d] = call[d] /\ worker'[d] = worker[d]
                                    /\ lease'[d] = lease[d] /\ net'[d] = net[d]
    BY <1>1, Zenon DEF TypeOK, CallStates, WorkerStates, LeaseStates, Write
  <1>4. Granted(c)' <=> Granted(c)
    BY <1>3, Zenon DEF Granted
  <1>5. AskInv(c)'
    BY <1>1, <1>3, <1>4, SMTT(30)
       DEF TypeOK, CallStates, WorkerStates, LeaseStates, AskInv, ReleaseInv, Write
  <1>6. ReleaseInv(c)'
    BY <1>1, <1>3, <1>4, Zenon
       DEF TypeOK, CallStates, WorkerStates, LeaseStates, AskInv, ReleaseInv, Write
  <1>7. CoverInv(c)'
    BY <1>1, <1>3, <1>4, Zenon
       DEF TypeOK, CallStates, WorkerStates, LeaseStates, AskInv, ReleaseInv, CoverInv, Covers,
           Write
  <1> QED
    BY Zenon, <1>2, <1>3, <1>5, <1>6, <1>7, LocalStep

\* A lapsed lease is lost.
LEMMA ProofFailsPreserves ==
    ASSUME OwnershipInv, NEW c \in Callers, ProofFails(c)
    PROVE  OwnershipInv'
  <1> TypeOK /\ AskInv(c) /\ ReleaseInv(c) /\ CoverInv(c)
    BY Zenon DEF OwnershipInv
  <1> USE LeaseAssumption
  <1>1. /\ net' = net
        /\ \A r : Pending(c, r)' <=> Pending(c, r)
        /\ AsksOnce(c)'
    <2>1. net' = net
      BY Zenon DEF ProofFails
    <2> QED
      BY <2>1, SameFacts, Zenon DEF AskInv
  <1>2. TypeOK'
    <2>1. lease' \in [Callers -> LeaseStates]
      BY LeaseUpdates, Zenon DEF TypeOK, Replies, ProofFails
    <2>2. UNCHANGED <<now, server, log, call, worker>>
      BY Zenon DEF ProofFails
    <2> QED
      BY <1>1, <2>1, <2>2, Zenon DEF TypeOK
  <1>3. /\ UNCHANGED <<now, server, log>>
        /\ \A d \in Callers \ {c} : /\ call'[d] = call[d] /\ worker'[d] = worker[d]
                                    /\ lease'[d] = lease[d] /\ net'[d] = net[d]
    BY <1>1, Zenon DEF TypeOK, CallStates, WorkerStates, LeaseStates, ProofFails
  <1>4. Granted(c)' <=> Granted(c)
    BY <1>3, Zenon DEF Granted
  <1>5. AskInv(c)'
    BY <1>1, <1>3, <1>4, Zenon
       DEF TypeOK, CallStates, WorkerStates, LeaseStates, AskInv, ReleaseInv, ProofFails
  <1>6. ReleaseInv(c)'
    BY <1>1, <1>3, <1>4, SMTT(30)
       DEF TypeOK, CallStates, WorkerStates, LeaseStates, AskInv, ReleaseInv, ProofFails
  <1>7. CoverInv(c)'
    BY <1>1, <1>3, <1>4, SMTT(30)
       DEF TypeOK, CallStates, WorkerStates, LeaseStates, AskInv, ReleaseInv, CoverInv, Covers,
           ProofFails
  <1> QED
    BY Zenon, <1>2, <1>3, <1>5, <1>6, <1>7, LocalStep

-------------------------------------------------------------------------------
(* The server and the clock. *)

\* What an answer changes.
LEMMA AnsweredFacts ==
    ASSUME TypeOK, NEW c \in Callers, NEW r, NEW a \in Replies, Answered(c, r, a)
    PROVE  /\ worker' \in [Callers -> WorkerStates] /\ lease' \in [Callers -> LeaseStates]
           /\ \A d \in Callers \ {c} : worker'[d] = worker[d] /\ lease'[d] = lease[d]
           /\ worker'[c].pc = worker[c].pc /\ worker'[c].started = worker[c].started
           /\ worker'[c].result = worker[c].result
           /\ worker'[c].reply = IF worker[c].pc = "set" /\ r = "set" THEN a ELSE worker[c].reply
           /\ lease'[c].state = lease[c].state /\ lease'[c].until = lease[c].until
           /\ lease'[c].renewal = lease[c].renewal /\ lease'[c].asked = lease[c].asked
           /\ lease'[c].cleanup = lease[c].cleanup
           /\ lease'[c].reply = IF lease[c].renewal = "asked" /\ r = "renew" THEN a
                                ELSE lease[c].reply
  <1>1. worker' \in [Callers -> WorkerStates]
    BY WorkerUpdates, Zenon DEF TypeOK, Answered
  <1>2. lease' \in [Callers -> LeaseStates]
    BY LeaseUpdates, Zenon DEF TypeOK, Answered
  <1>3. /\ \A d \in Callers \ {c} : worker'[d] = worker[d]
        /\ worker'[c].pc = worker[c].pc /\ worker'[c].started = worker[c].started
        /\ worker'[c].result = worker[c].result
        /\ worker'[c].reply = IF worker[c].pc = "set" /\ r = "set" THEN a ELSE worker[c].reply
    BY Zenon DEF TypeOK, WorkerStates, Answered
  <1>4. /\ \A d \in Callers \ {c} : lease'[d] = lease[d]
        /\ lease'[c].state = lease[c].state /\ lease'[c].until = lease[c].until
        /\ lease'[c].renewal = lease[c].renewal /\ lease'[c].asked = lease[c].asked
        /\ lease'[c].cleanup = lease[c].cleanup
        /\ lease'[c].reply = IF lease[c].renewal = "asked" /\ r = "renew" THEN a
                             ELSE lease[c].reply
    BY Zenon DEF TypeOK, LeaseStates, Answered
  <1> QED
    BY <1>1, <1>2, <1>3, <1>4, Zenon

\* The end of a request keeps what is known about its caller, if what the answer says of
\* ownership is so.
LEMMA TakenRequest ==
    ASSUME OwnershipInv, TypeOK', NEW c \in Callers, net[c] # << >>,
           net' = [net EXCEPT ![c] = Tail(@)], UNCHANGED <<now, call>>,
           NEW a \in Replies \ {None}, Answered(c, Head(net[c]), a),
           a = "yes" /\ Head(net[c]) \in {"set", "renew"} => Covers(c, now + Ttl)',
           Granted(c)' <=> Granted(c) \/ (Head(net[c]) = "set" /\ a = "yes"),
           Head(net[c]) # "release" => \A t \in Nat : Covers(c, t) => Covers(c, t)'
    PROVE  AskInv(c)' /\ ReleaseInv(c)' /\ CoverInv(c)'
  <1> DEFINE r == Head(net[c])
  <1>1. TypeOK /\ AskInv(c) /\ ReleaseInv(c) /\ CoverInv(c) /\ GrantInv
    BY Zenon DEF OwnershipInv
  <1>2. /\ r \in Requests /\ Pending(c, r)
        /\ \A q : Pending(c, q)' => Pending(c, q)
        /\ AsksOnce(c)' /\ (r = "set" => ~Pending(c, "set")')
    BY <1>1, TakeFacts, Zenon DEF AskInv
  <1>3. /\ worker'[c].pc = worker[c].pc /\ worker'[c].started = worker[c].started
        /\ worker'[c].result = worker[c].result
        /\ worker'[c].reply = IF worker[c].pc = "set" /\ r = "set" THEN a ELSE worker[c].reply
        /\ lease'[c].state = lease[c].state /\ lease'[c].until = lease[c].until
        /\ lease'[c].renewal = lease[c].renewal /\ lease'[c].asked = lease[c].asked
        /\ lease'[c].cleanup = lease[c].cleanup
        /\ lease'[c].reply = IF lease[c].renewal = "asked" /\ r = "renew" THEN a
                             ELSE lease[c].reply
    BY <1>1, AnsweredFacts, Zenon
  <1>4. /\ worker[c].started \in Nat /\ lease[c].asked \in Nat /\ lease[c].until \in Nat
        /\ now \in Nat /\ Ttl \in Nat /\ None \notin {"yes", "no", "error"}
        /\ worker[c].pc \in {"idle", "try", "set", "send", "sent", "done"}
        /\ worker[c].result \in {"none", "lease"}
    BY <1>1, LeaseAssumption, Zenon DEF TypeOK, WorkerStates, LeaseStates
  <1> HIDE DEF r
  <1>5. AskInv(c)'
    <2>1. CASE r = "set"
      <3>1. ~Granted(c) /\ worker[c].pc \notin {"idle", "try"} /\ worker[c].result = "none"
        BY <1>1, <1>2, <1>4, <2>1, Zenon DEF AskInv
      <3>2. /\ Granted(c)' => a = "yes"
            /\ worker'[c].pc = "set" => worker'[c].reply = a
        BY <1>3, <2>1, <3>1, Zenon DEF r
      <3> QED
        BY <1>1, <1>2, <1>3, <1>4, <2>1, <3>1, <3>2, Zenon DEF AskInv, r
    <2>2. CASE r # "set"
      <3>1. (Granted(c)' <=> Granted(c)) /\ worker'[c].reply = worker[c].reply
        BY <1>3, <2>2, Zenon DEF r
      <3> QED
        BY <1>1, <1>2, <1>3, <1>4, <3>1, Zenon DEF AskInv
    <2> QED
      BY <2>1, <2>2, Zenon
  <1>6. ReleaseInv(c)'
    BY <1>1, <1>2, <1>3, <1>4, Zenon DEF ReleaseInv
  <1>7. CoverInv(c)'
    <2>1. ASSUME NEW t \in Nat, t <= now + Ttl, Covers(c, now + Ttl)' PROVE Covers(c, t)'
      <3>1. server'.exp \in Nat
        BY Zenon DEF TypeOK
      <3> QED
        BY <1>4, <2>1, <3>1, SMTT(30) DEF Covers
    <2>2. worker[c].pc = "set" \/ lease[c].state = "Held" \/ lease[c].renewal = "asked"
              => r # "release"
      BY <1>1, <1>2, <1>4, Zenon DEF AskInv, ReleaseInv
    <2>3. ASSUME worker[c].pc = "set", worker'[c].reply = "yes"
          PROVE  Covers(c, worker[c].started + Ttl)'
      <3>1. worker[c].started + Ttl \in Nat /\ worker[c].started + Ttl <= now + Ttl
        BY <1>1, <1>4, <2>3, SMTT(30) DEF AskInv
      <3>2. CASE r = "set"
        BY <1>3, <2>1, <2>3, <3>1, <3>2, Zenon DEF r, Covers
      <3>3. CASE r # "set"
        BY <1>1, <1>3, <2>2, <2>3, <3>1, <3>3, Zenon DEF r, CoverInv, Covers
      <3> QED
        BY <3>2, <3>3, Zenon
    <2>4. ASSUME lease[c].renewal = "asked", lease'[c].reply = "yes"
          PROVE  Covers(c, lease[c].asked + Ttl)'
      <3>1. lease[c].asked + Ttl \in Nat /\ lease[c].asked + Ttl <= now + Ttl
        BY <1>1, <1>4, <2>4, SMTT(30) DEF ReleaseInv
      <3>2. CASE r = "renew"
        BY <1>3, <2>1, <2>4, <3>1, <3>2, Zenon DEF r, Covers
      <3>3. CASE r # "renew"
        BY <1>1, <1>3, <2>2, <2>4, <3>1, <3>3, Zenon DEF r, CoverInv, Covers
      <3> QED
        BY <3>2, <3>3, Zenon
    <2>5. ASSUME lease[c].state = "Held" PROVE Covers(c, lease[c].until)'
      BY <1>1, <1>3, <1>4, <2>2, <2>5, Zenon DEF r, CoverInv, Covers
    <2> QED
      BY <1>3, <2>3, <2>4, <2>5, Zenon DEF CoverInv, Covers
  <1> QED
    BY <1>5, <1>6, <1>7, Zenon

\* The types after an answer, the server's apart.
LEMMA TakenTypes ==
    ASSUME TypeOK, NEW c \in Callers, net[c] # << >>, net' = [net EXCEPT ![c] = Tail(@)],
           UNCHANGED <<now, call>>, NEW a \in Replies, Answered(c, Head(net[c]), a),
           log' \in Seq(Callers),
           server' \in [token : Callers \cup {None}, exp : Nat, granted : Seq(Callers)]
    PROVE  /\ TypeOK'
           /\ \A d \in Callers \ {c} : /\ call'[d] = call[d] /\ worker'[d] = worker[d]
                                       /\ lease'[d] = lease[d] /\ net'[d] = net[d]
  <1>1. /\ net' \in [Callers -> Seq(Requests)]
        /\ \A d \in Callers \ {c} : net'[d] = net[d]
    BY TakeFacts, Zenon
  <1>2. /\ worker' \in [Callers -> WorkerStates] /\ lease' \in [Callers -> LeaseStates]
        /\ \A d \in Callers \ {c} : worker'[d] = worker[d] /\ lease'[d] = lease[d]
    BY AnsweredFacts, Zenon
  <1> QED
    BY <1>1, <1>2, Zenon DEF TypeOK

\* A request that changes nothing at the server, whatever it answers.
LEMMA IdleRequest ==
    ASSUME OwnershipInv, NEW c \in Callers, net[c] # << >>,
           net' = [net EXCEPT ![c] = Tail(@)], UNCHANGED <<now, call, server, log>>,
           NEW a \in Replies \ {None}, Answered(c, Head(net[c]), a),
           a = "yes" => Head(net[c]) \notin {"set", "renew"}
    PROVE  OwnershipInv'
  <1>1. TypeOK
    BY Zenon DEF OwnershipInv
  <1>2. /\ TypeOK'
        /\ \A d \in Callers \ {c} : /\ call'[d] = call[d] /\ worker'[d] = worker[d]
                                    /\ lease'[d] = lease[d] /\ net'[d] = net[d]
    <2>1. log' \in Seq(Callers)
          /\ server' \in [token : Callers \cup {None}, exp : Nat, granted : Seq(Callers)]
      BY <1>1, Zenon DEF TypeOK
    <2> QED
      BY <1>1, <2>1, TakenTypes, Zenon
  <1>3. /\ Granted(c)' <=> Granted(c)
        /\ \A t \in Nat : Covers(c, t) => Covers(c, t)'
    BY Zenon DEF Granted, Covers
  <1>4. AskInv(c)' /\ ReleaseInv(c)' /\ CoverInv(c)'
    BY <1>2, <1>3, TakenRequest, Zenon
  <1> QED
    BY <1>2, <1>4, LocalStep, Zenon

\* A lost request leaves its sender with an error.
LEMMA LosePreserves ==
    ASSUME OwnershipInv, NEW c \in Callers, Lose(c)
    PROVE  OwnershipInv'
  <1>1. "error" \in Replies \ {None} /\ "error" # "yes"
    BY LeaseAssumption, Zenon DEF Replies
  <1>2. /\ net[c] # << >> /\ net' = [net EXCEPT ![c] = Tail(@)]
        /\ UNCHANGED <<now, call, server, log>> /\ Answered(c, Head(net[c]), "error")
    BY Zenon DEF Lose
  <1> QED
    BY <1>1, <1>2, IdleRequest, Zenon

\* A change of the server that its caller's and the others' deadlines survive.
LEMMA ServerStep ==
    ASSUME OwnershipInv, NEW c \in Callers, TypeOK', now' = now,
           \A d \in Callers \ {c} : /\ call'[d] = call[d] /\ worker'[d] = worker[d]
                                    /\ lease'[d] = lease[d] /\ net'[d] = net[d]
                                    /\ Granted(d)' <=> Granted(d)
                                    /\ \A t \in Nat : Covers(d, t) => Covers(d, t)',
           AskInv(c)', ReleaseInv(c)', CoverInv(c)', GrantInv', WritesFollowGrants'
    PROVE  OwnershipInv'
  <1>1. now' \in Nat /\ now <= now'
    BY SMTT(30) DEF OwnershipInv, TypeOK
  <1>2. ASSUME NEW d \in Callers \ {c} PROVE AskInv(d)' /\ ReleaseInv(d)' /\ CoverInv(d)'
    BY <1>1, OtherCaller, Zenon
  <1> QED
    BY <1>2, Zenon DEF OwnershipInv

\* The facts about a served request.
LEMMA ServeFacts ==
    ASSUME OwnershipInv, NEW c \in Callers, Serve(c)
    PROVE  /\ net[c] # << >> /\ net' = [net EXCEPT ![c] = Tail(@)] /\ UNCHANGED <<now, call>>
           /\ Head(net[c]) \in Requests /\ Pending(c, Head(net[c]))
           /\ Answered(c, Head(net[c]), Answer(c, Head(net[c])))
           /\ {"yes", "no"} \subseteq Replies \ {None}
           /\ TypeOK /\ now \in Nat /\ now + Ttl \in Nat /\ now < now + Ttl
           /\ server.exp \in Nat /\ server.exp <= now + Ttl
           /\ server.granted \in Seq(Callers) /\ server.token \in Callers \cup {None}
  <1>1. TypeOK /\ GrantInv
    BY Zenon DEF OwnershipInv
  <1>2. /\ net[c] # << >> /\ net' = [net EXCEPT ![c] = Tail(@)] /\ UNCHANGED <<now, call>>
        /\ Answered(c, Head(net[c]), Answer(c, Head(net[c])))
    BY Zenon DEF Serve
  <1>3. Head(net[c]) \in Requests /\ Pending(c, Head(net[c]))
    BY <1>1, <1>2, TakeFacts, Zenon
  <1>4. {"yes", "no"} \subseteq Replies \ {None}
    BY LeaseAssumption, Zenon DEF Replies
  <1>5. /\ now \in Nat /\ now + Ttl \in Nat /\ now < now + Ttl
        /\ server.exp \in Nat /\ server.exp <= now + Ttl
        /\ server.granted \in Seq(Callers) /\ server.token \in Callers \cup {None}
    BY <1>1, LeaseAssumption, SMTT(30) DEF TypeOK, GrantInv
  <1> QED
    BY <1>1, <1>2, <1>3, <1>4, <1>5, Zenon

\* SET NX of a free lock: the token was never granted before, and whoever held the lock
\* has lapsed.
LEMMA GrantPreserves ==
    ASSUME OwnershipInv, NEW c \in Callers, Serve(c), Head(net[c]) = "set", Free
    PROVE  OwnershipInv'
  <1> DEFINE G == server.granted
  <1>1. /\ net[c] # << >> /\ net' = [net EXCEPT ![c] = Tail(@)] /\ UNCHANGED <<now, call>>
        /\ Answered(c, Head(net[c]), "yes") /\ "yes" \in Replies \ {None}
        /\ TypeOK /\ now \in Nat /\ now + Ttl \in Nat /\ now < now + Ttl
        /\ server.exp \in Nat /\ G \in Seq(Callers) /\ Len(G) \in Nat
        /\ Pending(c, "set")
    BY ServeFacts, SMTT(30) DEF Answer
  <1>2. /\ server' = [token |-> c, exp |-> now + Ttl, granted |-> Append(G, c)]
        /\ log' = log
    BY Zenon DEF Serve, Acquires
  <1>3. /\ server'.token = c /\ server'.exp = now + Ttl /\ server'.granted = Append(G, c)
        /\ Len(server'.granted) = Len(G) + 1 /\ server'.granted \in Seq(Callers)
        /\ DOMAIN G = 1 .. Len(G) /\ DOMAIN server'.granted = 1 .. Len(G) + 1
        /\ server'.granted[Len(G) + 1] = c
        /\ \A k \in 1 .. Len(G) : server'.granted[k] = G[k]
    BY <1>1, <1>2, SMTT(30)
  <1>4. ~Granted(c)
    BY <1>1, Zenon DEF OwnershipInv, AskInv
  <1>5. Granted(c)' /\ \A d \in Callers \ {c} : Granted(d)' <=> Granted(d)
    BY <1>1, <1>3, SMTT(30) DEF Granted
  <1>6. \A d \in Callers : \A t \in Nat : Covers(d, t) => t <= now
    BY <1>1, LeaseAssumption, SMTT(30) DEF Covers, Free
  <1>7. /\ TypeOK'
        /\ \A d \in Callers \ {c} : /\ call'[d] = call[d] /\ worker'[d] = worker[d]
                                    /\ lease'[d] = lease[d] /\ net'[d] = net[d]
    <2>1. log' \in Seq(Callers)
          /\ server' \in [token : Callers \cup {None}, exp : Nat, granted : Seq(Callers)]
      BY <1>1, <1>2, <1>3, Zenon DEF TypeOK
    <2> QED
      BY <1>1, <2>1, TakenTypes, Zenon
  <1>8. \A d \in Callers : \A t \in Nat : Covers(d, t) => Covers(d, t)'
    BY <1>1, <1>6, SMTT(30) DEF Covers
  <1>9. Covers(c, now + Ttl)'
    BY <1>1, <1>3, SMTT(30) DEF Covers
  <1>10. AskInv(c)' /\ ReleaseInv(c)' /\ CoverInv(c)'
    BY <1>1, <1>5, <1>7, <1>8, <1>9, TakenRequest, Zenon
  <1>11. GrantInv'
    <2>1. \A d \in Callers : Granted(d) => Granted(d)'
      BY <1>5, Zenon
    <2>2. \A i \in DOMAIN log : log[i] \in Callers /\ Granted(log[i])
      BY <1>1, SMTT(30) DEF OwnershipInv, GrantInv, TypeOK
    <2>3. \A i \in DOMAIN log : Granted(log[i])'
      BY <1>2, <2>1, <2>2, Zenon DEF Granted
    <2>4. /\ server'.granted # << >> /\ server'.granted[Len(server'.granted)] = c
          /\ server'.exp <= now' + Ttl
      BY <1>1, <1>3, SMTT(30)
    <2>5. (\A i \in DOMAIN log : Granted(log[i]))'
      BY <1>2, <2>3, Zenon
    <2> QED
      BY <1>3, <2>4, <2>5, Zenon DEF GrantInv
  <1>12. WritesFollowGrants'
    <2>1. ASSUME NEW i \in 1 .. Len(log), NEW j \in 1 .. Len(log), i < j
          PROVE  \E g, h \in 1 .. Len(G) + 1 :
                    /\ Append(G, c)[g] = log[i] /\ Append(G, c)[h] = log[j]
                    /\ g <= h
                    /\ \A k \in 1 .. Len(G) + 1 : Append(G, c)[k] = log[i] => k <= h
      <3>1. PICK g \in 1 .. Len(G), h \in 1 .. Len(G) :
                /\ G[g] = log[i] /\ G[h] = log[j] /\ g <= h
                /\ \A k \in 1 .. Len(G) : G[k] = log[i] => k <= h
        BY <2>1, Zenon DEF OwnershipInv, WritesFollowGrants, FollowGrants
      <3>2. log[i] # c
        BY <1>3, <1>4, <3>1, Zenon DEF Granted
      <3>3. /\ Append(G, c)[g] = log[i] /\ Append(G, c)[h] = log[j]
            /\ g \in 1 .. Len(G) + 1 /\ h \in 1 .. Len(G) + 1
        BY <1>1, <1>3, <3>1, SMTT(30)
      <3>4. \A k \in 1 .. Len(G) + 1 : Append(G, c)[k] = log[i] => k <= h
        <4> SUFFICES ASSUME NEW k \in 1 .. Len(G) + 1, Append(G, c)[k] = log[i] PROVE k <= h
          BY Zenon
        <4>1. k # Len(G) + 1
          BY <1>3, <3>2, Zenon
        <4>2. k \in 1 .. Len(G) /\ G[k] = log[i]
          BY <1>1, <1>3, <4>1, SMTT(30)
        <4> QED
          BY <3>1, <4>2, Zenon
      <3> QED
        BY <3>1, <3>3, <3>4, Zenon
    <2>2. Len(Append(G, c)) = Len(G) + 1
      BY <1>3, Zenon
    <2> HIDE DEF G
    <2>3. FollowGrants(log, Append(G, c))
      BY <2>1, <2>2, Zenon DEF FollowGrants
    <2> QED
      BY <1>2, <1>3, <2>3, Zenon DEF WritesFollowGrants
  <1> QED
    BY <1>1, <1>5, <1>7, <1>8, <1>10, <1>11, <1>12, ServerStep, Zenon

\* A renewal of the token that holds the lock moves the server's deadline on.
LEMMA RenewPreserves ==
    ASSUME OwnershipInv, NEW c \in Callers, Serve(c), Head(net[c]) = "renew", HeldBy(c)
    PROVE  OwnershipInv'
  <1>1. /\ net[c] # << >> /\ net' = [net EXCEPT ![c] = Tail(@)] /\ UNCHANGED <<now, call>>
        /\ Answered(c, Head(net[c]), "yes") /\ "yes" \in Replies \ {None}
        /\ TypeOK /\ now \in Nat /\ now + Ttl \in Nat /\ now < now + Ttl
        /\ server.exp \in Nat /\ server.exp <= now + Ttl /\ server.token = c
    BY ServeFacts, Zenon DEF Answer, HeldBy
  <1>2. server' = [server EXCEPT !.exp = now + Ttl] /\ log' = log
    BY Zenon DEF Serve, Renews
  <1>3. /\ server'.token = server.token /\ server'.granted = server.granted
        /\ server'.exp = now + Ttl
        /\ server' \in [token : Callers \cup {None}, exp : Nat, granted : Seq(Callers)]
    BY <1>1, <1>2, Zenon DEF TypeOK
  <1>4. /\ TypeOK'
        /\ \A d \in Callers \ {c} : /\ call'[d] = call[d] /\ worker'[d] = worker[d]
                                    /\ lease'[d] = lease[d] /\ net'[d] = net[d]
    <2>1. log' \in Seq(Callers)
      BY <1>1, <1>2, Zenon DEF TypeOK
    <2> QED
      BY <1>1, <1>3, <2>1, TakenTypes, Zenon
  <1>5. \A d \in Callers : Granted(d)' <=> Granted(d)
    BY <1>3, Zenon DEF Granted
  <1>6. \A d \in Callers : \A t \in Nat : Covers(d, t) => Covers(d, t)'
    BY <1>1, <1>3, SMTT(30) DEF Covers
  <1>7. Covers(c, now + Ttl)'
    BY <1>1, <1>3, SMTT(30) DEF Covers
  <1>8. AskInv(c)' /\ ReleaseInv(c)' /\ CoverInv(c)'
    BY <1>1, <1>4, <1>5, <1>6, <1>7, TakenRequest, Zenon
  <1>9. GrantInv' /\ WritesFollowGrants'
    <2>1. GrantInv'
      BY <1>1, <1>2, <1>3, SMTT(30) DEF OwnershipInv, GrantInv, Granted
    <2>2. WritesFollowGrants'
      BY <1>2, <1>3, Zenon DEF OwnershipInv, WritesFollowGrants
    <2> QED
      BY <2>1, <2>2, Zenon
  <1> QED
    BY <1>1, <1>4, <1>5, <1>6, <1>8, <1>9, ServerStep, Zenon

\* A release arrives after its lease was given up: nobody relies on the lock it frees.
LEMMA ReleasePreserves ==
    ASSUME OwnershipInv, NEW c \in Callers, Serve(c), Head(net[c]) = "release",
           server.token = c
    PROVE  OwnershipInv'
  <1>1. /\ net[c] # << >> /\ net' = [net EXCEPT ![c] = Tail(@)] /\ UNCHANGED <<now, call>>
        /\ Answered(c, Head(net[c]), "yes") /\ "yes" \in Replies \ {None}
        /\ TypeOK /\ now \in Nat /\ server.exp \in Nat
    BY ServeFacts, Zenon DEF Answer
  <1>2. server' = [server EXCEPT !.token = None] /\ log' = log
    BY Zenon DEF Serve, Releases
  <1>3. /\ server'.token = None /\ server'.granted = server.granted /\ server'.exp = server.exp
        /\ server' \in [token : Callers \cup {None}, exp : Nat, granted : Seq(Callers)]
    BY <1>1, <1>2, Zenon DEF TypeOK
  <1>4. /\ TypeOK'
        /\ \A d \in Callers \ {c} : /\ call'[d] = call[d] /\ worker'[d] = worker[d]
                                    /\ lease'[d] = lease[d] /\ net'[d] = net[d]
    <2>1. log' \in Seq(Callers)
      BY <1>1, <1>2, Zenon DEF TypeOK
    <2> QED
      BY <1>1, <1>3, <2>1, TakenTypes, Zenon
  <1>5. \A d \in Callers : Granted(d)' <=> Granted(d)
    BY <1>3, Zenon DEF Granted
  <1>6. \A d \in Callers \ {c} : \A t \in Nat : Covers(d, t) => Covers(d, t)'
    BY <1>1, <1>3, Zenon DEF Covers
  <1>7. AskInv(c)' /\ ReleaseInv(c)' /\ CoverInv(c)'
    BY <1>1, <1>4, <1>5, TakenRequest, Zenon
  <1>8. GrantInv' /\ WritesFollowGrants'
    <2>1. GrantInv'
      BY <1>1, <1>2, <1>3, SMTT(30) DEF OwnershipInv, GrantInv, Granted
    <2>2. WritesFollowGrants'
      BY <1>2, <1>3, Zenon DEF OwnershipInv, WritesFollowGrants
    <2> QED
      BY <2>1, <2>2, Zenon
  <1> QED
    BY <1>1, <1>4, <1>5, <1>6, <1>7, <1>8, ServerStep, Zenon

\* A write is executed for the token that holds the lock, which is the one granted last.
LEMMA WriteServedPreserves ==
    ASSUME OwnershipInv, NEW c \in Callers, Serve(c), Head(net[c]) = "write", HeldBy(c)
    PROVE  OwnershipInv'
  <1> DEFINE G == server.granted
  <1>1. /\ net[c] # << >> /\ net' = [net EXCEPT ![c] = Tail(@)] /\ UNCHANGED <<now, call>>
        /\ Answered(c, Head(net[c]), "yes") /\ "yes" \in Replies \ {None}
        /\ TypeOK /\ now \in Nat /\ server.token = c
        /\ G \in Seq(Callers) /\ log \in Seq(Callers)
    BY ServeFacts, Zenon DEF Answer, HeldBy, TypeOK
  <1>0. WritesFollowGrants
    BY Zenon DEF OwnershipInv
  <1>2. server' = server /\ log' = Append(log, c)
    BY Zenon DEF Serve, Writes
  <1>3. /\ Len(log) \in Nat /\ DOMAIN log = 1 .. Len(log) /\ Len(log') = Len(log) + 1
        /\ DOMAIN log' = 1 .. Len(log) + 1 /\ log' \in Seq(Callers)
        /\ log'[Len(log) + 1] = c /\ \A i \in 1 .. Len(log) : log'[i] = log[i]
    BY <1>1, <1>2, SMTT(30)
  <1>4. Len(G) \in Nat /\ DOMAIN G = 1 .. Len(G) /\ Len(G) \in 1 .. Len(G) /\ G[Len(G)] = c
    <2>1. G # << >> /\ G[Len(G)] = c
      BY <1>1, LeaseAssumption, Zenon DEF OwnershipInv, GrantInv
    <2> QED
      BY <1>1, <2>1, SMTT(30)
  <1>5. /\ TypeOK'
        /\ \A d \in Callers \ {c} : /\ call'[d] = call[d] /\ worker'[d] = worker[d]
                                    /\ lease'[d] = lease[d] /\ net'[d] = net[d]
    <2>1. server' \in [token : Callers \cup {None}, exp : Nat, granted : Seq(Callers)]
      BY <1>1, <1>2, Zenon DEF TypeOK
    <2> QED
      BY <1>1, <1>3, <2>1, TakenTypes, Zenon
  <1>6. /\ \A d \in Callers : Granted(d)' <=> Granted(d)
        /\ \A d \in Callers : \A t \in Nat : Covers(d, t) => Covers(d, t)'
    BY <1>1, <1>2, Zenon DEF Granted, Covers
  <1>7. AskInv(c)' /\ ReleaseInv(c)' /\ CoverInv(c)'
    BY <1>1, <1>5, <1>6, TakenRequest, Zenon
  <1>8. \A i \in 1 .. Len(log) + 1 : \E k \in 1 .. Len(G) : G[k] = log'[i]
    <2>1. \A i \in 1 .. Len(log) : \E k \in 1 .. Len(G) : G[k] = log[i]
      BY <1>3, <1>4, Zenon DEF OwnershipInv, GrantInv, Granted
    <2>2. ASSUME NEW i \in 1 .. Len(log) + 1 PROVE \E k \in 1 .. Len(G) : G[k] = log'[i]
      <3>1. CASE i = Len(log) + 1
        BY <1>3, <1>4, <3>1, Zenon
      <3>2. CASE i # Len(log) + 1
        <4>1. i \in 1 .. Len(log) /\ log'[i] = log[i]
          BY <1>3, <3>2, SMTT(30)
        <4> QED
          BY <2>1, <4>1, Zenon
      <3> QED
        BY <3>1, <3>2, Zenon
    <2> QED
      BY <2>2, Zenon
  <1>9. GrantInv'
    <2>1. (\A i \in DOMAIN log : Granted(log[i]))'
      BY <1>2, <1>3, <1>4, <1>8, Zenon DEF Granted
    <2> QED
      BY <1>1, <1>2, <2>1, Zenon DEF OwnershipInv, GrantInv
  <1>10. WritesFollowGrants'
    <2>1. ASSUME NEW i \in 1 .. Len(log) + 1, NEW j \in 1 .. Len(log) + 1, i < j
          PROVE  \E g, h \in 1 .. Len(G) :
                    /\ G[g] = log'[i] /\ G[h] = log'[j]
                    /\ g <= h
                    /\ \A k \in 1 .. Len(G) : G[k] = log'[i] => k <= h
      <3>1. CASE j = Len(log) + 1
        <4>1. PICK g \in 1 .. Len(G) : G[g] = log'[i]
          BY <1>8, Zenon
        <4> QED
          BY <1>3, <1>4, <3>1, <4>1, SMTT(30)
      <3>2. CASE j # Len(log) + 1
        <4>1. i \in 1 .. Len(log) /\ j \in 1 .. Len(log)
          BY <1>3, <2>1, <3>2, SMTT(30)
        <4>2. log'[i] = log[i] /\ log'[j] = log[j]
          BY <1>3, <4>1, Zenon
        <4> QED
          <5>1. PICK g \in 1 .. Len(G), h \in 1 .. Len(G) :
                    /\ G[g] = log[i] /\ G[h] = log[j] /\ g <= h
                    /\ \A k \in 1 .. Len(G) : G[k] = log[i] => k <= h
            BY <1>0, <2>1, <4>1, Zenon DEF WritesFollowGrants, FollowGrants
          <5> QED
            BY <4>2, <5>1, Zenon
      <3> QED
        BY <3>1, <3>2, Zenon
    <2>2. server'.granted = G /\ Len(log') = Len(log) + 1
      BY <1>2, <1>3, Zenon
    <2> HIDE DEF G
    <2>3. \A i, j \in 1 .. Len(log') : i < j =>
              \E g, h \in 1 .. Len(G) :
                  /\ G[g] = log'[i] /\ G[h] = log'[j]
                  /\ g <= h
                  /\ \A k \in 1 .. Len(G) : G[k] = log'[i] => k <= h
      <3> TAKE i, j \in 1 .. Len(log')
      <3> HAVE i < j
      <3>1. i \in 1 .. Len(log) + 1 /\ j \in 1 .. Len(log) + 1
        BY <2>2, Zenon
      <3> QED
        BY <2>1, <3>1, Zenon
    <2>4. FollowGrants(log', G)
      BY <2>3, Zenon DEF FollowGrants
    <2> QED
      BY <2>2, <2>4, Zenon DEF WritesFollowGrants
  <1> QED
    BY <1>1, <1>5, <1>6, <1>7, <1>9, <1>10, ServerStep, Zenon

\* A request that finds the lock in other hands changes nothing.
LEMMA RefusedPreserves ==
    ASSUME OwnershipInv, NEW c \in Callers, Serve(c),
           \/ Head(net[c]) = "set" /\ ~Free
           \/ Head(net[c]) \in {"renew", "write"} /\ ~HeldBy(c)
           \/ Head(net[c]) = "release" /\ server.token # c
    PROVE  OwnershipInv'
  <1>1. server' = server /\ log' = log
    BY Zenon DEF Serve, Acquires, Renews, Releases, Writes
  <1>2. /\ Answer(c, Head(net[c])) \in {"yes", "no"}
        /\ Answer(c, Head(net[c])) = "yes" => Head(net[c]) \notin {"set", "renew"}
    BY Zenon DEF Answer
  <1>3. /\ net[c] # << >> /\ net' = [net EXCEPT ![c] = Tail(@)] /\ UNCHANGED <<now, call>>
        /\ Answered(c, Head(net[c]), Answer(c, Head(net[c])))
        /\ {"yes", "no"} \subseteq Replies \ {None}
    BY ServeFacts, Zenon
  <1> QED
    BY <1>1, <1>2, <1>3, IdleRequest, Zenon

\* The server executes a request.
LEMMA ServePreserves ==
    ASSUME OwnershipInv, NEW c \in Callers, Serve(c)
    PROVE  OwnershipInv'
  <1>1. Head(net[c]) \in {"set", "renew", "release", "write"}
    BY ServeFacts, Zenon DEF Requests
  <1> QED
    BY <1>1, GrantPreserves, RenewPreserves, ReleasePreserves, WriteServedPreserves,
       RefusedPreserves, Zenon

\* Time passes: no deadline comes back.
LEMMA TickPreserves ==
    ASSUME OwnershipInv, Tick
    PROVE  OwnershipInv'
  <1>1. /\ TypeOK /\ now \in Nat /\ now' = now + 1
        /\ UNCHANGED <<server, net, call, worker, lease, log>>
    BY Zenon DEF OwnershipInv, Tick, TypeOK
  <1>2. TypeOK'
    BY <1>1, SMTT(30) DEF TypeOK
  <1>3. GrantInv' /\ WritesFollowGrants'
    <2>1. server.exp \in Nat /\ Ttl \in Nat
      BY <1>1, LeaseAssumption, Zenon DEF TypeOK
    <2>2. GrantInv'
      BY <1>1, <2>1, SMTT(30) DEF OwnershipInv, GrantInv, Granted
    <2>3. WritesFollowGrants'
      BY <1>1, Zenon DEF OwnershipInv, WritesFollowGrants
    <2> QED
      BY <2>2, <2>3, Zenon
  <1>4. ASSUME NEW d \in Callers PROVE AskInv(d)' /\ ReleaseInv(d)' /\ CoverInv(d)'
    <2>1. (Granted(d)' <=> Granted(d)) /\ \A t \in Nat : Covers(d, t) => Covers(d, t)'
      BY <1>1, SMTT(30) DEF Granted, Covers
    <2> QED
      BY <1>1, <2>1, OtherCaller, SMTT(30)
  <1> QED
    BY <1>2, <1>3, <1>4, Zenon DEF OwnershipInv

-------------------------------------------------------------------------------
(* The theorems. *)

\* Nobody has asked yet.
LEMMA InitOwnership == Init => OwnershipInv
  <1> SUFFICES ASSUME Init PROVE OwnershipInv
    BY Zenon
  <1>1. TypeOK
    <2>1. worker \in [Callers -> WorkerStates]
      BY WorkerAtTypes, Zenon DEF Init
    <2>2. lease \in [Callers -> LeaseStates]
      BY Zenon DEF Init, LeaseStates, Replies
    <2>3. call \in [Callers -> CallStates]
      BY Zenon DEF Init, CallStates
    <2>4. /\ server \in [token : Callers \cup {None}, exp : Nat, granted : Seq(Callers)]
          /\ now \in Nat /\ log \in Seq(Callers) /\ net \in [Callers -> Seq(Requests)]
      BY SMTT(30) DEF Init
    <2> QED
      BY <2>1, <2>2, <2>3, <2>4, Zenon DEF TypeOK
  <1>2. GrantInv /\ WritesFollowGrants
    BY LeaseAssumption, SMTT(30) DEF Init, GrantInv, WritesFollowGrants, FollowGrants
  <1>3. ASSUME NEW c \in Callers PROVE AskInv(c) /\ ReleaseInv(c) /\ CoverInv(c)
    <2>1. ~Granted(c) /\ AsksOnce(c) /\ \A r : ~Pending(c, r)
      BY SMTT(30) DEF Init, Granted, AsksOnce, Pending
    <2>2. /\ call[c].pc = "idle" /\ worker[c].pc = "idle" /\ worker[c].reply = None
          /\ worker[c].result = "none"
          /\ lease[c].state = "None" /\ lease[c].renewal = "gone" /\ lease[c].cleanup = "none"
          /\ lease[c].reply = None
      BY Zenon DEF Init, WorkerAt
    <2> QED
      BY <2>1, <2>2, Zenon DEF AskInv, ReleaseInv, CoverInv
  <1> QED
    BY <1>1, <1>2, <1>3, Zenon DEF OwnershipInv

LEMMA StutterOwnership == OwnershipInv /\ UNCHANGED vars => OwnershipInv'
  <1> SUFFICES ASSUME OwnershipInv, UNCHANGED vars PROVE OwnershipInv'
    BY Zenon
  <1>1. /\ UNCHANGED <<now, server, log>> /\ TypeOK'
        /\ call' = call /\ worker' = worker /\ lease' = lease /\ net' = net
    BY Zenon DEF OwnershipInv, TypeOK, vars
  <1>2. GrantInv' /\ WritesFollowGrants'
    <2>1. UNCHANGED <<now, server, log>> /\ GrantInv /\ WritesFollowGrants
      BY <1>1, Zenon DEF OwnershipInv
    <2>2. GrantInv'
      BY <2>1, Zenon DEF GrantInv, Granted
    <2>3. WritesFollowGrants'
      BY <2>1, Zenon DEF WritesFollowGrants
    <2> QED
      BY <2>2, <2>3, Zenon
  <1>3. ASSUME NEW d \in Callers PROVE AskInv(d)' /\ ReleaseInv(d)' /\ CoverInv(d)'
    <2>1. (Granted(d)' <=> Granted(d)) /\ \A t \in Nat : Covers(d, t) => Covers(d, t)'
      BY <1>1, Zenon DEF Granted, Covers
    <2>2. now' \in Nat /\ now <= now'
      BY <1>1, SMTT(30) DEF TypeOK
    <2> QED
      BY <1>1, <2>1, <2>2, OtherCaller, Zenon
  <1> QED
    BY <1>1, <1>2, <1>3, Zenon DEF OwnershipInv

LEMMA NextOwnership == OwnershipInv /\ [Next]_vars => OwnershipInv'
  <1> SUFFICES ASSUME OwnershipInv, [Next]_vars PROVE OwnershipInv'
    BY Zenon
  <1>1. CASE UNCHANGED vars
    BY <1>1, StutterOwnership, Zenon
  <1>2. CASE Tick
    BY <1>2, TickPreserves, Zenon
  <1>3. ASSUME NEW c \in Callers, Serve(c) \/ Lose(c) \/ Worker(c) \/ Holder(c) \/ Caller(c)
        PROVE  OwnershipInv'
    <2>1. CASE \E w \in Waits : Start(c, w)
      BY <2>1, StartPreserves, Zenon
    <2>2. CASE Try(c)
      BY <2>2, TryGivesUpPreserves, TryAsksPreserves, Zenon
    <2>3. CASE SetTimesOut(c)
      BY <2>3, SetTimesOutPreserves, Zenon
    <2>4. CASE SetFails(c)
      BY <2>4, SetFailsPreserves, Zenon
    <2>5. CASE SetRefused(c)
      BY <2>5, SetRefusedGivesUpPreserves, SetRefusedAgainPreserves, Zenon
    <2>6. CASE SetGranted(c)
      BY <2>6, SetGrantedPreserves, Zenon
    <2>7. CASE SetTooLate(c)
      BY <2>7, SetTooLatePreserves, Zenon
    <2>8. CASE Abandon(c)
      BY <2>8, AbandonPreserves, Zenon
    <2>9. CASE SendResult(c)
      BY <2>9, SendResultPreserves, Zenon
    <2>10. CASE RenewalWakes(c)
      BY <2>10, RenewalEndsPreserves, RenewalLapsesPreserves,
         RenewalAsksPreserves, Zenon
    <2>11. CASE Renewed(c)
      BY <2>11, RenewedKeepsPreserves, RenewedLosesPreserves, Zenon
    <2>12. CASE RenewalFails(c)
      BY <2>12, RenewalFailsPreserves, Zenon
    <2>13. CASE Cleanup(c)
      BY <2>13, CleanupPreserves, Zenon
    <2>14. CASE Receive(c)
      BY <2>14, ReceivePreserves, Zenon
    <2>15. CASE Leave(c)
      BY <2>15, LeavePreserves, Zenon
    <2>16. CASE EndLease(c)
      BY <2>16, EndLeasePreserves, Zenon
    <2>17. CASE Write(c)
      BY <2>17, WritePreserves, Zenon
    <2>18. CASE ProofFails(c)
      BY <2>18, ProofFailsPreserves, Zenon
    <2>19. CASE Serve(c)
      BY <2>19, ServePreserves, Zenon
    <2>20. CASE Lose(c)
      BY <2>20, LosePreserves, Zenon
    <2> QED
      BY <1>3, <2>1, <2>2, <2>3, <2>4, <2>5, <2>6, <2>7, <2>8, <2>9, <2>10, <2>11, <2>12,
         <2>13, <2>14, <2>15, <2>16, <2>17, <2>18, <2>19, <2>20, Zenon
      DEF Worker, Holder, Caller
  <1> QED
    BY <1>1, <1>2, <1>3, Zenon DEF Next

\* The parts of the inductive invariant hold in every behaviour: one request per caller at
\* a time, releases only of leases that were given up, and every confirmed deadline within
\* the server's.
THEOREM OwnershipInvariant == Spec => []OwnershipInv
  <1> QED
    BY InitOwnership, NextOwnership, PTL DEF Spec

\* Token leases, for any number of callers, any TTL, any delays and lost requests: a lease
\* that passes the local check of proof() is held at the server, and fenced writes reach
\* the value in the order of the grants (acquire_owned_supervised, run_renewal,
\* write_with_lease).
THEOREM LeaseSafe == Spec => []LeaseInv
  <1>1. OwnershipInv => LeaseInv
    <2> SUFFICES ASSUME OwnershipInv PROVE LeaseInv
      BY Zenon
    <2>1. TypeOK /\ WritesFollowGrants
      BY Zenon DEF OwnershipInv
    <2>2. ASSUME NEW c \in Callers, lease[c].state = "Held", now < lease[c].until
          PROVE  server.token = c /\ now < server.exp
      <3>1. server.token = c /\ lease[c].until <= server.exp
        BY <2>2, Zenon DEF OwnershipInv, CoverInv, Covers
      <3>2. now \in Nat /\ server.exp \in Nat /\ lease[c].until \in Nat
        BY <2>1, Zenon DEF TypeOK, LeaseStates
      <3> QED
        BY <2>2, <3>1, <3>2, SMTT(30)
    <2> QED
      BY <2>1, <2>2, Zenon DEF LeaseInv, ValidIsHeld, LocallyValid, HeldBy
  <1> QED
    BY <1>1, OwnershipInvariant, PTL

\* One step of the state of a lease: Held is entered once, from None.
LEMMA LostStep ==
    ASSUME OwnershipInv, [Next]_vars
    PROVE  \A c \in Callers : lease[c].state \in {"Lost", "Released"} => lease'[c].state # "Held"
  <1> SUFFICES ASSUME NEW c \in Callers, lease[c].state \in {"Lost", "Released"}
               PROVE  lease'[c].state # "Held"
    BY Zenon
  <1>1. TypeOK /\ AskInv(c)
    BY Zenon DEF OwnershipInv
  <1>2. lease \in [Callers -> LeaseStates]
    BY <1>1, Zenon DEF TypeOK
  <1>3. CASE UNCHANGED vars
    BY <1>3, Zenon DEF vars
  <1>4. CASE Tick
    BY <1>4, Zenon DEF Tick
  <1>5. ASSUME NEW d \in Callers, Serve(d) \/ Lose(d)
        PROVE  lease'[c].state # "Held"
    <2>1. \E r, a : Answered(d, r, a)
      BY <1>5, Zenon DEF Serve, Lose
    <2> QED
      BY <1>2, <2>1, Zenon DEF Answered, LeaseStates
  <1>6. ASSUME NEW d \in Callers, Worker(d) PROVE lease'[c].state # "Held"
    <2>1. CASE SetGranted(d)
      <3>1. d # c
        <4>1. worker[d].pc = "set"
          BY <2>1, Zenon DEF SetGranted
        <4> QED
          BY <1>1, <4>1, Zenon DEF AskInv
      <3> QED
        BY <1>2, <2>1, <3>1, Zenon DEF SetGranted, LeaseStates
    <2>2. CASE SendResult(d)
      BY <1>2, <2>2, SMTT(30) DEF SendResult, StopRenewal, LeaseStates
    <2>3. CASE ~(SetGranted(d) \/ SendResult(d))
      <3>1. lease' = lease
        BY <1>6, <2>3, Zenon
           DEF Worker, Try, SetTimesOut, SetFails, SetRefused, SetTooLate, Abandon
      <3> QED
        BY <3>1, Zenon
    <2> QED
      BY <2>1, <2>2, <2>3, Zenon
  <1>7. ASSUME NEW d \in Callers, Holder(d) PROVE lease'[c].state # "Held"
    <2>1. CASE RenewalWakes(d)
      BY <1>2, <2>1, Zenon DEF RenewalWakes, Loses, LeaseStates
    <2>2. CASE Renewed(d)
      BY <1>2, <2>2, SMTT(30) DEF Renewed, Loses, LeaseStates
    <2>3. CASE RenewalFails(d)
      BY <1>2, <2>3, Zenon DEF RenewalFails, Loses, LeaseStates
    <2>4. CASE Cleanup(d)
      BY <1>2, <2>4, Zenon DEF Cleanup, LeaseStates
    <2> QED
      BY <1>7, <2>1, <2>2, <2>3, <2>4, Zenon DEF Holder
  <1>8. ASSUME NEW d \in Callers, Caller(d) PROVE lease'[c].state # "Held"
    <2>1. CASE Leave(d)
      BY <1>2, <2>1, SMTT(30) DEF Leave, StopRenewal, LeaseStates
    <2>2. CASE EndLease(d)
      BY <1>2, <2>2, SMTT(30) DEF EndLease, StopRenewal, LeaseStates
    <2>3. CASE ProofFails(d)
      BY <1>2, <2>3, Zenon DEF ProofFails, LeaseStates
    <2>4. CASE ~(Leave(d) \/ EndLease(d) \/ ProofFails(d))
      <3>1. lease' = lease
        BY <1>8, <2>4, Zenon DEF Caller, Start, Receive, Write
      <3> QED
        BY <3>1, Zenon
    <2> QED
      BY <2>1, <2>2, <2>3, <2>4, Zenon
  <1> QED
    BY <1>3, <1>4, <1>5, <1>6, <1>7, <1>8, Zenon DEF Next

\* "A lost lease cannot silently become valid again" (LeaseState), whatever renewals or
\* acquisitions are still on their way.
THEOREM LostIsFinal == Spec => LostStaysLost
  <1>1. OwnershipInv /\ [Next]_vars
            => [\A c \in Callers : lease[c].state \in {"Lost", "Released"}
                                       => lease'[c].state # "Held"]_vars
    BY LostStep, Zenon
  <1> QED
    BY <1>1, OwnershipInvariant, PTL DEF Spec, LostStaysLost

===============================================================================
