-------------------------- MODULE RedisBackplaneProofs --------------------------
(***************************************************************************)
(* Proofs about the supervised subscriber of RedisBackplane, for any sets  *)
(* of messages, publishers and shutdown calls, any relay capacity and any  *)
(* bounds.                                                                 *)
(***************************************************************************)
EXTENDS RedisBackplane, TLAPS

\* What a sequence of frames holds.
Elems(q) == {q[k] : k \in DOMAIN q}

LEMMA ElemsEmpty == Elems(<< >>) = {}
  BY SMTT(30) DEF Elems

LEMMA ElemsAppend ==
    ASSUME NEW S, NEW q \in Seq(S), NEW e \in S
    PROVE  Elems(Append(q, e)) = Elems(q) \cup {e}
  <1>1. /\ DOMAIN Append(q, e) = 1 .. (Len(q) + 1) /\ DOMAIN q = 1 .. Len(q) /\ Len(q) \in Nat
        /\ \A k \in 1 .. Len(q) : Append(q, e)[k] = q[k]
        /\ Append(q, e)[Len(q) + 1] = e
    BY SMTT(30)
  <1>2. \A x \in Elems(Append(q, e)) : x \in Elems(q) \cup {e}
    BY <1>1, SMTT(30) DEF Elems
  <1>3. \A x \in Elems(q) \cup {e} : x \in Elems(Append(q, e))
    BY <1>1, SMTT(30) DEF Elems
  <1> QED
    BY <1>2, <1>3, Zenon

LEMMA HeadTail ==
    ASSUME NEW S, NEW q \in Seq(S), q # << >>
    PROVE  /\ Head(q) \in S /\ Tail(q) \in Seq(S) /\ Len(Tail(q)) = Len(q) - 1
           /\ Elems(q) = {Head(q)} \cup Elems(Tail(q))
  <1>1. /\ Head(q) \in S /\ Tail(q) \in Seq(S) /\ Len(Tail(q)) = Len(q) - 1
        /\ Head(q) = q[1] /\ Len(q) \in Nat \ {0}
        /\ DOMAIN q = 1 .. Len(q) /\ DOMAIN Tail(q) = 1 .. (Len(q) - 1)
        /\ \A k \in 1 .. (Len(q) - 1) : Tail(q)[k] = q[k + 1]
    BY SMTT(30)
  <1>2. ASSUME NEW k \in 1 .. Len(q)
        PROVE  q[k] \in {Head(q)} \cup Elems(Tail(q))
    <2>1. CASE k = 1
      BY <1>1, <2>1, Zenon
    <2>2. CASE k # 1
      <3>1. k - 1 \in 1 .. (Len(q) - 1) /\ (k - 1) + 1 = k
        BY <1>1, <2>2, SMTT(30)
      <3>2. Tail(q)[k - 1] = q[k]
        BY <1>1, <3>1, Zenon
      <3> QED
        BY <1>1, <3>1, <3>2, Zenon DEF Elems
    <2> QED
      BY <2>1, <2>2, Zenon
  <1>3. ASSUME NEW k \in 1 .. (Len(q) - 1)
        PROVE  Tail(q)[k] \in Elems(q)
    <2>1. k + 1 \in 1 .. Len(q) /\ Tail(q)[k] = q[k + 1]
      BY <1>1, SMTT(30)
    <2> QED
      BY <1>1, <2>1, Zenon DEF Elems
  <1>4. Head(q) \in Elems(q)
    BY <1>1, SMTT(30) DEF Elems
  <1>5. \A x \in Elems(q) : x \in {Head(q)} \cup Elems(Tail(q))
    BY <1>1, <1>2, Zenon DEF Elems
  <1>6. \A x \in Elems(Tail(q)) : x \in Elems(q)
    BY <1>1, <1>3, Zenon DEF Elems
  <1> QED
    BY <1>1, <1>4, <1>5, <1>6, Zenon

\* A send to the relay: what was there is kept, or the loss is recorded.
LEMMA SendFacts ==
    ASSUME relay \in Seq(Frames), Len(relay) <= Capacity, missed \in BOOLEAN,
           NEW f \in Frames, Send(f)
    PROVE  /\ relay' \in Seq(Frames) /\ Len(relay') <= Capacity /\ missed' \in BOOLEAN
           /\ ~missed' => ~missed /\ relay' = Append(relay, f)
  <1>0. Len(relay) \in Nat /\ Capacity \in Nat \ {0}
    BY BackplaneAssumption, SMTT(30)
  <1>1. CASE Len(relay) < Capacity
    BY <1>0, <1>1, SMTT(30) DEF Send
  <1>2. CASE ~(Len(relay) < Capacity)
    <2>1. relay' = Append(Tail(relay), f) /\ missed' = TRUE
      BY <1>2, Zenon DEF Send
    <2>2. relay # << >>
      BY <1>0, <1>2, SMTT(30)
    <2>3. Tail(relay) \in Seq(Frames) /\ Len(Tail(relay)) = Len(relay) - 1
      BY <2>2, HeadTail, Zenon
    <2> QED
      BY <1>0, <2>1, <2>3, SMTT(30)
  <1> QED
    BY <1>1, <1>2, Zenon

\* The supervisor has a connection and has lost nothing of it; n is on its way.
Caught ==
    state.kind = "Connected" /\ pc = "recv" /\ sock[incarnation] = "subscribed" /\ ~missed
OnWire(n) == \E f \in Elems(wire[incarnation]) : f.msg = n
InRelay(n) == \E f \in Elems(relay) : f.inc = incarnation /\ f.msg = n

LEMMA DeliveryElems ==
    ASSUME DeliveryInv
    PROVE  /\ \A j \in Incarnations : \A f \in Elems(wire[j]) : f.inc = j
           /\ Caught => \A n \in Messages : at[n] = state.epoch =>
                n \in seen \/ OnWire(n) \/ InRelay(n)
  BY Zenon DEF DeliveryInv, Caught, OnWire, InRelay, Elems

LEMMA DeliveryFrom ==
    ASSUME \A j \in Incarnations : \A f \in Elems(wire'[j]) : f.inc = j,
           \A n \in Messages : at'[n] # None => at'[n] <= state'.epoch,
           Booting' => \A n \in Messages : at'[n] \in {None, 0},
           Caught' => \A n \in Messages : at'[n] = state'.epoch =>
               n \in seen' \/ OnWire(n)' \/ InRelay(n)'
    PROVE  DeliveryInv'
  BY SMTT(30) DEF DeliveryInv, Caught, OnWire, InRelay, Elems

-------------------------------------------------------------------------------
(* Every action preserves the inductive invariant. *)

\* A step that moves no message and opens no epoch.
LEMMA DeliveryFrame ==
    ASSUME DeliveryInv,
           UNCHANGED <<at, wire, relay, missed, seen, incarnation>>,
           state'.epoch = state.epoch,
           Booting' => Booting,
           state'.kind = "Connected" /\ pc' = "recv" /\ sock'[incarnation] = "subscribed"
               => state.kind = "Connected" /\ pc = "recv" /\ sock[incarnation] = "subscribed"
    PROVE  DeliveryInv'
  BY Zenon DEF DeliveryInv

\* A message on its way is on the wire of the subscribed socket.
LEMMA RemotePublishPreserves ==
    ASSUME BackplaneInv, NEW m \in Messages, RemotePublish(m)
    PROVE  BackplaneInv'
  <1> TypeOK /\ HealthInv /\ SocketInv /\ ShutdownInv /\ DeliveryInv
    BY Zenon DEF BackplaneInv
  <1> USE BackplaneAssumption DEF Booting, Incarnations, net, health, closing, RemotePublish
  <1>0. PICK k \in {"Message", "Malformed", "Unknown"} :
            /\ k # "Message" => faults < MaxFaults
            /\ faults' = IF k = "Message" THEN faults ELSE faults + 1
            /\ wire' = [i \in Incarnations |->
                            IF sock[i] = "subscribed" THEN Append(wire[i], Frame(i, k, m)) ELSE wire[i]]
    BY Zenon
  <1>a. \A i \in Incarnations : Frame(i, k, m) \in Frames /\ Frame(i, k, m).inc = i /\ Frame(i, k, m).msg = m
    BY Zenon DEF Frames, Frame
  <1>1. TypeOK'
    <2>1. at' \in [Messages -> 0..MaxIncarnation \cup {None}]
      BY SMTT(30) DEF TypeOK
    <2>2. faults' \in 0..MaxFaults
      BY <1>0, SMTT(30) DEF TypeOK
    <2>3. wire' \in [Incarnations -> Seq(Frames)]
      BY <1>0, <1>a, SMTT(30) DEF TypeOK
    <2> QED
      BY <2>1, <2>2, <2>3, SMTT(30) DEF TypeOK
  <1>2. HealthInv'
    BY Zenon DEF TypeOK, HealthInv, SocketInv, ShutdownInv
  <1>3. SocketInv'
    BY Zenon DEF TypeOK, HealthInv, SocketInv, ShutdownInv
  <1>4. ShutdownInv'
    BY Zenon DEF TypeOK, HealthInv, SocketInv, ShutdownInv
  <1>5. DeliveryInv'
    <2>1. \A j \in Incarnations : \A f \in Elems(wire'[j]) : f.inc = j
      <3>1. ASSUME NEW j \in Incarnations
            PROVE  Elems(wire'[j]) \subseteq Elems(wire[j]) \cup {Frame(j, k, m)}
        <4>1. wire'[j] = wire[j] \/ wire'[j] = Append(wire[j], Frame(j, k, m))
          BY <1>0, Zenon
        <4>2. Elems(Append(wire[j], Frame(j, k, m))) = Elems(wire[j]) \cup {Frame(j, k, m)}
          BY <1>a, ElemsAppend, SMTT(30) DEF TypeOK
        <4> QED
          BY <4>1, <4>2, Zenon
      <3> QED
        BY <1>a, <3>1, DeliveryElems, ZenonT(30)
    <2>2. /\ \A n \in Messages : at'[n] # None => at'[n] <= state'.epoch
          /\ Booting' => \A n \in Messages : at'[n] \in {None, 0}
      BY SMTT(30) DEF TypeOK, HealthInv, DeliveryInv
    <2>3. ASSUME Caught', NEW n \in Messages, at'[n] = state'.epoch
          PROVE  n \in seen' \/ OnWire(n)' \/ InRelay(n)'
      <3>1. Caught /\ UNCHANGED <<seen, incarnation, state, relay>>
        BY <2>3, Zenon DEF Caught
      <3>2. wire'[incarnation] = Append(wire[incarnation], Frame(incarnation, k, m))
        BY <1>0, <3>1, Zenon DEF TypeOK, Caught
      <3>3. Elems(wire'[incarnation]) = Elems(wire[incarnation]) \cup {Frame(incarnation, k, m)}
        BY <1>a, <3>2, ElemsAppend, SMTT(30) DEF TypeOK
      <3>4. CASE n = m
        BY <1>a, <3>1, <3>3, <3>4, Zenon DEF TypeOK, OnWire
      <3>5. CASE n # m
        <4>1. at[n] = state.epoch
          BY <2>3, <3>1, <3>5, Zenon DEF TypeOK
        <4>2. n \in seen \/ OnWire(n) \/ InRelay(n)
          BY <3>1, <4>1, DeliveryElems, Zenon
        <4> QED
          BY <3>1, <3>3, <4>2, Zenon DEF OnWire, InRelay
      <3> QED
        BY <3>4, <3>5, Zenon
    <2> QED
      BY <2>1, <2>2, <2>3, DeliveryFrom, Zenon
  <1> QED
    BY <1>1, <1>2, <1>3, <1>4, <1>5, Zenon DEF BackplaneInv

\* A frame moves from the wire to the relay, which keeps it or records the loss.
LEMMA PushFramePreserves ==
    ASSUME BackplaneInv, NEW i \in Incarnations, PushFrame(i)
    PROVE  BackplaneInv'
  <1> TypeOK /\ HealthInv /\ SocketInv /\ ShutdownInv /\ DeliveryInv
    BY Zenon DEF BackplaneInv
  <1> USE BackplaneAssumption DEF Booting, Incarnations, net, health, closing, PushFrame
  <1>0. Head(wire[i]) \in Frames
    BY HeadTail, Zenon DEF TypeOK
  <1>a. /\ relay' \in Seq(Frames) /\ Len(relay') <= Capacity /\ missed' \in BOOLEAN
        /\ ~missed' => ~missed /\ relay' = Append(relay, Head(wire[i]))
    BY <1>0, SendFacts, Zenon DEF TypeOK
  <1>1. TypeOK'
    <2>1. wire' \in [Incarnations -> Seq(Frames)]
      BY HeadTail, Zenon DEF TypeOK
    <2> HIDE DEF PushFrame, Incarnations
    <2>2. UNCHANGED <<incarnation, health, stop, subscriber, pc, epoch, sock, seen, at, call, faults, closing>>
      BY Zenon DEF PushFrame
    <2> QED
      BY <1>a, <2>1, <2>2, SMTT(30) DEF TypeOK
  <1>2. HealthInv'
    BY Zenon DEF TypeOK, HealthInv, SocketInv, ShutdownInv
  <1>3. SocketInv'
    BY Zenon DEF TypeOK, HealthInv, SocketInv, ShutdownInv
  <1>4. ShutdownInv'
    BY Zenon DEF TypeOK, HealthInv, SocketInv, ShutdownInv
  <1>5. DeliveryInv'
    <2>1. \A j \in Incarnations : \A f \in Elems(wire'[j]) : f.inc = j
      <3>1. ASSUME NEW j \in Incarnations
            PROVE  Elems(wire'[j]) \subseteq Elems(wire[j])
        <4>1. wire'[j] = wire[j] \/ (j = i /\ wire'[j] = Tail(wire[i]))
          BY Zenon DEF TypeOK
        <4>2. Elems(Tail(wire[i])) \subseteq Elems(wire[i])
          BY HeadTail, Zenon DEF TypeOK
        <4> QED
          BY <4>1, <4>2, Zenon
      <3> QED
        BY <3>1, DeliveryElems, Zenon
    <2>2. /\ \A n \in Messages : at'[n] # None => at'[n] <= state'.epoch
          /\ Booting' => \A n \in Messages : at'[n] \in {None, 0}
      BY Zenon DEF TypeOK, HealthInv, DeliveryInv
    <2>3. ASSUME Caught', NEW n \in Messages, at'[n] = state'.epoch
          PROVE  n \in seen' \/ OnWire(n)' \/ InRelay(n)'
      <3>1. /\ Caught /\ UNCHANGED <<seen, incarnation, at, state>>
            /\ relay' = Append(relay, Head(wire[i]))
        BY <2>3, <1>a, Zenon DEF TypeOK, Caught
      <3>2. n \in seen \/ OnWire(n) \/ InRelay(n)
        BY <2>3, <3>1, DeliveryElems, Zenon
      <3>3. Elems(relay') = Elems(relay) \cup {Head(wire[i])}
        BY <1>0, <3>1, ElemsAppend, SMTT(30) DEF TypeOK
      <3>4. /\ Elems(wire[i]) = {Head(wire[i])} \cup Elems(Tail(wire[i]))
            /\ Head(wire[i]).inc = i
        BY HeadTail, DeliveryElems, SMTT(30) DEF TypeOK
      <3>5. wire'[incarnation] = IF i = incarnation THEN Tail(wire[i]) ELSE wire[incarnation]
        BY Zenon DEF TypeOK
      <3>6. CASE OnWire(n)
        BY <3>1, <3>3, <3>4, <3>5, <3>6, Zenon DEF OnWire, InRelay
      <3>7. CASE n \in seen \/ InRelay(n)
        BY <3>1, <3>3, <3>7, Zenon DEF InRelay
      <3> QED
        BY <3>2, <3>6, <3>7, Zenon
    <2> QED
      BY <2>1, <2>2, <2>3, DeliveryFrom, Zenon
  <1> QED
    BY <1>1, <1>2, <1>3, <1>4, <1>5, Zenon DEF BackplaneInv

\* Frames of a broken socket are lost.
LEMMA SocketDiesPreserves ==
    ASSUME BackplaneInv, NEW i \in Incarnations, SocketDies(i)
    PROVE  BackplaneInv'
  <1> TypeOK /\ HealthInv /\ SocketInv /\ ShutdownInv /\ DeliveryInv
    BY Zenon DEF BackplaneInv
  <1> USE BackplaneAssumption DEF Booting, Incarnations, net, health, closing, SocketDies
  <1>1. TypeOK'
    BY SMTT(30) DEF TypeOK, HealthInv, SocketInv
  <1>2. HealthInv'
    BY Zenon DEF TypeOK, HealthInv, SocketInv, ShutdownInv
  <1>3. SocketInv'
    BY Zenon DEF TypeOK, HealthInv, SocketInv, ShutdownInv
  <1>4. ShutdownInv'
    BY Zenon DEF TypeOK, HealthInv, SocketInv, ShutdownInv
  <1>5. DeliveryInv'
    <2>1. \A j \in Incarnations : \A f \in Elems(wire'[j]) : f.inc = j
      <3>1. ASSUME NEW j \in Incarnations
            PROVE  wire'[j] = << >> \/ wire'[j] = wire[j]
        BY Zenon DEF TypeOK
      <3> QED
        BY <3>1, DeliveryElems, ElemsEmpty, Zenon
    <2>2. /\ \A n \in Messages : at'[n] # None => at'[n] <= state'.epoch
          /\ Booting' => \A n \in Messages : at'[n] \in {None, 0}
      BY Zenon DEF TypeOK, HealthInv, DeliveryInv
    <2>3. ASSUME Caught', NEW n \in Messages, at'[n] = state'.epoch
          PROVE  n \in seen' \/ OnWire(n)' \/ InRelay(n)'
      <3>1. /\ Caught /\ wire'[incarnation] = wire[incarnation]
            /\ UNCHANGED <<relay, seen, incarnation, at>> /\ state'.epoch = state.epoch
        BY <2>3, Zenon DEF TypeOK, HealthInv, Caught
      <3>2. n \in seen \/ OnWire(n) \/ InRelay(n)
        BY <2>3, <3>1, DeliveryElems, Zenon
      <3> QED
        BY <3>1, <3>2, Zenon DEF OnWire, InRelay
    <2> QED
      BY <2>1, <2>2, <2>3, DeliveryFrom, Zenon
  <1> QED
    BY <1>1, <1>2, <1>3, <1>4, <1>5, Zenon DEF BackplaneInv

\* A dropped socket closes.
LEMMA SocketClosesPreserves ==
    ASSUME BackplaneInv, NEW i \in Incarnations, SocketCloses(i)
    PROVE  BackplaneInv'
  <1> TypeOK /\ HealthInv /\ SocketInv /\ ShutdownInv /\ DeliveryInv
    BY Zenon DEF BackplaneInv
  <1> USE BackplaneAssumption DEF Booting, Incarnations, net, health, closing, SocketCloses
  <1>1. TypeOK'
    BY SMTT(30) DEF TypeOK, HealthInv, SocketInv
  <1>2. HealthInv'
    BY Zenon DEF TypeOK, HealthInv, SocketInv, ShutdownInv
  <1>3. SocketInv'
    BY Zenon DEF TypeOK, HealthInv, SocketInv, ShutdownInv
  <1>4. ShutdownInv'
    BY Zenon DEF TypeOK, HealthInv, SocketInv, ShutdownInv
  <1>5. DeliveryInv'
    <2>1. \A j \in Incarnations : \A f \in Elems(wire'[j]) : f.inc = j
      <3>1. ASSUME NEW j \in Incarnations
            PROVE  wire'[j] = << >> \/ wire'[j] = wire[j]
        BY Zenon DEF TypeOK
      <3> QED
        BY <3>1, DeliveryElems, ElemsEmpty, Zenon
    <2>2. /\ \A n \in Messages : at'[n] # None => at'[n] <= state'.epoch
          /\ Booting' => \A n \in Messages : at'[n] \in {None, 0}
      BY Zenon DEF TypeOK, HealthInv, DeliveryInv
    <2>3. ASSUME Caught', NEW n \in Messages, at'[n] = state'.epoch
          PROVE  n \in seen' \/ OnWire(n)' \/ InRelay(n)'
      <3>1. /\ Caught /\ wire'[incarnation] = wire[incarnation]
            /\ UNCHANGED <<relay, seen, incarnation, at>> /\ state'.epoch = state.epoch
        BY <2>3, Zenon DEF TypeOK, HealthInv, Caught
      <3>2. n \in seen \/ OnWire(n) \/ InRelay(n)
        BY <2>3, <3>1, DeliveryElems, Zenon
      <3> QED
        BY <3>1, <3>2, Zenon DEF OnWire, InRelay
    <2> QED
      BY <2>1, <2>2, <2>3, DeliveryFrom, Zenon
  <1> QED
    BY <1>1, <1>2, <1>3, <1>4, <1>5, Zenon DEF BackplaneInv

\* The end of the current socket is a gap, the end of an older one is nothing.
LEMMA PushDisconnectionPreserves ==
    ASSUME BackplaneInv, NEW i \in Incarnations, PushDisconnection(i)
    PROVE  BackplaneInv'
  <1> TypeOK /\ HealthInv /\ SocketInv /\ ShutdownInv /\ DeliveryInv
    BY Zenon DEF BackplaneInv
  <1> USE BackplaneAssumption DEF Booting, Incarnations, net, health, closing, PushDisconnection, Disconnects, Disconnected
  <1>1. TypeOK'
    BY SMTT(30) DEF TypeOK, HealthInv, SocketInv
  <1>2. HealthInv'
    <2>1. CASE incarnation = i
      <3>1. state'.kind # "Connected" /\ state'.epoch = state.epoch /\ (state'.kind = "Stopped" <=> state.kind = "Stopped")
        BY <2>1, Zenon DEF TypeOK
      <3>2. Booting \/ pc = "failed" => state' = state
        BY <2>1, Zenon DEF TypeOK, HealthInv
      <3> QED
        BY <2>1, <3>1, <3>2, Zenon DEF TypeOK, HealthInv
    <2>2. CASE incarnation # i
      BY <2>2, Zenon DEF HealthInv
    <2> QED
      BY <2>1, <2>2, Zenon
  <1>3. SocketInv'
    BY Zenon DEF TypeOK, HealthInv, SocketInv, ShutdownInv
  <1>4. ShutdownInv'
    BY Zenon DEF TypeOK, HealthInv, SocketInv, ShutdownInv
  <1>5. DeliveryInv'
    <2>1. \A j \in Incarnations : \A f \in Elems(wire'[j]) : f.inc = j
      <3>1. ASSUME NEW j \in Incarnations
            PROVE  wire'[j] = << >> \/ wire'[j] = wire[j]
        BY Zenon DEF TypeOK
      <3> QED
        BY <3>1, DeliveryElems, ElemsEmpty, Zenon
    <2>2. /\ \A n \in Messages : at'[n] # None => at'[n] <= state'.epoch
          /\ Booting' => \A n \in Messages : at'[n] \in {None, 0}
      <3>1. state'.epoch = state.epoch /\ UNCHANGED <<at, pc>>
        BY Zenon DEF TypeOK
      <3> QED
        BY <3>1, Zenon DEF DeliveryInv
    <2>3. ASSUME Caught', NEW n \in Messages, at'[n] = state'.epoch
          PROVE  n \in seen' \/ OnWire(n)' \/ InRelay(n)'
      <3>1. /\ Caught /\ wire'[incarnation] = wire[incarnation]
            /\ UNCHANGED <<relay, seen, incarnation, at>> /\ state'.epoch = state.epoch
        BY <2>3, Zenon DEF TypeOK, HealthInv, Caught
      <3>2. n \in seen \/ OnWire(n) \/ InRelay(n)
        BY <2>3, <3>1, DeliveryElems, Zenon
      <3> QED
        BY <3>1, <3>2, Zenon DEF OnWire, InRelay
    <2> QED
      BY <2>1, <2>2, <2>3, DeliveryFrom, Zenon
  <1> QED
    BY <1>1, <1>2, <1>3, <1>4, <1>5, Zenon DEF BackplaneInv

\* The disconnection follows into the relay.
LEMMA PushMarkedPreserves ==
    ASSUME BackplaneInv, NEW i \in Incarnations, PushMarked(i)
    PROVE  BackplaneInv'
  <1> TypeOK /\ HealthInv /\ SocketInv /\ ShutdownInv /\ DeliveryInv
    BY Zenon DEF BackplaneInv
  <1> USE BackplaneAssumption DEF Booting, Incarnations, net, health, closing, PushMarked
  <1>0. Frame(i, "Disconnection", None) \in Frames
    BY Zenon DEF Frames, Frame
  <1>a. /\ relay' \in Seq(Frames) /\ Len(relay') <= Capacity /\ missed' \in BOOLEAN
        /\ ~missed' => ~missed /\ relay' = Append(relay, Frame(i, "Disconnection", None))
    BY <1>0, SendFacts, Zenon DEF TypeOK
  <1>1. TypeOK'
    <2>1. relay' \in Seq(Frames) /\ Len(relay') <= Capacity
      BY <1>a, Zenon
    <2>2. missed' \in BOOLEAN
      BY <1>a, Zenon
    <2>3. sock' \in [Incarnations -> {"none", "open", "subscribed", "dead", "marked", "closing",
                                   "closed"}]
      BY Zenon DEF TypeOK
    <2> QED
      BY <2>1, <2>2, <2>3, SMTT(30) DEF TypeOK
  <1>2. HealthInv'
    BY Zenon DEF TypeOK, HealthInv, SocketInv, ShutdownInv
  <1>3. SocketInv'
    BY Zenon DEF TypeOK, HealthInv, SocketInv, ShutdownInv
  <1>4. ShutdownInv'
    BY Zenon DEF TypeOK, HealthInv, SocketInv, ShutdownInv
  <1>5. DeliveryInv'
    <2>1. \A j \in Incarnations : \A f \in Elems(wire'[j]) : f.inc = j
      BY DeliveryElems, Zenon
    <2>2. /\ \A n \in Messages : at'[n] # None => at'[n] <= state'.epoch
          /\ Booting' => \A n \in Messages : at'[n] \in {None, 0}
      BY Zenon DEF TypeOK, HealthInv, DeliveryInv
    <2>3. ASSUME Caught', NEW n \in Messages, at'[n] = state'.epoch
          PROVE  n \in seen' \/ OnWire(n)' \/ InRelay(n)'
      <3>1. /\ Caught /\ UNCHANGED <<wire, seen, incarnation, at, state>>
        BY <2>3, <1>a, Zenon DEF TypeOK, Caught
      <3>2. n \in seen \/ OnWire(n) \/ InRelay(n)
        BY <2>3, <3>1, DeliveryElems, Zenon
      <3>3. Elems(relay) \subseteq Elems(relay')
        <4>1. relay' = Append(relay, Frame(i, "Disconnection", None)) /\ relay \in Seq(Frames)
          BY <2>3, <1>a, Zenon DEF TypeOK, Caught
        <4> QED
          BY <1>0, <4>1, ElemsAppend, Zenon
      <3> QED
        BY <3>1, <3>2, <3>3, Zenon DEF OnWire, InRelay
    <2> QED
      BY <2>1, <2>2, <2>3, DeliveryFrom, Zenon
  <1> QED
    BY <1>1, <1>2, <1>3, <1>4, <1>5, Zenon DEF BackplaneInv

\* The server subscribes the socket that is being connected.
LEMMA SubscribePreserves ==
    ASSUME BackplaneInv, Subscribe
    PROVE  BackplaneInv'
  <1> TypeOK /\ HealthInv /\ SocketInv /\ ShutdownInv /\ DeliveryInv
    BY Zenon DEF BackplaneInv
  <1> USE BackplaneAssumption DEF Booting, Incarnations, net, health, closing, Subscribe
  <1>1. TypeOK'
    BY SMTT(30) DEF TypeOK, HealthInv, SocketInv
  <1>2. HealthInv'
    BY Zenon DEF TypeOK, HealthInv, SocketInv, ShutdownInv
  <1>3. SocketInv'
    BY Zenon DEF TypeOK, HealthInv, SocketInv, ShutdownInv
  <1>4. ShutdownInv'
    BY Zenon DEF TypeOK, HealthInv, SocketInv, ShutdownInv
  <1>5. DeliveryInv'
    <2>1. /\ UNCHANGED <<at, wire, relay, missed, seen, incarnation>>
          /\ state'.epoch = state.epoch
          /\ Booting' => Booting
          /\ state'.kind = "Connected" /\ pc' = "recv" /\ sock'[incarnation] = "subscribed"
              => state.kind = "Connected" /\ pc = "recv" /\ sock[incarnation] = "subscribed"
      BY Zenon DEF TypeOK, HealthInv, SocketInv
    <2> QED
      BY <2>1, DeliveryFrame, Zenon
  <1> QED
    BY <1>1, <1>2, <1>3, <1>4, <1>5, Zenon DEF BackplaneInv

\* The first socket.
LEMMA OpenBootPreserves ==
    ASSUME BackplaneInv, Open("boot", "boot_ack")
    PROVE  BackplaneInv'
  <1> TypeOK /\ HealthInv /\ SocketInv /\ ShutdownInv /\ DeliveryInv
    BY Zenon DEF BackplaneInv
  <1> USE BackplaneAssumption DEF Booting, Incarnations, net, health, closing, Open
  <1>1. TypeOK'
    BY Zenon DEF TypeOK, HealthInv, SocketInv
  <1>2. HealthInv'
    BY Zenon DEF TypeOK, HealthInv, SocketInv, ShutdownInv
  <1>3. SocketInv'
    BY Zenon DEF TypeOK, HealthInv, SocketInv, ShutdownInv
  <1>4. ShutdownInv'
    BY Zenon DEF TypeOK, HealthInv, SocketInv, ShutdownInv
  <1>5. DeliveryInv'
    <2>1. /\ UNCHANGED <<at, wire, relay, missed, seen, incarnation>>
          /\ state'.epoch = state.epoch
          /\ Booting' => Booting
          /\ state'.kind = "Connected" /\ pc' = "recv" /\ sock'[incarnation] = "subscribed"
              => state.kind = "Connected" /\ pc = "recv" /\ sock[incarnation] = "subscribed"
      BY Zenon DEF TypeOK, HealthInv, SocketInv
    <2> QED
      BY <2>1, DeliveryFrame, Zenon
  <1> QED
    BY <1>1, <1>2, <1>3, <1>4, <1>5, Zenon DEF BackplaneInv

\* A later socket.
LEMMA OpenAgainPreserves ==
    ASSUME BackplaneInv, Open("open", "connect")
    PROVE  BackplaneInv'
  <1> TypeOK /\ HealthInv /\ SocketInv /\ ShutdownInv /\ DeliveryInv
    BY Zenon DEF BackplaneInv
  <1> USE BackplaneAssumption DEF Booting, Incarnations, net, health, closing, Open
  <1>1. TypeOK'
    BY Zenon DEF TypeOK, HealthInv, SocketInv
  <1>2. HealthInv'
    BY Zenon DEF TypeOK, HealthInv, SocketInv, ShutdownInv
  <1>3. SocketInv'
    BY Zenon DEF TypeOK, HealthInv, SocketInv, ShutdownInv
  <1>4. ShutdownInv'
    BY Zenon DEF TypeOK, HealthInv, SocketInv, ShutdownInv
  <1>5. DeliveryInv'
    <2>1. /\ UNCHANGED <<at, wire, relay, missed, seen, incarnation>>
          /\ state'.epoch = state.epoch
          /\ Booting' => Booting
          /\ state'.kind = "Connected" /\ pc' = "recv" /\ sock'[incarnation] = "subscribed"
              => state.kind = "Connected" /\ pc = "recv" /\ sock[incarnation] = "subscribed"
      BY Zenon DEF TypeOK, HealthInv, SocketInv
    <2> QED
      BY <2>1, DeliveryFrame, Zenon
  <1> QED
    BY <1>1, <1>2, <1>3, <1>4, <1>5, Zenon DEF BackplaneInv

\* The first acknowledgement.
LEMMA AckBootPreserves ==
    ASSUME BackplaneInv, Ack("boot_ack", "boot_admit")
    PROVE  BackplaneInv'
  <1> TypeOK /\ HealthInv /\ SocketInv /\ ShutdownInv /\ DeliveryInv
    BY Zenon DEF BackplaneInv
  <1> USE BackplaneAssumption DEF Booting, Incarnations, net, health, closing, Ack
  <1>1. TypeOK'
    BY Zenon DEF TypeOK, HealthInv, SocketInv
  <1>2. HealthInv'
    BY Zenon DEF TypeOK, HealthInv, SocketInv, ShutdownInv
  <1>3. SocketInv'
    BY Zenon DEF TypeOK, HealthInv, SocketInv, ShutdownInv
  <1>4. ShutdownInv'
    BY Zenon DEF TypeOK, HealthInv, SocketInv, ShutdownInv
  <1>5. DeliveryInv'
    <2>1. /\ UNCHANGED <<at, wire, relay, missed, seen, incarnation>>
          /\ state'.epoch = state.epoch
          /\ Booting' => Booting
          /\ state'.kind = "Connected" /\ pc' = "recv" /\ sock'[incarnation] = "subscribed"
              => state.kind = "Connected" /\ pc = "recv" /\ sock[incarnation] = "subscribed"
      BY Zenon DEF TypeOK, HealthInv, SocketInv
    <2> QED
      BY <2>1, DeliveryFrame, Zenon
  <1> QED
    BY <1>1, <1>2, <1>3, <1>4, <1>5, Zenon DEF BackplaneInv

\* A later acknowledgement.
LEMMA AckAgainPreserves ==
    ASSUME BackplaneInv, Ack("connect", "acked")
    PROVE  BackplaneInv'
  <1> TypeOK /\ HealthInv /\ SocketInv /\ ShutdownInv /\ DeliveryInv
    BY Zenon DEF BackplaneInv
  <1> USE BackplaneAssumption DEF Booting, Incarnations, net, health, closing, Ack
  <1>1. TypeOK'
    BY Zenon DEF TypeOK, HealthInv, SocketInv
  <1>2. HealthInv'
    BY Zenon DEF TypeOK, HealthInv, SocketInv, ShutdownInv
  <1>3. SocketInv'
    BY Zenon DEF TypeOK, HealthInv, SocketInv, ShutdownInv
  <1>4. ShutdownInv'
    BY Zenon DEF TypeOK, HealthInv, SocketInv, ShutdownInv
  <1>5. DeliveryInv'
    <2>1. /\ UNCHANGED <<at, wire, relay, missed, seen, incarnation>>
          /\ state'.epoch = state.epoch
          /\ Booting' => Booting
          /\ state'.kind = "Connected" /\ pc' = "recv" /\ sock'[incarnation] = "subscribed"
              => state.kind = "Connected" /\ pc = "recv" /\ sock[incarnation] = "subscribed"
      BY Zenon DEF TypeOK, HealthInv, SocketInv
    <2> QED
      BY <2>1, DeliveryFrame, Zenon
  <1> QED
    BY <1>1, <1>2, <1>3, <1>4, <1>5, Zenon DEF BackplaneInv

\* The constructor fails.
LEMMA OpenFailsBootPreserves ==
    ASSUME BackplaneInv, OpenFails("boot_ack", "failed")
    PROVE  BackplaneInv'
  <1> TypeOK /\ HealthInv /\ SocketInv /\ ShutdownInv /\ DeliveryInv
    BY Zenon DEF BackplaneInv
  <1> USE BackplaneAssumption DEF Booting, Incarnations, net, health, closing, OpenFails, Dropped
  <1>1. TypeOK'
    BY SMTT(30) DEF TypeOK, HealthInv, SocketInv
  <1>2. HealthInv'
    BY Zenon DEF TypeOK, HealthInv, SocketInv, ShutdownInv
  <1>3. SocketInv'
    BY Zenon DEF TypeOK, HealthInv, SocketInv, ShutdownInv
  <1>4. ShutdownInv'
    BY Zenon DEF TypeOK, HealthInv, SocketInv, ShutdownInv
  <1>5. DeliveryInv'
    <2>1. /\ UNCHANGED <<at, wire, relay, missed, seen, incarnation>>
          /\ state'.epoch = state.epoch
          /\ Booting' => Booting
          /\ state'.kind = "Connected" /\ pc' = "recv" /\ sock'[incarnation] = "subscribed"
              => state.kind = "Connected" /\ pc = "recv" /\ sock[incarnation] = "subscribed"
      BY Zenon DEF TypeOK, HealthInv, SocketInv
    <2> QED
      BY <2>1, DeliveryFrame, Zenon
  <1> QED
    BY <1>1, <1>2, <1>3, <1>4, <1>5, Zenon DEF BackplaneInv

\* A reconnection fails.
LEMMA OpenFailsAgainPreserves ==
    ASSUME BackplaneInv, OpenFails("connect", "sleep")
    PROVE  BackplaneInv'
  <1> TypeOK /\ HealthInv /\ SocketInv /\ ShutdownInv /\ DeliveryInv
    BY Zenon DEF BackplaneInv
  <1> USE BackplaneAssumption DEF Booting, Incarnations, net, health, closing, OpenFails, Dropped
  <1>1. TypeOK'
    BY SMTT(30) DEF TypeOK, HealthInv, SocketInv
  <1>2. HealthInv'
    BY Zenon DEF TypeOK, HealthInv, SocketInv, ShutdownInv
  <1>3. SocketInv'
    BY Zenon DEF TypeOK, HealthInv, SocketInv, ShutdownInv
  <1>4. ShutdownInv'
    BY Zenon DEF TypeOK, HealthInv, SocketInv, ShutdownInv
  <1>5. DeliveryInv'
    <2>1. /\ UNCHANGED <<at, wire, relay, missed, seen, incarnation>>
          /\ state'.epoch = state.epoch
          /\ Booting' => Booting
          /\ state'.kind = "Connected" /\ pc' = "recv" /\ sock'[incarnation] = "subscribed"
              => state.kind = "Connected" /\ pc = "recv" /\ sock[incarnation] = "subscribed"
      BY Zenon DEF TypeOK, HealthInv, SocketInv
    <2> QED
      BY <2>1, DeliveryFrame, Zenon
  <1> QED
    BY <1>1, <1>2, <1>3, <1>4, <1>5, Zenon DEF BackplaneInv

\* The first epoch is 1, and no message was published in it yet.
LEMMA BootAdmitPreserves ==
    ASSUME BackplaneInv, BootAdmit
    PROVE  BackplaneInv'
  <1> TypeOK /\ HealthInv /\ SocketInv /\ ShutdownInv /\ DeliveryInv
    BY Zenon DEF BackplaneInv
  <1> USE BackplaneAssumption DEF Booting, Incarnations, net, health, closing, BootAdmit, Admits, Dropped
  <1>1. TypeOK'
    <2>1. state' \in [kind : {"Connected", "Disconnected", "Stopped"}, epoch : 1..MaxIncarnation]
      BY SMTT(30) DEF TypeOK
    <2>2. subscriber' \in Incarnations \cup {None}
      BY Zenon DEF TypeOK
    <2>3. worker' \in BOOLEAN
      BY Zenon DEF TypeOK
    <2>4. pc' \in {"boot", "boot_ack", "boot_admit", "failed", "recv", "reconnect", "drop", "restore",
                  "open", "connect", "acked", "store", "drain", "admit", "regret", "sleep", "gone"}
      BY Zenon DEF TypeOK
    <2>5. sock' \in [Incarnations -> {"none", "open", "subscribed", "dead", "marked", "closing",
                                   "closed"}]
      BY Zenon DEF TypeOK
    <2> QED
      BY <2>1, <2>2, <2>3, <2>4, <2>5, Zenon DEF TypeOK
  <1>2. HealthInv'
    BY SMTT(30) DEF TypeOK, HealthInv, SocketInv, ShutdownInv
  <1>3. SocketInv'
    BY SMTT(30) DEF TypeOK, HealthInv, SocketInv, ShutdownInv
  <1>4. ShutdownInv'
    BY SMTT(30) DEF TypeOK, HealthInv, SocketInv, ShutdownInv
  <1>5. DeliveryInv'
    <2>1. \A j \in Incarnations : \A f \in Elems(wire'[j]) : f.inc = j
      BY DeliveryElems, Zenon
    <2>2. /\ \A n \in Messages : at'[n] # None => at'[n] <= state'.epoch
          /\ Booting' => \A n \in Messages : at'[n] \in {None, 0}
      BY SMTT(30) DEF TypeOK, HealthInv, DeliveryInv
    <2>3. ASSUME Caught', NEW n \in Messages, at'[n] = state'.epoch
          PROVE  n \in seen' \/ OnWire(n)' \/ InRelay(n)'
      <3>1. pc = "boot_admit" /\ pc' = "recv" /\ at' = at /\ state'.epoch = 1
        BY <2>3, SMTT(30) DEF Caught
      <3>2. at[n] \in {None, 0}
        BY <3>1, Zenon DEF DeliveryInv
      <3> QED
        BY <2>3, <3>1, <3>2, SMTT(30)
    <2> QED
      BY <2>1, <2>2, <2>3, DeliveryFrom, Zenon
  <1> QED
    BY <1>1, <1>2, <1>3, <1>4, <1>5, Zenon DEF BackplaneInv

\* The supervisor leaves with the socket it was connecting.
LEMMA StopsPreserves ==
    ASSUME BackplaneInv, Stops
    PROVE  BackplaneInv'
  <1> TypeOK /\ HealthInv /\ SocketInv /\ ShutdownInv /\ DeliveryInv
    BY Zenon DEF BackplaneInv
  <1> USE BackplaneAssumption DEF Booting, Incarnations, net, health, closing, Stops, Dropped
  <1>1. TypeOK'
    BY Zenon DEF TypeOK, HealthInv, SocketInv
  <1>2. HealthInv'
    BY Zenon DEF TypeOK, HealthInv, SocketInv, ShutdownInv
  <1>3. SocketInv'
    BY Zenon DEF TypeOK, HealthInv, SocketInv, ShutdownInv
  <1>4. ShutdownInv'
    BY Zenon DEF TypeOK, HealthInv, SocketInv, ShutdownInv
  <1>5. DeliveryInv'
    <2>1. /\ UNCHANGED <<at, wire, relay, missed, seen, incarnation>>
          /\ state'.epoch = state.epoch
          /\ Booting' => Booting
          /\ state'.kind = "Connected" /\ pc' = "recv" /\ sock'[incarnation] = "subscribed"
              => state.kind = "Connected" /\ pc = "recv" /\ sock[incarnation] = "subscribed"
      BY Zenon DEF TypeOK, HealthInv, SocketInv
    <2> QED
      BY <2>1, DeliveryFrame, Zenon
  <1> QED
    BY <1>1, <1>2, <1>3, <1>4, <1>5, Zenon DEF BackplaneInv

\* A message is handed on; anything else of the current socket starts a reconnect.
LEMMA RecvPreserves ==
    ASSUME BackplaneInv, Recv
    PROVE  BackplaneInv'
  <1> TypeOK /\ HealthInv /\ SocketInv /\ ShutdownInv /\ DeliveryInv
    BY Zenon DEF BackplaneInv
  <1> USE BackplaneAssumption DEF Booting, Incarnations, net, health, closing, Recv
  <1>1. TypeOK'
    <2>1. missed' \in BOOLEAN
      BY Zenon DEF TypeOK
    <2>2. pc' \in {"boot", "boot_ack", "boot_admit", "failed", "recv", "reconnect", "drop", "restore",
                  "open", "connect", "acked", "store", "drain", "admit", "regret", "sleep", "gone"}
      BY Zenon DEF TypeOK
    <2>3. relay' \in Seq(Frames) /\ Len(relay') <= Capacity
      <3>1. relay' = relay \/ (relay # << >> /\ relay' = Tail(relay))
        BY Zenon
      <3>2. relay # << >> => Tail(relay) \in Seq(Frames) /\ Len(Tail(relay)) = Len(relay) - 1
        BY HeadTail, Zenon DEF TypeOK
      <3>3. Len(relay) \in Nat /\ Capacity \in Nat
        BY SMTT(30) DEF TypeOK
      <3>4. relay \in Seq(Frames) /\ Len(relay) <= Capacity
        BY Zenon DEF TypeOK
      <3> HIDE DEF Recv
      <3> QED
        BY <3>1, <3>2, <3>3, <3>4, SMTT(30)
    <2>4. seen' \subseteq Messages
      <3>1. seen' = seen \/ (relay # << >> /\ Head(relay).kind = "Message" /\ seen' = seen \cup {Head(relay).msg})
        BY Zenon
      <3>2. relay # << >> => Head(relay) \in Frames
        BY HeadTail, Zenon DEF TypeOK
      <3>3. seen \subseteq Messages
        BY Zenon DEF TypeOK
      <3>4. relay # << >> /\ Head(relay).kind = "Message" => Head(relay).msg \in Messages
        BY <3>2, Zenon DEF Frames
      <3> HIDE DEF Recv
      <3> QED
        BY <3>1, <3>3, <3>4, Zenon
    <2> QED
      BY <2>1, <2>2, <2>3, <2>4, Zenon DEF TypeOK
  <1>2. HealthInv'
    BY Zenon DEF TypeOK, HealthInv, SocketInv, ShutdownInv
  <1>3. SocketInv'
    BY Zenon DEF TypeOK, HealthInv, SocketInv, ShutdownInv
  <1>4. ShutdownInv'
    BY Zenon DEF TypeOK, HealthInv, SocketInv, ShutdownInv
  <1>5. DeliveryInv'
    <2>1. \A j \in Incarnations : \A f \in Elems(wire'[j]) : f.inc = j
      BY DeliveryElems, Zenon
    <2>2. /\ \A n \in Messages : at'[n] # None => at'[n] <= state'.epoch
          /\ Booting' => \A n \in Messages : at'[n] \in {None, 0}
      BY Zenon DEF TypeOK, HealthInv, DeliveryInv
    <2>3. ASSUME Caught', NEW n \in Messages, at'[n] = state'.epoch
          PROVE  n \in seen' \/ OnWire(n)' \/ InRelay(n)'
      <3>1. /\ Caught /\ relay # << >> /\ ~Reconciles(Head(relay))
            /\ UNCHANGED <<wire, incarnation, at, state>>
            /\ relay' = Tail(relay)
            /\ seen' = IF Head(relay).inc = incarnation /\ Head(relay).kind = "Message"
                       THEN seen \cup {Head(relay).msg} ELSE seen
        BY <2>3, Zenon DEF TypeOK, Caught
      <3>2. n \in seen \/ OnWire(n) \/ InRelay(n)
        BY <2>3, <3>1, DeliveryElems, Zenon
      <3>3. Elems(relay) = {Head(relay)} \cup Elems(Tail(relay)) /\ Head(relay) \in Frames
        BY <3>1, HeadTail, Zenon DEF TypeOK
      <3>4. CASE n \in seen \/ OnWire(n)
        BY <3>1, <3>4, Zenon DEF OnWire
      <3>5. CASE InRelay(n)
        BY <3>1, <3>3, <3>5, Zenon DEF InRelay, Reconciles, Frames
      <3> QED
        BY <3>2, <3>4, <3>5, Zenon
    <2> QED
      BY <2>1, <2>2, <2>3, DeliveryFrom, Zenon
  <1> QED
    BY <1>1, <1>2, <1>3, <1>4, <1>5, Zenon DEF BackplaneInv

\* A gap is published before the old socket is dropped.
LEMMA ReconnectPreserves ==
    ASSUME BackplaneInv, Reconnect
    PROVE  BackplaneInv'
  <1> TypeOK /\ HealthInv /\ SocketInv /\ ShutdownInv /\ DeliveryInv
    BY Zenon DEF BackplaneInv
  <1> USE BackplaneAssumption DEF Booting, Incarnations, net, health, closing, Reconnect, Disconnects, Disconnected
  <1>1. TypeOK'
    <2>1. state' \in [kind : {"Connected", "Disconnected", "Stopped"}, epoch : 1..MaxIncarnation]
      BY Zenon DEF TypeOK
    <2>2. pc' \in {"boot", "boot_ack", "boot_admit", "failed", "recv", "reconnect", "drop", "restore",
                  "open", "connect", "acked", "store", "drain", "admit", "regret", "sleep", "gone"}
      BY Zenon DEF TypeOK
    <2> QED
      BY <2>1, <2>2, Zenon DEF TypeOK
  <1>2. HealthInv'
    BY Zenon DEF TypeOK, HealthInv, SocketInv, ShutdownInv
  <1>3. SocketInv'
    BY Zenon DEF TypeOK, HealthInv, SocketInv, ShutdownInv
  <1>4. ShutdownInv'
    BY Zenon DEF TypeOK, HealthInv, SocketInv, ShutdownInv
  <1>5. DeliveryInv'
    <2>1. /\ UNCHANGED <<at, wire, relay, missed, seen, incarnation>>
          /\ state'.epoch = state.epoch
          /\ Booting' => Booting
          /\ state'.kind = "Connected" /\ pc' = "recv" /\ sock'[incarnation] = "subscribed"
              => state.kind = "Connected" /\ pc = "recv" /\ sock[incarnation] = "subscribed"
      BY Zenon DEF TypeOK, HealthInv, SocketInv
    <2> QED
      BY <2>1, DeliveryFrame, Zenon
  <1> QED
    BY <1>1, <1>2, <1>3, <1>4, <1>5, Zenon DEF BackplaneInv

\* The old socket goes.
LEMMA TakeDroppedPreserves ==
    ASSUME BackplaneInv, TakeSubscriber("drop", "restore")
    PROVE  BackplaneInv'
  <1> TypeOK /\ HealthInv /\ SocketInv /\ ShutdownInv /\ DeliveryInv
    BY Zenon DEF BackplaneInv
  <1> USE BackplaneAssumption DEF Booting, Incarnations, net, health, closing, TakeSubscriber, Dropped
  <1>1. TypeOK'
    BY Zenon DEF TypeOK, HealthInv, SocketInv
  <1>2. HealthInv'
    BY Zenon DEF TypeOK, HealthInv, SocketInv, ShutdownInv
  <1>3. SocketInv'
    BY Zenon DEF TypeOK, HealthInv, SocketInv, ShutdownInv
  <1>4. ShutdownInv'
    BY Zenon DEF TypeOK, HealthInv, SocketInv, ShutdownInv
  <1>5. DeliveryInv'
    <2>1. /\ UNCHANGED <<at, wire, relay, missed, seen, incarnation>>
          /\ state'.epoch = state.epoch
          /\ Booting' => Booting
          /\ state'.kind = "Connected" /\ pc' = "recv" /\ sock'[incarnation] = "subscribed"
              => state.kind = "Connected" /\ pc = "recv" /\ sock[incarnation] = "subscribed"
      BY Zenon DEF TypeOK, HealthInv, SocketInv
    <2> QED
      BY <2>1, DeliveryFrame, Zenon
  <1> QED
    BY <1>1, <1>2, <1>3, <1>4, <1>5, Zenon DEF BackplaneInv

\* A socket that was not admitted goes.
LEMMA TakeRegrettedPreserves ==
    ASSUME BackplaneInv, TakeSubscriber("regret", "restore")
    PROVE  BackplaneInv'
  <1> TypeOK /\ HealthInv /\ SocketInv /\ ShutdownInv /\ DeliveryInv
    BY Zenon DEF BackplaneInv
  <1> USE BackplaneAssumption DEF Booting, Incarnations, net, health, closing, TakeSubscriber, Dropped
  <1>1. TypeOK'
    BY Zenon DEF TypeOK, HealthInv, SocketInv
  <1>2. HealthInv'
    BY Zenon DEF TypeOK, HealthInv, SocketInv, ShutdownInv
  <1>3. SocketInv'
    BY Zenon DEF TypeOK, HealthInv, SocketInv, ShutdownInv
  <1>4. ShutdownInv'
    BY Zenon DEF TypeOK, HealthInv, SocketInv, ShutdownInv
  <1>5. DeliveryInv'
    <2>1. /\ UNCHANGED <<at, wire, relay, missed, seen, incarnation>>
          /\ state'.epoch = state.epoch
          /\ Booting' => Booting
          /\ state'.kind = "Connected" /\ pc' = "recv" /\ sock'[incarnation] = "subscribed"
              => state.kind = "Connected" /\ pc = "recv" /\ sock[incarnation] = "subscribed"
      BY Zenon DEF TypeOK, HealthInv, SocketInv
    <2> QED
      BY <2>1, DeliveryFrame, Zenon
  <1> QED
    BY <1>1, <1>2, <1>3, <1>4, <1>5, Zenon DEF BackplaneInv

\* A new incarnation.
LEMMA RestorePreserves ==
    ASSUME BackplaneInv, Restore
    PROVE  BackplaneInv'
  <1> TypeOK /\ HealthInv /\ SocketInv /\ ShutdownInv /\ DeliveryInv
    BY Zenon DEF BackplaneInv
  <1> USE BackplaneAssumption DEF Booting, Incarnations, net, health, closing, Restore
  <1>1. TypeOK'
    BY SMTT(30) DEF TypeOK, HealthInv, SocketInv
  <1>2. HealthInv'
    BY SMTT(30) DEF TypeOK, HealthInv, SocketInv, ShutdownInv
  <1>3. SocketInv'
    BY Zenon DEF TypeOK, HealthInv, SocketInv, ShutdownInv
  <1>4. ShutdownInv'
    BY Zenon DEF TypeOK, HealthInv, SocketInv, ShutdownInv
  <1>5. DeliveryInv'
    <2>1. \A j \in Incarnations : \A f \in Elems(wire'[j]) : f.inc = j
      BY DeliveryElems, Zenon
    <2>2. /\ \A n \in Messages : at'[n] # None => at'[n] <= state'.epoch
          /\ Booting' => \A n \in Messages : at'[n] \in {None, 0}
      BY Zenon DEF TypeOK, HealthInv, DeliveryInv
    <2>3. ASSUME Caught', NEW n \in Messages, at'[n] = state'.epoch
          PROVE  n \in seen' \/ OnWire(n)' \/ InRelay(n)'
      BY <2>3, Zenon DEF TypeOK, HealthInv, DeliveryInv, Caught
    <2> QED
      BY <2>1, <2>2, <2>3, DeliveryFrom, Zenon
  <1> QED
    BY <1>1, <1>2, <1>3, <1>4, <1>5, Zenon DEF BackplaneInv

\* The supervisor tries again.
LEMMA SleepPreserves ==
    ASSUME BackplaneInv, Sleep
    PROVE  BackplaneInv'
  <1> TypeOK /\ HealthInv /\ SocketInv /\ ShutdownInv /\ DeliveryInv
    BY Zenon DEF BackplaneInv
  <1> USE BackplaneAssumption DEF Booting, Incarnations, net, health, closing, Sleep
  <1>1. TypeOK'
    BY Zenon DEF TypeOK, HealthInv, SocketInv
  <1>2. HealthInv'
    BY Zenon DEF TypeOK, HealthInv, SocketInv, ShutdownInv
  <1>3. SocketInv'
    BY Zenon DEF TypeOK, HealthInv, SocketInv, ShutdownInv
  <1>4. ShutdownInv'
    BY Zenon DEF TypeOK, HealthInv, SocketInv, ShutdownInv
  <1>5. DeliveryInv'
    <2>1. /\ UNCHANGED <<at, wire, relay, missed, seen, incarnation>>
          /\ state'.epoch = state.epoch
          /\ Booting' => Booting
          /\ state'.kind = "Connected" /\ pc' = "recv" /\ sock'[incarnation] = "subscribed"
              => state.kind = "Connected" /\ pc = "recv" /\ sock[incarnation] = "subscribed"
      BY Zenon DEF TypeOK, HealthInv, SocketInv
    <2> QED
      BY <2>1, DeliveryFrame, Zenon
  <1> QED
    BY <1>1, <1>2, <1>3, <1>4, <1>5, Zenon DEF BackplaneInv

\* The next epoch.
LEMMA ReadEpochPreserves ==
    ASSUME BackplaneInv, ReadEpoch
    PROVE  BackplaneInv'
  <1> TypeOK /\ HealthInv /\ SocketInv /\ ShutdownInv /\ DeliveryInv
    BY Zenon DEF BackplaneInv
  <1> USE BackplaneAssumption DEF Booting, Incarnations, net, health, closing, ReadEpoch
  <1>1. TypeOK'
    BY SMTT(30) DEF TypeOK, HealthInv, SocketInv
  <1>2. HealthInv'
    BY Zenon DEF TypeOK, HealthInv, SocketInv, ShutdownInv
  <1>3. SocketInv'
    BY Zenon DEF TypeOK, HealthInv, SocketInv, ShutdownInv
  <1>4. ShutdownInv'
    BY Zenon DEF TypeOK, HealthInv, SocketInv, ShutdownInv
  <1>5. DeliveryInv'
    <2>1. /\ UNCHANGED <<at, wire, relay, missed, seen, incarnation>>
          /\ state'.epoch = state.epoch
          /\ Booting' => Booting
          /\ state'.kind = "Connected" /\ pc' = "recv" /\ sock'[incarnation] = "subscribed"
              => state.kind = "Connected" /\ pc = "recv" /\ sock[incarnation] = "subscribed"
      BY Zenon DEF TypeOK, HealthInv, SocketInv
    <2> QED
      BY <2>1, DeliveryFrame, Zenon
  <1> QED
    BY <1>1, <1>2, <1>3, <1>4, <1>5, Zenon DEF BackplaneInv

\* The backplane stopped while the socket was connected.
LEMMA ReadStoppedPreserves ==
    ASSUME BackplaneInv, ReadStopped
    PROVE  BackplaneInv'
  <1> TypeOK /\ HealthInv /\ SocketInv /\ ShutdownInv /\ DeliveryInv
    BY Zenon DEF BackplaneInv
  <1> USE BackplaneAssumption DEF Booting, Incarnations, net, health, closing, ReadStopped, Dropped
  <1>1. TypeOK'
    BY Zenon DEF TypeOK, HealthInv, SocketInv
  <1>2. HealthInv'
    BY Zenon DEF TypeOK, HealthInv, SocketInv, ShutdownInv
  <1>3. SocketInv'
    BY Zenon DEF TypeOK, HealthInv, SocketInv, ShutdownInv
  <1>4. ShutdownInv'
    BY Zenon DEF TypeOK, HealthInv, SocketInv, ShutdownInv
  <1>5. DeliveryInv'
    <2>1. /\ UNCHANGED <<at, wire, relay, missed, seen, incarnation>>
          /\ state'.epoch = state.epoch
          /\ Booting' => Booting
          /\ state'.kind = "Connected" /\ pc' = "recv" /\ sock'[incarnation] = "subscribed"
              => state.kind = "Connected" /\ pc = "recv" /\ sock[incarnation] = "subscribed"
      BY Zenon DEF TypeOK, HealthInv, SocketInv
    <2> QED
      BY <2>1, DeliveryFrame, Zenon
  <1> QED
    BY <1>1, <1>2, <1>3, <1>4, <1>5, Zenon DEF BackplaneInv

\* The new socket is stored.
LEMMA StoreSubscriberPreserves ==
    ASSUME BackplaneInv, StoreSubscriber
    PROVE  BackplaneInv'
  <1> TypeOK /\ HealthInv /\ SocketInv /\ ShutdownInv /\ DeliveryInv
    BY Zenon DEF BackplaneInv
  <1> USE BackplaneAssumption DEF Booting, Incarnations, net, health, closing, StoreSubscriber
  <1>1. TypeOK'
    BY Zenon DEF TypeOK, HealthInv, SocketInv
  <1>2. HealthInv'
    BY Zenon DEF TypeOK, HealthInv, SocketInv, ShutdownInv
  <1>3. SocketInv'
    BY SMTT(30) DEF TypeOK, HealthInv, SocketInv, ShutdownInv
  <1>4. ShutdownInv'
    BY Zenon DEF TypeOK, HealthInv, SocketInv, ShutdownInv
  <1>5. DeliveryInv'
    <2>1. /\ UNCHANGED <<at, wire, relay, missed, seen, incarnation>>
          /\ state'.epoch = state.epoch
          /\ Booting' => Booting
          /\ state'.kind = "Connected" /\ pc' = "recv" /\ sock'[incarnation] = "subscribed"
              => state.kind = "Connected" /\ pc = "recv" /\ sock[incarnation] = "subscribed"
      BY Zenon DEF TypeOK, HealthInv, SocketInv
    <2> QED
      BY <2>1, DeliveryFrame, Zenon
  <1> QED
    BY <1>1, <1>2, <1>3, <1>4, <1>5, Zenon DEF BackplaneInv

\* What the relay still holds is handed on or covered by the next epoch.
LEMMA DrainPreserves ==
    ASSUME BackplaneInv, Drain
    PROVE  BackplaneInv'
  <1> TypeOK /\ HealthInv /\ SocketInv /\ ShutdownInv /\ DeliveryInv
    BY Zenon DEF BackplaneInv
  <1> USE BackplaneAssumption DEF Booting, Incarnations, net, health, closing, Drain
  <1>1. TypeOK'
    <2>1. missed' \in BOOLEAN
      BY Zenon DEF TypeOK
    <2>2. pc' \in {"boot", "boot_ack", "boot_admit", "failed", "recv", "reconnect", "drop", "restore",
                  "open", "connect", "acked", "store", "drain", "admit", "regret", "sleep", "gone"}
      BY Zenon DEF TypeOK
    <2>3. relay' \in Seq(Frames) /\ Len(relay') <= Capacity
      <3>1. relay' = relay \/ (relay # << >> /\ relay' = Tail(relay))
        BY Zenon
      <3>2. relay # << >> => Tail(relay) \in Seq(Frames) /\ Len(Tail(relay)) = Len(relay) - 1
        BY HeadTail, Zenon DEF TypeOK
      <3>3. Len(relay) \in Nat /\ Capacity \in Nat
        BY SMTT(30) DEF TypeOK
      <3>4. relay \in Seq(Frames) /\ Len(relay) <= Capacity
        BY Zenon DEF TypeOK
      <3> HIDE DEF Drain
      <3> QED
        BY <3>1, <3>2, <3>3, <3>4, SMTT(30)
    <2>4. seen' \subseteq Messages
      <3>1. seen' = seen \/ (relay # << >> /\ Head(relay).kind = "Message" /\ seen' = seen \cup {Head(relay).msg})
        BY Zenon
      <3>2. relay # << >> => Head(relay) \in Frames
        BY HeadTail, Zenon DEF TypeOK
      <3>3. seen \subseteq Messages
        BY Zenon DEF TypeOK
      <3>4. relay # << >> /\ Head(relay).kind = "Message" => Head(relay).msg \in Messages
        BY <3>2, Zenon DEF Frames
      <3> HIDE DEF Drain
      <3> QED
        BY <3>1, <3>3, <3>4, Zenon
    <2> QED
      BY <2>1, <2>2, <2>3, <2>4, SMTT(30) DEF TypeOK
  <1>2. HealthInv'
    BY Zenon DEF TypeOK, HealthInv, SocketInv, ShutdownInv
  <1>3. SocketInv'
    BY Zenon DEF TypeOK, HealthInv, SocketInv, ShutdownInv
  <1>4. ShutdownInv'
    BY Zenon DEF TypeOK, HealthInv, SocketInv, ShutdownInv
  <1>5. DeliveryInv'
    <2>1. \A j \in Incarnations : \A f \in Elems(wire'[j]) : f.inc = j
      BY DeliveryElems, Zenon
    <2>2. /\ \A n \in Messages : at'[n] # None => at'[n] <= state'.epoch
          /\ Booting' => \A n \in Messages : at'[n] \in {None, 0}
      BY Zenon DEF TypeOK, HealthInv, DeliveryInv
    <2>3. ASSUME Caught', NEW n \in Messages, at'[n] = state'.epoch
          PROVE  n \in seen' \/ OnWire(n)' \/ InRelay(n)'
      BY <2>3, Zenon DEF TypeOK, HealthInv, DeliveryInv, Caught
    <2> QED
      BY <2>1, <2>2, <2>3, DeliveryFrom, Zenon
  <1> QED
    BY <1>1, <1>2, <1>3, <1>4, <1>5, Zenon DEF BackplaneInv

\* The epoch that is published is one no message was published in yet.
LEMMA AdmitPreserves ==
    ASSUME BackplaneInv, Admit
    PROVE  BackplaneInv'
  <1> TypeOK /\ HealthInv /\ SocketInv /\ ShutdownInv /\ DeliveryInv
    BY Zenon DEF BackplaneInv
  <1> USE BackplaneAssumption DEF Booting, Incarnations, net, health, closing, Admit, Admits
  <1>1. TypeOK'
    BY SMTT(30) DEF TypeOK, HealthInv, SocketInv
  <1>2. HealthInv'
    BY SMTT(30) DEF TypeOK, HealthInv, SocketInv, ShutdownInv
  <1>3. SocketInv'
    BY Zenon DEF TypeOK, HealthInv, SocketInv, ShutdownInv
  <1>4. ShutdownInv'
    BY Zenon DEF TypeOK, HealthInv, SocketInv, ShutdownInv
  <1>5. DeliveryInv'
    <2>1. \A j \in Incarnations : \A f \in Elems(wire'[j]) : f.inc = j
      BY DeliveryElems, Zenon
    <2>2. /\ \A n \in Messages : at'[n] # None => at'[n] <= state'.epoch
          /\ Booting' => \A n \in Messages : at'[n] \in {None, 0}
      BY SMTT(30) DEF TypeOK, HealthInv, DeliveryInv
    <2>3. ASSUME Caught', NEW n \in Messages, at'[n] = state'.epoch
          PROVE  n \in seen' \/ OnWire(n)' \/ InRelay(n)'
      BY <2>3, SMTT(30) DEF TypeOK, HealthInv, DeliveryInv, Caught
    <2> QED
      BY <2>1, <2>2, <2>3, DeliveryFrom, Zenon
  <1> QED
    BY <1>1, <1>2, <1>3, <1>4, <1>5, Zenon DEF BackplaneInv

\* A publish begins.
LEMMA PublishChecksPreserves ==
    ASSUME BackplaneInv, NEW p \in Publishers, PublishChecks(p)
    PROVE  BackplaneInv'
  <1> TypeOK /\ HealthInv /\ SocketInv /\ ShutdownInv /\ DeliveryInv
    BY Zenon DEF BackplaneInv
  <1> USE BackplaneAssumption DEF Booting, Incarnations, net, health, closing, PublishChecks, Running
  <1>1. TypeOK'
    BY SMTT(30) DEF TypeOK, HealthInv, SocketInv
  <1>2. HealthInv'
    BY Zenon DEF TypeOK, HealthInv, SocketInv, ShutdownInv
  <1>3. SocketInv'
    BY Zenon DEF TypeOK, HealthInv, SocketInv, ShutdownInv
  <1>4. ShutdownInv'
    BY Zenon DEF TypeOK, HealthInv, SocketInv, ShutdownInv
  <1>5. DeliveryInv'
    <2>1. /\ UNCHANGED <<at, wire, relay, missed, seen, incarnation>>
          /\ state'.epoch = state.epoch
          /\ Booting' => Booting
          /\ state'.kind = "Connected" /\ pc' = "recv" /\ sock'[incarnation] = "subscribed"
              => state.kind = "Connected" /\ pc = "recv" /\ sock[incarnation] = "subscribed"
      BY Zenon DEF TypeOK, HealthInv, SocketInv
    <2> QED
      BY <2>1, DeliveryFrame, Zenon
  <1> QED
    BY <1>1, <1>2, <1>3, <1>4, <1>5, Zenon DEF BackplaneInv

\* A publish sends only while the publisher is there.
LEMMA PublishEntersPreserves ==
    ASSUME BackplaneInv, NEW p \in Publishers, PublishEnters(p)
    PROVE  BackplaneInv'
  <1> TypeOK /\ HealthInv /\ SocketInv /\ ShutdownInv /\ DeliveryInv
    BY Zenon DEF BackplaneInv
  <1> USE BackplaneAssumption DEF Booting, Incarnations, net, health, closing, PublishEnters
  <1>1. TypeOK'
    BY SMTT(30) DEF TypeOK, HealthInv, SocketInv
  <1>2. HealthInv'
    BY Zenon DEF TypeOK, HealthInv, SocketInv, ShutdownInv
  <1>3. SocketInv'
    BY Zenon DEF TypeOK, HealthInv, SocketInv, ShutdownInv
  <1>4. ShutdownInv'
    BY Zenon DEF TypeOK, HealthInv, SocketInv, ShutdownInv
  <1>5. DeliveryInv'
    <2>1. /\ UNCHANGED <<at, wire, relay, missed, seen, incarnation>>
          /\ state'.epoch = state.epoch
          /\ Booting' => Booting
          /\ state'.kind = "Connected" /\ pc' = "recv" /\ sock'[incarnation] = "subscribed"
              => state.kind = "Connected" /\ pc = "recv" /\ sock[incarnation] = "subscribed"
      BY Zenon DEF TypeOK, HealthInv, SocketInv
    <2> QED
      BY <2>1, DeliveryFrame, Zenon
  <1> QED
    BY <1>1, <1>2, <1>3, <1>4, <1>5, Zenon DEF BackplaneInv

\* A publish ends.
LEMMA PublishReturnsPreserves ==
    ASSUME BackplaneInv, NEW p \in Publishers, PublishReturns(p)
    PROVE  BackplaneInv'
  <1> TypeOK /\ HealthInv /\ SocketInv /\ ShutdownInv /\ DeliveryInv
    BY Zenon DEF BackplaneInv
  <1> USE BackplaneAssumption DEF Booting, Incarnations, net, health, closing, PublishReturns
  <1>1. TypeOK'
    BY SMTT(30) DEF TypeOK, HealthInv, SocketInv
  <1>2. HealthInv'
    BY Zenon DEF TypeOK, HealthInv, SocketInv, ShutdownInv
  <1>3. SocketInv'
    BY Zenon DEF TypeOK, HealthInv, SocketInv, ShutdownInv
  <1>4. ShutdownInv'
    BY Zenon DEF TypeOK, HealthInv, SocketInv, ShutdownInv
  <1>5. DeliveryInv'
    <2>1. /\ UNCHANGED <<at, wire, relay, missed, seen, incarnation>>
          /\ state'.epoch = state.epoch
          /\ Booting' => Booting
          /\ state'.kind = "Connected" /\ pc' = "recv" /\ sock'[incarnation] = "subscribed"
              => state.kind = "Connected" /\ pc = "recv" /\ sock[incarnation] = "subscribed"
      BY Zenon DEF TypeOK, HealthInv, SocketInv
    <2> QED
      BY <2>1, DeliveryFrame, Zenon
  <1> QED
    BY <1>1, <1>2, <1>3, <1>4, <1>5, Zenon DEF BackplaneInv

\* The stop is published.
LEMMA StopBackplanePreserves ==
    ASSUME BackplaneInv, NEW s \in Shutters, StopBackplane(s)
    PROVE  BackplaneInv'
  <1> TypeOK /\ HealthInv /\ SocketInv /\ ShutdownInv /\ DeliveryInv
    BY Zenon DEF BackplaneInv
  <1> USE BackplaneAssumption DEF Booting, Incarnations, net, health, closing, StopBackplane, Running
  <1>1. TypeOK'
    <2>1. liveness' \in Incarnations \cup {None}
      BY Zenon DEF TypeOK
    <2>2. stop' \in BOOLEAN
      BY Zenon DEF TypeOK
    <2>3. state' \in [kind : {"Connected", "Disconnected", "Stopped"}, epoch : 1..MaxIncarnation]
      BY Zenon DEF TypeOK
    <2>4. shut' \in [Shutters -> {"idle", "stopped", "join", "joined", "done", "dropped"}]
      BY Zenon DEF TypeOK
    <2> QED
      BY <2>1, <2>2, <2>3, <2>4, SMTT(30) DEF TypeOK
  <1>2. HealthInv'
    BY Zenon DEF TypeOK, HealthInv, SocketInv, ShutdownInv
  <1>3. SocketInv'
    BY Zenon DEF TypeOK, HealthInv, SocketInv, ShutdownInv
  <1>4. ShutdownInv'
    BY SMTT(30) DEF TypeOK, HealthInv, SocketInv, ShutdownInv
  <1>5. DeliveryInv'
    <2>1. /\ UNCHANGED <<at, wire, relay, missed, seen, incarnation>>
          /\ state'.epoch = state.epoch
          /\ Booting' => Booting
          /\ state'.kind = "Connected" /\ pc' = "recv" /\ sock'[incarnation] = "subscribed"
              => state.kind = "Connected" /\ pc = "recv" /\ sock[incarnation] = "subscribed"
      BY Zenon DEF TypeOK, HealthInv, SocketInv
    <2> QED
      BY <2>1, DeliveryFrame, Zenon
  <1> QED
    BY <1>1, <1>2, <1>3, <1>4, <1>5, Zenon DEF BackplaneInv

\* The stored socket and the worker's handle go.
LEMMA ShutdownTakesPreserves ==
    ASSUME BackplaneInv, NEW s \in Shutters, ShutdownTakes(s)
    PROVE  BackplaneInv'
  <1> TypeOK /\ HealthInv /\ SocketInv /\ ShutdownInv /\ DeliveryInv
    BY Zenon DEF BackplaneInv
  <1> USE BackplaneAssumption DEF Booting, Incarnations, net, health, closing, ShutdownTakes, Dropped
  <1>1. TypeOK'
    <2>1. gate' \in Shutters \cup {None}
      BY Zenon DEF TypeOK
    <2>2. sock' \in [Incarnations -> {"none", "open", "subscribed", "dead", "marked", "closing",
                                   "closed"}]
      BY Zenon DEF TypeOK
    <2>3. subscriber' \in Incarnations \cup {None}
      BY Zenon DEF TypeOK
    <2>4. worker' \in BOOLEAN
      BY Zenon DEF TypeOK
    <2>5. shut' \in [Shutters -> {"idle", "stopped", "join", "joined", "done", "dropped"}]
      BY Zenon DEF TypeOK
    <2> QED
      BY <2>1, <2>2, <2>3, <2>4, <2>5, SMTT(30) DEF TypeOK
  <1>2. HealthInv'
    BY Zenon DEF TypeOK, HealthInv, SocketInv, ShutdownInv
  <1>3. SocketInv'
    BY Zenon DEF TypeOK, HealthInv, SocketInv, ShutdownInv
  <1>4. ShutdownInv'
    <2>1. \A t \in Shutters : shut[t] \notin {"join", "joined"}
      BY Zenon DEF ShutdownInv
    <2>2. /\ \A t \in Shutters \ {s} : shut'[t] = shut[t]
          /\ worker => shut'[s] = "join"
          /\ ~worker => shut'[s] = "joined"
      BY Zenon DEF TypeOK
    <2>3. stop /\ shut[s] = "stopped" /\ ~Booting /\ pc # "failed"
      BY Zenon DEF ShutdownInv
    <2>4. ~worker' /\ gate' = s /\ subscriber' = None
      BY Zenon
    <2>5. UNCHANGED <<pc, owned, stop, manager, call, detached>>
      BY Zenon
    <2>0. owned
      BY Zenon DEF ShutdownInv
    <2>6. ~worker => detached \/ pc = "gone"
      BY <2>0, <2>1, <2>3, Zenon DEF ShutdownInv
    <2> HIDE DEF ShutdownTakes, Dropped
    <2>7. (\A t \in Shutters : gate = t <=> shut[t] \in {"join", "joined"})'
      BY <2>1, <2>2, <2>4, Zenon
    <2>8. shut'[s] \in {"join", "joined"} /\ (shut'[s] = "joined" => ~worker)
      BY <2>2, Zenon
    <2>9. /\ (\A t \in Shutters : shut[t] # "idle" => stop)'
           /\ (\A t \in Shutters : shut[t] \in {"join", "joined", "done"} => ~worker)'
           /\ (\A t \in Shutters : shut[t] = "done" => ~manager)'
      BY <2>1, <2>2, <2>3, <2>4, <2>5, <2>8, Zenon DEF ShutdownInv
    <2>10. (\A t \in Shutters : shut[t] \in {"joined", "done"} => detached \/ pc = "gone")'
      BY <2>1, <2>2, <2>3, <2>5, <2>6, <2>8, Zenon DEF ShutdownInv
    <2>11. (~worker /\ owned /\ ~Booting /\ pc # "failed" =>
              detached \/ pc = "gone" \/ \E t \in Shutters : shut[t] = "join")'
      BY <2>2, <2>5, <2>6, Zenon
    <2>12. (~owned => \A t \in Shutters : shut[t] \in {"idle", "done", "dropped"})'
      BY <2>0, <2>5, Zenon
    <2>13. (~manager => \A p \in Publishers : call[p] # "sending")'
      BY <2>5, Zenon DEF ShutdownInv
    <2> QED
      BY <2>3, <2>4, <2>5, <2>7, <2>9, <2>10, <2>11, <2>13, <2>12, Zenon DEF ShutdownInv
  <1>5. DeliveryInv'
    <2>1. /\ UNCHANGED <<at, wire, relay, missed, seen, incarnation>>
          /\ state'.epoch = state.epoch
          /\ Booting' => Booting
          /\ state'.kind = "Connected" /\ pc' = "recv" /\ sock'[incarnation] = "subscribed"
              => state.kind = "Connected" /\ pc = "recv" /\ sock[incarnation] = "subscribed"
      BY Zenon DEF TypeOK, HealthInv, SocketInv
    <2> QED
      BY <2>1, DeliveryFrame, Zenon
  <1> QED
    BY <1>1, <1>2, <1>3, <1>4, <1>5, Zenon DEF BackplaneInv

\* The worker has ended.
LEMMA ShutdownJoinsPreserves ==
    ASSUME BackplaneInv, NEW s \in Shutters, ShutdownJoins(s)
    PROVE  BackplaneInv'
  <1> TypeOK /\ HealthInv /\ SocketInv /\ ShutdownInv /\ DeliveryInv
    BY Zenon DEF BackplaneInv
  <1> USE BackplaneAssumption DEF Booting, Incarnations, net, health, closing, ShutdownJoins
  <1>1. TypeOK'
    BY Zenon DEF TypeOK, HealthInv, SocketInv
  <1>2. HealthInv'
    BY Zenon DEF TypeOK, HealthInv, SocketInv, ShutdownInv
  <1>3. SocketInv'
    BY Zenon DEF TypeOK, HealthInv, SocketInv, ShutdownInv
  <1>4. ShutdownInv'
    BY Zenon DEF TypeOK, HealthInv, SocketInv, ShutdownInv
  <1>5. DeliveryInv'
    <2>1. /\ UNCHANGED <<at, wire, relay, missed, seen, incarnation>>
          /\ state'.epoch = state.epoch
          /\ Booting' => Booting
          /\ state'.kind = "Connected" /\ pc' = "recv" /\ sock'[incarnation] = "subscribed"
              => state.kind = "Connected" /\ pc = "recv" /\ sock[incarnation] = "subscribed"
      BY Zenon DEF TypeOK, HealthInv, SocketInv
    <2> QED
      BY <2>1, DeliveryFrame, Zenon
  <1> QED
    BY <1>1, <1>2, <1>3, <1>4, <1>5, Zenon DEF BackplaneInv

\* The publisher goes.
LEMMA ShutdownReturnsPreserves ==
    ASSUME BackplaneInv, NEW s \in Shutters, ShutdownReturns(s)
    PROVE  BackplaneInv'
  <1> TypeOK /\ HealthInv /\ SocketInv /\ ShutdownInv /\ DeliveryInv
    BY Zenon DEF BackplaneInv
  <1> USE BackplaneAssumption DEF Booting, Incarnations, net, health, closing, ShutdownReturns
  <1>1. TypeOK'
    <2>1. manager' \in BOOLEAN
      BY Zenon DEF TypeOK
    <2>2. gate' \in Shutters \cup {None}
      BY Zenon DEF TypeOK
    <2>3. shut' \in [Shutters -> {"idle", "stopped", "join", "joined", "done", "dropped"}]
      BY Zenon DEF TypeOK
    <2> QED
      BY <2>1, <2>2, <2>3, SMTT(30) DEF TypeOK
  <1>2. HealthInv'
    BY Zenon DEF TypeOK, HealthInv, SocketInv, ShutdownInv
  <1>3. SocketInv'
    BY Zenon DEF TypeOK, HealthInv, SocketInv, ShutdownInv
  <1>4. ShutdownInv'
    BY Zenon DEF TypeOK, HealthInv, SocketInv, ShutdownInv
  <1>5. DeliveryInv'
    <2>1. /\ UNCHANGED <<at, wire, relay, missed, seen, incarnation>>
          /\ state'.epoch = state.epoch
          /\ Booting' => Booting
          /\ state'.kind = "Connected" /\ pc' = "recv" /\ sock'[incarnation] = "subscribed"
              => state.kind = "Connected" /\ pc = "recv" /\ sock[incarnation] = "subscribed"
      BY Zenon DEF TypeOK, HealthInv, SocketInv
    <2> QED
      BY <2>1, DeliveryFrame, Zenon
  <1> QED
    BY <1>1, <1>2, <1>3, <1>4, <1>5, Zenon DEF BackplaneInv

\* A shutdown is dropped where it waits.
LEMMA DropShutdownPreserves ==
    ASSUME BackplaneInv, NEW s \in Shutters, DropShutdown(s)
    PROVE  BackplaneInv'
  <1> TypeOK /\ HealthInv /\ SocketInv /\ ShutdownInv /\ DeliveryInv
    BY Zenon DEF BackplaneInv
  <1> USE BackplaneAssumption DEF Booting, Incarnations, net, health, closing, DropShutdown
  <1>1. TypeOK'
    BY SMTT(30) DEF TypeOK, HealthInv, SocketInv
  <1>2. HealthInv'
    BY Zenon DEF TypeOK, HealthInv, SocketInv, ShutdownInv
  <1>3. SocketInv'
    BY Zenon DEF TypeOK, HealthInv, SocketInv, ShutdownInv
  <1>4. ShutdownInv'
    BY SMTT(30) DEF TypeOK, HealthInv, SocketInv, ShutdownInv
  <1>5. DeliveryInv'
    <2>1. /\ UNCHANGED <<at, wire, relay, missed, seen, incarnation>>
          /\ state'.epoch = state.epoch
          /\ Booting' => Booting
          /\ state'.kind = "Connected" /\ pc' = "recv" /\ sock'[incarnation] = "subscribed"
              => state.kind = "Connected" /\ pc = "recv" /\ sock[incarnation] = "subscribed"
      BY Zenon DEF TypeOK, HealthInv, SocketInv
    <2> QED
      BY <2>1, DeliveryFrame, Zenon
  <1> QED
    BY <1>1, <1>2, <1>3, <1>4, <1>5, Zenon DEF BackplaneInv

\* The owner is gone.
LEMMA DropBackplanePreserves ==
    ASSUME BackplaneInv, DropBackplane
    PROVE  BackplaneInv'
  <1> TypeOK /\ HealthInv /\ SocketInv /\ ShutdownInv /\ DeliveryInv
    BY Zenon DEF BackplaneInv
  <1> USE BackplaneAssumption DEF Booting, Incarnations, net, health, closing, DropBackplane, Dropped, Running
  <1>1. TypeOK'
    <2>1. owned' \in BOOLEAN
      BY Zenon DEF TypeOK
    <2>2. liveness' \in Incarnations \cup {None}
      BY Zenon DEF TypeOK
    <2>3. stop' \in BOOLEAN
      BY Zenon DEF TypeOK
    <2>4. state' \in [kind : {"Connected", "Disconnected", "Stopped"}, epoch : 1..MaxIncarnation]
      <3>1. state' = [state EXCEPT !.kind = "Stopped"]
        BY Zenon
      <3> QED
        BY <3>1, Zenon DEF TypeOK
    <2>5. sock' \in [Incarnations -> {"none", "open", "subscribed", "dead", "marked", "closing",
                                   "closed"}]
      BY Zenon DEF TypeOK
    <2>6. subscriber' \in Incarnations \cup {None}
      BY Zenon DEF TypeOK
    <2>7. worker' \in BOOLEAN
      BY Zenon DEF TypeOK
    <2> QED
      BY <2>1, <2>2, <2>3, <2>4, <2>5, <2>6, <2>7, Zenon DEF TypeOK
  <1>2. HealthInv'
    BY Zenon DEF TypeOK, HealthInv, SocketInv, ShutdownInv
  <1>3. SocketInv'
    BY Zenon DEF TypeOK, HealthInv, SocketInv, ShutdownInv
  <1>4. ShutdownInv'
    BY Zenon DEF TypeOK, HealthInv, SocketInv, ShutdownInv
  <1>5. DeliveryInv'
    <2>1. /\ UNCHANGED <<at, wire, relay, missed, seen, incarnation>>
          /\ state'.epoch = state.epoch
          /\ Booting' => Booting
          /\ state'.kind = "Connected" /\ pc' = "recv" /\ sock'[incarnation] = "subscribed"
              => state.kind = "Connected" /\ pc = "recv" /\ sock[incarnation] = "subscribed"
      BY Zenon DEF TypeOK, HealthInv, SocketInv
    <2> QED
      BY <2>1, DeliveryFrame, Zenon
  <1> QED
    BY <1>1, <1>2, <1>3, <1>4, <1>5, Zenon DEF BackplaneInv

-------------------------------------------------------------------------------
(* The inductive invariant. *)

LEMMA InitBackplane == Init => BackplaneInv
  <1> SUFFICES ASSUME Init PROVE BackplaneInv
    BY Zenon
  <1> USE BackplaneAssumption DEF Init, Incarnations, Booting
  <1>1. TypeOK
    <2>1. stop \in BOOLEAN /\ worker \in BOOLEAN /\ manager \in BOOLEAN /\ missed \in BOOLEAN
      BY Zenon
    <2>2. owned \in BOOLEAN /\ detached \in BOOLEAN
      BY Zenon
    <2> QED
      BY <2>1, <2>2, SMTT(30) DEF TypeOK
  <1>2. HealthInv /\ SocketInv /\ ShutdownInv
    BY SMTT(30) DEF HealthInv, SocketInv, ShutdownInv
  <1>3. DeliveryInv
    BY SMTT(30) DEF DeliveryInv
  <1> QED
    BY <1>1, <1>2, <1>3, Zenon DEF BackplaneInv

LEMMA StutterBackplane ==
    ASSUME BackplaneInv, UNCHANGED vars
    PROVE  BackplaneInv'
  <1> USE DEF vars
  <1>1. TypeOK' /\ HealthInv' /\ SocketInv'
    BY SMTT(30) DEF BackplaneInv, TypeOK, HealthInv, SocketInv, Booting
  <1>2. ShutdownInv' /\ DeliveryInv'
    BY Zenon DEF BackplaneInv, ShutdownInv, DeliveryInv, Booting
  <1> QED
    BY <1>1, <1>2, Zenon DEF BackplaneInv

LEMMA NextBackplane ==
    ASSUME BackplaneInv, Next
    PROVE  BackplaneInv'
  <1>1. ASSUME NEW m \in Messages, RemotePublish(m) PROVE BackplaneInv'
    BY <1>1, RemotePublishPreserves, Zenon
  <1>2. ASSUME NEW i \in Incarnations, Socket(i) PROVE BackplaneInv'
    BY <1>2, PushFramePreserves, SocketDiesPreserves, SocketClosesPreserves, PushDisconnectionPreserves, PushMarkedPreserves, Zenon DEF Socket
  <1>3. CASE Subscribe
    BY <1>3, SubscribePreserves, Zenon
  <1>4. CASE Supervisor
    <2>1. CASE Open("boot", "boot_ack")
      BY <2>1, OpenBootPreserves, Zenon
    <2>2. CASE Open("open", "connect")
      BY <2>2, OpenAgainPreserves, Zenon
    <2>3. CASE Ack("boot_ack", "boot_admit")
      BY <2>3, AckBootPreserves, Zenon
    <2>4. CASE Ack("connect", "acked")
      BY <2>4, AckAgainPreserves, Zenon
    <2>5. CASE OpenFails("boot_ack", "failed")
      BY <2>5, OpenFailsBootPreserves, Zenon
    <2>6. CASE OpenFails("connect", "sleep")
      BY <2>6, OpenFailsAgainPreserves, Zenon
    <2>7. CASE BootAdmit
      BY <2>7, BootAdmitPreserves, Zenon
    <2>8. CASE Stops
      BY <2>8, StopsPreserves, Zenon
    <2>9. CASE Recv
      BY <2>9, RecvPreserves, Zenon
    <2>10. CASE Reconnect
      BY <2>10, ReconnectPreserves, Zenon
    <2>11. CASE TakeSubscriber("drop", "restore")
      BY <2>11, TakeDroppedPreserves, Zenon
    <2>12. CASE TakeSubscriber("regret", "restore")
      BY <2>12, TakeRegrettedPreserves, Zenon
    <2>13. CASE Restore
      BY <2>13, RestorePreserves, Zenon
    <2>14. CASE Sleep
      BY <2>14, SleepPreserves, Zenon
    <2>15. CASE ReadEpoch
      BY <2>15, ReadEpochPreserves, Zenon
    <2>16. CASE ReadStopped
      BY <2>16, ReadStoppedPreserves, Zenon
    <2>17. CASE StoreSubscriber
      BY <2>17, StoreSubscriberPreserves, Zenon
    <2>18. CASE Drain
      BY <2>18, DrainPreserves, Zenon
    <2>19. CASE Admit
      BY <2>19, AdmitPreserves, Zenon
    <2> QED
      BY <1>4, <2>1, <2>2, <2>3, <2>4, <2>5, <2>6, <2>7, <2>8, <2>9, <2>10, <2>11, <2>12, <2>13, <2>14, <2>15, <2>16, <2>17, <2>18, <2>19, Zenon DEF Supervisor
  <1>5. ASSUME NEW p \in Publishers, Publish(p) PROVE BackplaneInv'
    BY <1>5, PublishChecksPreserves, PublishEntersPreserves, PublishReturnsPreserves
      , Zenon DEF Publish, PublishGoesOn
  <1>6. ASSUME NEW s \in Shutters, Shutdown(s) \/ DropShutdown(s) PROVE BackplaneInv'
    BY <1>6, StopBackplanePreserves, ShutdownTakesPreserves, ShutdownJoinsPreserves,
       ShutdownReturnsPreserves, DropShutdownPreserves, Zenon DEF Shutdown, ShutdownGoesOn
  <1>7. CASE DropBackplane
    BY <1>7, DropBackplanePreserves, Zenon
  <1> QED
    BY <1>1, <1>2, <1>3, <1>4, <1>5, <1>6, <1>7, Zenon DEF Next

\* The inductive invariant gives what the run checks.
LEMMA BackplaneImplies ==
    ASSUME BackplaneInv
    PROVE  ConnectedIsLive /\ SubscriberInv
  <1>1. ConnectedIsLive
    BY Zenon DEF BackplaneInv, HealthInv, ConnectedIsLive
  <1>2. NoSilentLoss
    BY SMTT(30) DEF BackplaneInv, DeliveryInv, NoSilentLoss
  <1>3. ASSUME NEW s \in Shutters, shut[s] = "done", ~detached
        PROVE  pc = "gone" /\ subscriber = None /\ NothingOpen
    <2>1. pc = "gone" /\ ~worker
      BY <1>3, Zenon DEF BackplaneInv, ShutdownInv
    <2>2. subscriber = None
      BY <2>1, Zenon DEF BackplaneInv, ShutdownInv, Booting
    <2>3. NothingOpen
      BY <2>1, <2>2, BackplaneAssumption, SMTT(30) DEF BackplaneInv, SocketInv, NothingOpen, Incarnations
    <2> QED
      BY <2>1, <2>2, <2>3, Zenon
  <1>4. ShutdownIsComplete
    BY <1>3, Zenon DEF BackplaneInv, ShutdownInv, ShutdownIsComplete
  <1> QED
    BY <1>1, <1>2, <1>4, Zenon DEF BackplaneInv, SubscriberInv

\* The inductive invariant holds at every moment.
THEOREM BackplaneInvariant == Spec => []BackplaneInv
  <1>1. Init => BackplaneInv
    BY InitBackplane, Zenon
  <1>2. BackplaneInv /\ [Next]_vars => BackplaneInv'
    BY NextBackplane, StutterBackplane, Zenon
  <1> QED
    BY <1>1, <1>2, PTL DEF Spec

\* Connected is only said of a socket that has not reported its end
\* (admit_connected, set_push_sender).
THEOREM LiveWhenConnected == Spec => []ConnectedIsLive
  <1>1. BackplaneInv => ConnectedIsLive
    BY BackplaneImplies, Zenon
  <1> QED
    BY <1>1, BackplaneInvariant, PTL

\* No message is lost without a new epoch, and a shutdown that returned has left
\* nothing running (supervise_subscriber, restore_subscriber, shutdown).
THEOREM SubscriberSafe == Spec => []SubscriberInv
  <1>1. BackplaneInv => SubscriberInv
    BY BackplaneImplies, Zenon
  <1> QED
    BY <1>1, BackplaneInvariant, PTL

-------------------------------------------------------------------------------
(* Refinement of BackplaneHealth. *)

Fresh == Booting \/ pc = "failed"

\* What a step may do to the health.
HealthStep ==
    \/ state' = state /\ (Fresh' <=> Fresh)
    \/ /\ state.kind = "Disconnected" /\ ~Fresh'
       /\ state' = [kind |-> "Connected", epoch |-> IF Fresh THEN state.epoch ELSE state.epoch + 1]
    \/ /\ state.kind = "Connected" /\ (Fresh' <=> Fresh)
       /\ state' = [state EXCEPT !.kind = "Disconnected"]
    \/ /\ state.kind # "Stopped" /\ (Fresh' <=> Fresh)
       /\ state' = [state EXCEPT !.kind = "Stopped"]

\* A gap, published again, changes nothing.
LEMMA DisconnectsStep ==
    ASSUME TypeOK, Disconnects, Fresh' <=> Fresh
    PROVE  HealthStep
  <1>1. CASE state.kind = "Connected"
    BY <1>1, Zenon DEF Disconnects, Disconnected, HealthStep
  <1>2. CASE state.kind = "Stopped"
    BY <1>2, Zenon DEF Disconnects, HealthStep
  <1>3. CASE state.kind = "Disconnected"
    BY <1>3, Zenon DEF TypeOK, Disconnects, Disconnected, HealthStep
  <1> QED
    BY <1>1, <1>2, <1>3, Zenon DEF TypeOK

\* A stop, published again, changes nothing.
LEMMA StopStep ==
    ASSUME TypeOK, state' = [state EXCEPT !.kind = "Stopped"], Fresh' <=> Fresh
    PROVE  HealthStep
  <1>1. CASE state.kind = "Stopped"
    BY <1>1, Zenon DEF TypeOK, HealthStep
  <1>2. CASE state.kind # "Stopped"
    BY <1>2, Zenon DEF HealthStep
  <1> QED
    BY <1>1, <1>2, Zenon

\* Every step is a step of the health or leaves it alone.
LEMMA NextHealth ==
    ASSUME BackplaneInv, Next
    PROVE  HealthStep
  <1> TypeOK /\ HealthInv
    BY Zenon DEF BackplaneInv
  <1> USE DEF health, closing, net
  <1>1. ASSUME NEW m \in Messages, RemotePublish(m) PROVE HealthStep
    BY <1>1, Zenon DEF RemotePublish, HealthStep, Fresh, Booting
  <1>2. ASSUME NEW i \in Incarnations, Socket(i) PROVE HealthStep
    <2>1. CASE PushDisconnection(i)
      <3>1. UNCHANGED pc /\ (Disconnects \/ UNCHANGED state)
        BY <2>1, Zenon DEF PushDisconnection
      <3>2. Fresh' <=> Fresh
        BY <3>1, Zenon DEF Fresh, Booting
      <3> QED
        BY <3>1, <3>2, DisconnectsStep, Zenon DEF HealthStep
    <2>2. CASE PushFrame(i) \/ SocketDies(i) \/ SocketCloses(i) \/ PushMarked(i)
      <3>1. UNCHANGED <<pc, state>>
        BY <2>2, Zenon DEF PushFrame, SocketDies, SocketCloses, PushMarked
      <3> QED
        BY <3>1, Zenon DEF HealthStep, Fresh, Booting
    <2> QED
      BY <1>2, <2>1, <2>2, Zenon DEF Socket
  <1>3. CASE Subscribe
    BY <1>3, Zenon DEF Subscribe, HealthStep, Fresh, Booting
  <1>4. CASE Supervisor
    <2>1. CASE BootAdmit
      <3>1. CASE Admits(1) /\ pc' = "recv"
        BY <2>1, <3>1, SMTT(30) DEF BootAdmit, Admits, HealthInv, HealthStep, Fresh, Booting
      <3>2. CASE pc' = "failed" /\ UNCHANGED state
        BY <2>1, <3>2, Zenon DEF BootAdmit, HealthStep, Fresh, Booting
      <3> QED
        BY <2>1, <3>1, <3>2, Zenon DEF BootAdmit
    <2>2. CASE Reconnect
      <3>1. Disconnects /\ pc = "reconnect" /\ pc' = "drop"
        BY <2>2, Zenon DEF Reconnect
      <3> QED
        BY <3>1, DisconnectsStep, Zenon DEF Fresh, Booting
    <2>3. CASE Admit
      <3>1. CASE Admits(epoch) /\ pc' = "recv"
        BY <2>3, <3>1, Zenon DEF Admit, Admits, TypeOK, HealthInv, HealthStep, Fresh, Booting
      <3>2. CASE pc' = "regret" /\ UNCHANGED state
        BY <2>3, <3>2, Zenon DEF Admit, HealthStep, Fresh, Booting
      <3> QED
        BY <2>3, <3>1, <3>2, Zenon DEF Admit
    <2>4. CASE \/ Open("boot", "boot_ack") \/ Ack("boot_ack", "boot_admit")
               \/ OpenFails("boot_ack", "failed") \/ Stops
      BY <2>4, Zenon DEF Open, Ack, OpenFails, Stops, HealthStep, Fresh, Booting
    <2>5. CASE \/ Recv \/ Restore \/ Sleep \/ ReadEpoch \/ ReadStopped
               \/ StoreSubscriber \/ Drain
      <3>1. UNCHANGED state /\ ~Fresh /\ ~Fresh'
        BY <2>5, Zenon DEF Recv, Restore, Sleep, ReadEpoch, ReadStopped, StoreSubscriber, Drain,
           Fresh, Booting
      <3> QED
        BY <3>1, Zenon DEF HealthStep
    <2>6. CASE \/ Open("open", "connect") \/ Ack("connect", "acked") \/ OpenFails("connect", "sleep")
               \/ TakeSubscriber("drop", "restore") \/ TakeSubscriber("regret", "restore")
      BY <2>6, Zenon DEF Open, Ack, OpenFails, TakeSubscriber, HealthStep, Fresh, Booting
    <2> QED
      BY <1>4, <2>1, <2>2, <2>3, <2>4, <2>5, <2>6, Zenon DEF Supervisor
  <1>5. ASSUME NEW p \in Publishers, Publish(p) PROVE HealthStep
    BY <1>5, Zenon DEF Publish, PublishGoesOn, PublishChecks, PublishEnters, PublishReturns,
       HealthStep, Fresh, Booting
  <1>6. ASSUME NEW s \in Shutters, Shutdown(s) \/ DropShutdown(s) PROVE HealthStep
    <2>1. CASE StopBackplane(s)
      <3>1. UNCHANGED pc /\ state' = [state EXCEPT !.kind = "Stopped"]
        BY <2>1, Zenon DEF StopBackplane
      <3> QED
        BY <3>1, StopStep, Zenon DEF Fresh, Booting
    <2>2. CASE ShutdownTakes(s) \/ ShutdownJoins(s) \/ ShutdownReturns(s) \/ DropShutdown(s)
      <3>1. UNCHANGED <<pc, state>>
        BY <2>2, Zenon DEF ShutdownTakes, ShutdownJoins, ShutdownReturns, DropShutdown
      <3> QED
        BY <3>1, Zenon DEF HealthStep, Fresh, Booting
    <2> QED
      BY <1>6, <2>1, <2>2, Zenon DEF Shutdown, ShutdownGoesOn
  <1>7. CASE DropBackplane
    <2>1. UNCHANGED pc /\ state' = [state EXCEPT !.kind = "Stopped"]
      BY <1>7, Zenon DEF DropBackplane
    <2> QED
      BY <2>1, StopStep, Zenon DEF Fresh, Booting
  <1> QED
    BY <1>1, <1>2, <1>3, <1>4, <1>5, <1>6, <1>7, Zenon DEF Next

\* The subscriber implements BackplaneHealth: epochs only grow, one per
\* acknowledgement after a gap, and a stop is final (admit_connected, disconnect,
\* stop_backplane).
THEOREM HealthRefined == Spec => RefinesHealth
  <1>1. Init => Health!Init
    BY Zenon DEF Init, Health!Init, Booting
  <1>2. HealthStep => [Health!Next]_(Health!vars)
    BY Zenon DEF HealthStep, Fresh, Health!Next, Health!Acknowledge, Health!Disconnect, Health!Stop,
       Health!vars
  <1>3. UNCHANGED vars => UNCHANGED Health!vars
    BY Zenon DEF vars, Health!vars, Booting
  <1>4. BackplaneInv /\ [Next]_vars => [Health!Next]_(Health!vars)
    BY <1>2, <1>3, NextHealth, Zenon
  <1> QED
    BY <1>1, <1>4, BackplaneInvariant, PTL DEF Spec, RefinesHealth, Health!Spec
=================================================================================
