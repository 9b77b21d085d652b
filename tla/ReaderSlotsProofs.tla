--------------------------- MODULE ReaderSlotsProofs ---------------------------
(***************************************************************************)
(* Machine-checked safety of the reader/writer lock of ReaderSlots, for    *)
(* every finite set of threads and every assignment of threads to slots    *)
(* and of slots to bitmap words.                                           *)
(***************************************************************************)
EXTENDS ReaderSlots, FiniteSetTheorems, TLAPS

Assumptions ==
    /\ IsFiniteSet(Threads) /\ NoThread \notin Threads
    /\ NoSlot \notin Slots
    /\ SlotOf \in [Threads -> Slots]
    /\ GroupOf \in [Slots -> Groups]

LEMMA AssumptionsHold == Assumptions
  BY ThreadsAssumption, SlotsAssumption, SlotOfAssumption, GroupOfAssumption
    , Zenon DEF Assumptions

-------------------------------------------------------------------------------
(* Counting. *)

LEMMA ThreadSets ==
    ASSUME NEW S \in SUBSET Threads
    PROVE  /\ IsFiniteSet(S)
           /\ Cardinality(S) \in Nat
           /\ Cardinality(S) = 0 <=> S = {}
           /\ \A t \in Threads \ S : Cardinality(S \cup {t}) = Cardinality(S) + 1
           /\ \A t \in S : Cardinality(S \ {t}) = Cardinality(S) - 1
  <1>1. IsFiniteSet(S)
    BY ThreadsAssumption, FS_Subset, Zenon
  <1> QED
    BY <1>1, FS_CardinalityType, FS_EmptySet, FS_AddElement, FS_RemoveElement, Zenon

\* A step that leaves the slots and the reservations alone keeps the counts.
LEMMA CountsKept ==
    ASSUME CountInv, held' = held, local' = local, shared' = shared
    PROVE  CountInv'
  <1>1. \A s \in Slots, kind \in {"local", "shared"} : Holders(s, kind)' = Holders(s, kind)
    BY Zenon DEF Holders
  <1> QED
    BY <1>1, Zenon DEF CountInv

\* A count of zero is the absence of reservations.
LEMMA ZeroCounts ==
    ASSUME CountInv, NEW s \in Slots, NEW r \in Threads, SlotOf[r] = s
    PROVE  /\ local[s] = 0 => held[r] # "local"
           /\ shared[s] = 0 => held[r] # "shared"
  <1>1. \A kind \in {"local", "shared"} : Cardinality(Holders(s, kind)) = 0 => held[r] # kind
    <2> SUFFICES ASSUME NEW kind \in {"local", "shared"}, Cardinality(Holders(s, kind)) = 0
                 PROVE  held[r] # kind
      BY Zenon
    <2>1. Holders(s, kind) = {}
      BY ThreadSets, Zenon DEF Holders
    <2> QED
      BY <2>1, Zenon DEF Holders
  <1> QED
    BY <1>1, Zenon DEF CountInv

\* Publishing a count.
LEMMA CountUp ==
    ASSUME TypeOK, CountInv, NEW t \in Threads, NEW kind \in {"local", "shared"},
           held[t] = "none", held' = [held EXCEPT ![t] = kind],
           local' = IF kind = "local" THEN [local EXCEPT ![SlotOf[t]] = @ + 1] ELSE local,
           shared' = IF kind = "shared" THEN [shared EXCEPT ![SlotOf[t]] = @ + 1] ELSE shared
    PROVE  /\ CountInv'
           /\ local' \in [Slots -> Nat] /\ shared' \in [Slots -> Nat]
  <1> DEFINE x == SlotOf[t]
  <1>1. x \in Slots
    BY SlotOfAssumption, Zenon
  <1>2. Holders(x, kind)' = Holders(x, kind) \cup {t} /\ t \notin Holders(x, kind)
    BY Zenon DEF Holders, TypeOK
  <1>3. \A s \in Slots, k \in {"local", "shared"} :
            s # x \/ k # kind => Holders(s, k)' = Holders(s, k)
    BY Zenon DEF Holders, TypeOK
  <1>4. Cardinality(Holders(x, kind)') = Cardinality(Holders(x, kind)) + 1
    BY <1>2, ThreadSets, Zenon DEF Holders
  <1> QED
    BY <1>1, <1>3, <1>4 DEF CountInv, TypeOK

\* Taking a count back.
LEMMA CountDown ==
    ASSUME TypeOK, CountInv, NEW t \in Threads, NEW kind \in {"local", "shared"},
           held[t] = kind, held' = [held EXCEPT ![t] = "none"],
           local' = IF kind = "local" THEN [local EXCEPT ![SlotOf[t]] = @ - 1] ELSE local,
           shared' = IF kind = "shared" THEN [shared EXCEPT ![SlotOf[t]] = @ - 1] ELSE shared
    PROVE  /\ CountInv'
           /\ local' \in [Slots -> Nat] /\ shared' \in [Slots -> Nat]
  <1> DEFINE x == SlotOf[t]
  <1>1. x \in Slots
    BY SlotOfAssumption, Zenon
  <1>2. Holders(x, kind)' = Holders(x, kind) \ {t} /\ t \in Holders(x, kind)
    BY Zenon DEF Holders, TypeOK
  <1>3. \A s \in Slots, k \in {"local", "shared"} :
            s # x \/ k # kind => Holders(s, k)' = Holders(s, k)
    BY Zenon DEF Holders, TypeOK
  <1>4. /\ Cardinality(Holders(x, kind)') = Cardinality(Holders(x, kind)) - 1
        /\ Cardinality(Holders(x, kind)') \in Nat
    BY <1>2, ThreadSets, Zenon DEF Holders
  <1> QED
    BY <1>1, <1>3, <1>4 DEF CountInv, TypeOK

-------------------------------------------------------------------------------
(* Every action preserves the inductive invariant. *)

\* A call begins.
LEMMA StartReadPreserves ==
    ASSUME SlotsInv, NEW t \in Threads, StartRead(t)
    PROVE  SlotsInv'
  <1> USE AssumptionsHold DEF Assumptions, SlotsInv, At, Goto, slotVars, waitVars, scanVars, StartRead
  <1>1. CountInv'
    BY CountsKept, Zenon
  <1>2. TypeOK'
    BY Zenon DEF TypeOK, Place
  <1>3. ReserveInv' /\ SerialInv'
    BY Zenon DEF TypeOK, ReserveInv, SerialInv, Writing, Scanning
  <1>4. ScanInv'
    BY DEF TypeOK, ReserveInv, SerialInv, ScanInv, NoReader, Writing, Scanning
  <1>5. {u \in Threads : pc[u] \in Interested}' = {u \in Threads : pc[u] \in Interested}
    BY Zenon DEF TypeOK, Interested, Place
  <1>6. WaitInv'
    BY <1>5, ZenonT(60) DEF TypeOK, SerialInv, WaitInv, Writing, Scanning
  <1> QED
    BY <1>1, <1>2, <1>3, <1>4, <1>6, Zenon

\* The branch matches the owner that was loaded.
LEMMA LoadOwnerPreserves ==
    ASSUME SlotsInv, NEW t \in Threads, LoadOwner(t)
    PROVE  SlotsInv'
  <1> USE AssumptionsHold DEF Assumptions, SlotsInv, At, Goto, slotVars, waitVars, scanVars, LoadOwner
  <1>1. CountInv'
    BY CountsKept, Zenon
  <1>2. TypeOK'
    BY Zenon DEF TypeOK, Place
  <1>3. ReserveInv' /\ SerialInv'
    BY Zenon DEF TypeOK, ReserveInv, SerialInv, Writing, Scanning
  <1>4. ScanInv'
    BY DEF TypeOK, ReserveInv, SerialInv, ScanInv, NoReader, Writing, Scanning
  <1>5. {u \in Threads : pc[u] \in Interested}' = {u \in Threads : pc[u] \in Interested}
    BY Zenon DEF TypeOK, Interested, Place
  <1>6. WaitInv'
    BY <1>5, ZenonT(60) DEF TypeOK, SerialInv, WaitInv, Writing, Scanning
  <1> QED
    BY <1>1, <1>2, <1>3, <1>4, <1>6, Zenon

\* A bit is set before its owner.
LEMMA MarkSlotPreserves ==
    ASSUME SlotsInv, NEW t \in Threads, MarkSlot(t)
    PROVE  SlotsInv'
  <1> USE AssumptionsHold DEF Assumptions, SlotsInv, At, Goto, slotVars, waitVars, scanVars, MarkSlot
  <1>1. CountInv'
    BY CountsKept, Zenon
  <1>2. TypeOK'
    BY ZenonT(60) DEF TypeOK, Place
  <1>3. ReserveInv' /\ SerialInv'
    BY Zenon DEF TypeOK, ReserveInv, SerialInv, Writing, Scanning
  <1>4. ScanInv'
    BY DEF TypeOK, ReserveInv, SerialInv, ScanInv, NoReader, Writing, Scanning
  <1>5. {u \in Threads : pc[u] \in Interested}' = {u \in Threads : pc[u] \in Interested}
    BY Zenon DEF TypeOK, Interested, Place
  <1>6. WaitInv'
    BY <1>5, ZenonT(60) DEF TypeOK, SerialInv, WaitInv, Writing, Scanning
  <1> QED
    BY <1>1, <1>2, <1>3, <1>4, <1>6, Zenon

\* A slot has one owner for ever, and its bit.
LEMMA ClaimSlotPreserves ==
    ASSUME SlotsInv, NEW t \in Threads, ClaimSlot(t)
    PROVE  SlotsInv'
  <1> USE AssumptionsHold DEF Assumptions, SlotsInv, At, Goto, slotVars, waitVars, scanVars, ClaimSlot
  <1>1. CountInv'
    BY CountsKept, Zenon
  <1>2. TypeOK'
    BY DEF TypeOK, Place
  <1>3. ReserveInv' /\ SerialInv'
    BY DEF TypeOK, ReserveInv, SerialInv, Writing, Scanning
  <1>4. ScanInv'
    BY DEF TypeOK, ReserveInv, SerialInv, ScanInv, NoReader, Writing, Scanning
  <1>5. {u \in Threads : pc[u] \in Interested}' = {u \in Threads : pc[u] \in Interested}
    BY Zenon DEF TypeOK, Interested, Place
  <1>6. WaitInv'
    BY <1>5, ZenonT(60) DEF TypeOK, SerialInv, WaitInv, Writing, Scanning
  <1> QED
    BY <1>1, <1>2, <1>3, <1>4, <1>6, Zenon

\* The owner publishes its count.
LEMMA CountLocalPreserves ==
    ASSUME SlotsInv, NEW t \in Threads, CountLocal(t)
    PROVE  SlotsInv'
  <1> USE AssumptionsHold DEF Assumptions, SlotsInv, At, Goto, slotVars, waitVars, scanVars, CountLocal
  <1>1. /\ CountInv'
        /\ local' \in [Slots -> Nat] /\ shared' \in [Slots -> Nat]
    <2>1. held[t] = "none"
      BY Zenon DEF ReserveInv, TypeOK
    <2> QED
      BY <2>1, CountUp, ZenonT(60) DEF TypeOK
  <1>2. TypeOK'
    BY <1>1, Zenon DEF TypeOK, Place
  <1>3. ReserveInv' /\ SerialInv'
    BY Zenon DEF TypeOK, ReserveInv, SerialInv, Writing, Scanning
  <1>4. ScanInv'
    BY DEF TypeOK, ReserveInv, SerialInv, ScanInv, NoReader, Writing, Scanning
  <1>5. {u \in Threads : pc[u] \in Interested}' = {u \in Threads : pc[u] \in Interested}
    BY Zenon DEF TypeOK, Interested, Place
  <1>6. WaitInv'
    BY <1>5, ZenonT(60) DEF TypeOK, SerialInv, WaitInv, Writing, Scanning
  <1> QED
    BY <1>1, <1>2, <1>3, <1>4, <1>6, Zenon

\* A colliding thread publishes its count.
LEMMA CountSharedPreserves ==
    ASSUME SlotsInv, NEW t \in Threads, CountShared(t)
    PROVE  SlotsInv'
  <1> USE AssumptionsHold DEF Assumptions, SlotsInv, At, Goto, slotVars, waitVars, scanVars, CountShared
  <1>1. /\ CountInv'
        /\ local' \in [Slots -> Nat] /\ shared' \in [Slots -> Nat]
    <2>1. held[t] = "none"
      BY Zenon DEF ReserveInv, TypeOK
    <2> QED
      BY <2>1, CountUp, ZenonT(60) DEF TypeOK
  <1>2. TypeOK'
    BY <1>1, Zenon DEF TypeOK, Place
  <1>3. ReserveInv' /\ SerialInv'
    BY Zenon DEF TypeOK, ReserveInv, SerialInv, Writing, Scanning
  <1>4. ScanInv'
    BY DEF TypeOK, ReserveInv, SerialInv, ScanInv, NoReader, Writing, Scanning
  <1>5. {u \in Threads : pc[u] \in Interested}' = {u \in Threads : pc[u] \in Interested}
    BY Zenon DEF TypeOK, Interested, Place
  <1>6. WaitInv'
    BY <1>5, ZenonT(60) DEF TypeOK, SerialInv, WaitInv, Writing, Scanning
  <1> QED
    BY <1>1, <1>2, <1>3, <1>4, <1>6, Zenon

\* A reader is admitted only while no writer scans.
LEMMA CheckGatePreserves ==
    ASSUME SlotsInv, NEW t \in Threads, CheckGate(t)
    PROVE  SlotsInv'
  <1> USE AssumptionsHold DEF Assumptions, SlotsInv, At, Goto, slotVars, waitVars, scanVars, CheckGate
  <1>1. CountInv'
    BY CountsKept, Zenon
  <1>2. TypeOK'
    BY Zenon DEF TypeOK, Place
  <1>3. ReserveInv' /\ SerialInv'
    BY Zenon DEF TypeOK, ReserveInv, SerialInv, Writing, Scanning
  <1>4. ScanInv'
    BY DEF TypeOK, ReserveInv, SerialInv, ScanInv, NoReader, Writing, Scanning
  <1>5. {u \in Threads : pc[u] \in Interested}' = {u \in Threads : pc[u] \in Interested}
    BY Zenon DEF TypeOK, Interested, Place
  <1>6. WaitInv'
    BY <1>5, ZenonT(60) DEF TypeOK, SerialInv, WaitInv, Writing, Scanning
  <1> QED
    BY <1>1, <1>2, <1>3, <1>4, <1>6, Zenon

\* A reservation is taken back.
LEMMA UnreservePreserves ==
    ASSUME SlotsInv, NEW t \in Threads, Unreserve(t)
    PROVE  SlotsInv'
  <1> USE AssumptionsHold DEF Assumptions, SlotsInv, At, Goto, slotVars, waitVars, scanVars, Unreserve
  <1>1. /\ CountInv'
        /\ local' \in [Slots -> Nat] /\ shared' \in [Slots -> Nat]
    <2>1. CASE held[t] = "local"
      BY <2>1, CountDown, ZenonT(60)
    <2>2. CASE held[t] = "shared"
      BY <2>2, CountDown, ZenonT(60)
    <2> QED
      BY <2>1, <2>2, Zenon
  <1>2. TypeOK'
    BY <1>1, Zenon DEF TypeOK, Place
  <1>3. ReserveInv' /\ SerialInv'
    BY DEF TypeOK, ReserveInv, SerialInv, Writing, Scanning
  <1>4. ScanInv'
    BY DEF TypeOK, ReserveInv, SerialInv, ScanInv, NoReader, Writing, Scanning
  <1>5. {u \in Threads : pc[u] \in Interested}' = {u \in Threads : pc[u] \in Interested}
    BY Zenon DEF TypeOK, Interested, Place
  <1>6. WaitInv'
    BY <1>5, ZenonT(60) DEF TypeOK, SerialInv, WaitInv, Writing, Scanning
  <1> QED
    BY <1>1, <1>2, <1>3, <1>4, <1>6, Zenon

\* Interest is counted before the gate is checked.
LEMMA AnnouncePreserves ==
    ASSUME SlotsInv, NEW t \in Threads, Announce(t)
    PROVE  SlotsInv'
  <1> USE AssumptionsHold DEF Assumptions, SlotsInv, At, Goto, slotVars, waitVars, scanVars, Announce
  <1>1. CountInv'
    BY CountsKept, Zenon
  <1>2. waiting' = Cardinality({u \in Threads : pc[u] \in Interested}') /\ waiting' \in Nat
    <2> DEFINE I == {u \in Threads : pc[u] \in Interested}
    <2>1. I' = I \cup {t} /\ t \notin I
      BY DEF TypeOK, Interested, Place
    <2> HIDE DEF I
    <2>2. I \in SUBSET Threads
      BY Zenon DEF I
    <2>3. waiting = Cardinality(I)
      BY Zenon DEF WaitInv, I
    <2>4. Cardinality(I') = Cardinality(I) + 1
      BY <2>1, <2>2, ThreadSets, Zenon
    <2> QED
      BY <2>3, <2>4 DEF I, TypeOK
  <1>3. TypeOK'
    BY <1>2, Zenon DEF TypeOK, Place
  <1>4. ReserveInv' /\ SerialInv'
    BY Zenon DEF TypeOK, ReserveInv, SerialInv, Writing, Scanning
  <1>5. ScanInv'
    BY DEF TypeOK, ReserveInv, SerialInv, ScanInv, NoReader, Writing, Scanning
  <1>6. WaitInv'
    BY <1>2, Zenon DEF TypeOK, SerialInv, WaitInv, Writing, Scanning
  <1> QED
    BY <1>1, <1>3, <1>4, <1>5, <1>6, Zenon

\* The waiters' mutex is taken.
LEMMA ParkLockPreserves ==
    ASSUME SlotsInv, NEW t \in Threads, ParkLock(t)
    PROVE  SlotsInv'
  <1> USE AssumptionsHold DEF Assumptions, SlotsInv, At, Goto, slotVars, waitVars, scanVars, ParkLock
  <1>1. CountInv'
    BY CountsKept, Zenon
  <1>2. TypeOK'
    BY Zenon DEF TypeOK, Place
  <1>3. ReserveInv' /\ SerialInv'
    BY Zenon DEF TypeOK, ReserveInv, SerialInv, Writing, Scanning
  <1>4. ScanInv'
    BY DEF TypeOK, ReserveInv, SerialInv, ScanInv, NoReader, Writing, Scanning
  <1>5. {u \in Threads : pc[u] \in Interested}' = {u \in Threads : pc[u] \in Interested}
    BY Zenon DEF TypeOK, Interested, Place
  <1>6. WaitInv'
    BY <1>5, ZenonT(60) DEF TypeOK, SerialInv, WaitInv, Writing, Scanning
  <1> QED
    BY <1>1, <1>2, <1>3, <1>4, <1>6, Zenon

\* A reader goes to park only in front of a closed gate.
LEMMA ParkCheckPreserves ==
    ASSUME SlotsInv, NEW t \in Threads, ParkCheck(t)
    PROVE  SlotsInv'
  <1> USE AssumptionsHold DEF Assumptions, SlotsInv, At, Goto, slotVars, waitVars, scanVars, ParkCheck
  <1>1. CountInv'
    BY CountsKept, Zenon
  <1>2. TypeOK'
    BY Zenon DEF TypeOK, Place
  <1>3. ReserveInv' /\ SerialInv'
    BY Zenon DEF TypeOK, ReserveInv, SerialInv, Writing, Scanning
  <1>4. ScanInv'
    BY DEF TypeOK, ReserveInv, SerialInv, ScanInv, NoReader, Writing, Scanning
  <1>5. {u \in Threads : pc[u] \in Interested}' = {u \in Threads : pc[u] \in Interested}
    BY Zenon DEF TypeOK, Interested, Place
  <1>6. WaitInv'
    BY <1>5, ZenonT(60) DEF TypeOK, SerialInv, WaitInv, Writing, Scanning
  <1> QED
    BY <1>1, <1>2, <1>3, <1>4, <1>6, Zenon

\* Sleeping gives the waiters' mutex back.
LEMMA ParkPreserves ==
    ASSUME SlotsInv, NEW t \in Threads, Park(t)
    PROVE  SlotsInv'
  <1> USE AssumptionsHold DEF Assumptions, SlotsInv, At, Goto, slotVars, waitVars, scanVars, Park
  <1>1. CountInv'
    BY CountsKept, Zenon
  <1>2. TypeOK'
    BY Zenon DEF TypeOK, Place
  <1>3. ReserveInv' /\ SerialInv'
    BY Zenon DEF TypeOK, ReserveInv, SerialInv, Writing, Scanning
  <1>4. ScanInv'
    BY DEF TypeOK, ReserveInv, SerialInv, ScanInv, NoReader, Writing, Scanning
  <1>5. {u \in Threads : pc[u] \in Interested}' = {u \in Threads : pc[u] \in Interested}
    BY Zenon DEF TypeOK, Interested, Place
  <1>6. WaitInv'
    BY <1>5, ZenonT(60) DEF TypeOK, SerialInv, WaitInv, Writing, Scanning
  <1> QED
    BY <1>1, <1>2, <1>3, <1>4, <1>6, Zenon

\* Interest is withdrawn.
LEMMA UnannouncePreserves ==
    ASSUME SlotsInv, NEW t \in Threads, Unannounce(t)
    PROVE  SlotsInv'
  <1> USE AssumptionsHold DEF Assumptions, SlotsInv, At, Goto, slotVars, waitVars, scanVars, Unannounce
  <1>1. CountInv'
    BY CountsKept, Zenon
  <1>2. waiting' = Cardinality({u \in Threads : pc[u] \in Interested}') /\ waiting' \in Nat
    <2> DEFINE I == {u \in Threads : pc[u] \in Interested}
    <2>1. I' = I \ {t} /\ t \in I
      BY Zenon DEF TypeOK, Interested
    <2> HIDE DEF I
    <2>2. I \in SUBSET Threads
      BY Zenon DEF I
    <2>3. waiting = Cardinality(I)
      BY Zenon DEF WaitInv, I
    <2>4. Cardinality(I') = Cardinality(I) - 1 /\ Cardinality(I') \in Nat
      BY <2>1, <2>2, ThreadSets, Zenon
    <2> QED
      BY <2>3, <2>4, Zenon DEF I
  <1>3. TypeOK'
    BY <1>2, Zenon DEF TypeOK, Place
  <1>4. ReserveInv' /\ SerialInv'
    BY Zenon DEF TypeOK, ReserveInv, SerialInv, Writing, Scanning
  <1>5. ScanInv'
    BY DEF TypeOK, ReserveInv, SerialInv, ScanInv, NoReader, Writing, Scanning
  <1>6. WaitInv'
    BY <1>2, Zenon DEF TypeOK, SerialInv, WaitInv, Writing, Scanning
  <1> QED
    BY <1>1, <1>3, <1>4, <1>5, <1>6, Zenon

\* The serial mutex admits one writer.
LEMMA StartWritePreserves ==
    ASSUME SlotsInv, NEW t \in Threads, StartWrite(t)
    PROVE  SlotsInv'
  <1> USE AssumptionsHold DEF Assumptions, SlotsInv, At, Goto, slotVars, waitVars, scanVars, StartWrite
  <1>1. CountInv'
    BY CountsKept, Zenon
  <1>2. TypeOK'
    BY Zenon DEF TypeOK, Place
  <1>3. ReserveInv' /\ SerialInv'
    BY Zenon DEF TypeOK, ReserveInv, SerialInv, Writing, Scanning
  <1>4. ScanInv'
    BY Zenon DEF TypeOK, ReserveInv, SerialInv, ScanInv, NoReader, Writing, Scanning
  <1>5. {u \in Threads : pc[u] \in Interested}' = {u \in Threads : pc[u] \in Interested}
    BY Zenon DEF TypeOK, Interested, Place
  <1>6. WaitInv'
    BY <1>5, ZenonT(60) DEF TypeOK, SerialInv, WaitInv, Writing, Scanning
  <1> QED
    BY <1>1, <1>2, <1>3, <1>4, <1>6, Zenon

\* Nothing is scanned yet when the gate closes.
LEMMA ClosePreserves ==
    ASSUME SlotsInv, NEW t \in Threads, Close(t)
    PROVE  SlotsInv'
  <1> USE AssumptionsHold DEF Assumptions, SlotsInv, At, Goto, slotVars, waitVars, scanVars, Close
  <1>1. CountInv'
    BY CountsKept, Zenon
  <1>2. TypeOK'
    BY Zenon DEF TypeOK, Place
  <1>3. ReserveInv' /\ SerialInv'
    BY Zenon DEF TypeOK, ReserveInv, SerialInv, Writing, Scanning
  <1>4. ScanInv'
    BY Zenon DEF TypeOK, ReserveInv, SerialInv, ScanInv, NoReader, Writing, Scanning
  <1>5. {u \in Threads : pc[u] \in Interested}' = {u \in Threads : pc[u] \in Interested}
    BY Zenon DEF TypeOK, Interested, Place
  <1>6. WaitInv'
    BY <1>5, ZenonT(60) DEF TypeOK, SerialInv, WaitInv, Writing, Scanning
  <1> QED
    BY <1>1, <1>2, <1>3, <1>4, <1>6, Zenon

\* A slot whose bit is not set has no admitted reader.
LEMMA ScanGroupPreserves ==
    ASSUME SlotsInv, NEW t \in Threads, ScanGroup(t)
    PROVE  SlotsInv'
  <1> USE AssumptionsHold DEF Assumptions, SlotsInv, At, Goto, slotVars, waitVars, scanVars, ScanGroup
  <1>1. CountInv'
    BY CountsKept, Zenon
  <1>2. TypeOK'
    BY Zenon DEF TypeOK, Place
  <1>3. ReserveInv' /\ SerialInv'
    BY DEF TypeOK, ReserveInv, SerialInv, Writing, Scanning
  <1>4. ScanInv'
    BY DEF TypeOK, ReserveInv, SerialInv, ScanInv, NoReader, Writing, Scanning
  <1>5. {u \in Threads : pc[u] \in Interested}' = {u \in Threads : pc[u] \in Interested}
    BY Zenon DEF TypeOK, Interested, Place
  <1>6. WaitInv'
    BY <1>5, ZenonT(60) DEF TypeOK, SerialInv, WaitInv, Writing, Scanning
  <1> QED
    BY <1>1, <1>2, <1>3, <1>4, <1>6, Zenon

\* The next set bit.
LEMMA ScanPickPreserves ==
    ASSUME SlotsInv, NEW t \in Threads, ScanPick(t)
    PROVE  SlotsInv'
  <1> USE AssumptionsHold DEF Assumptions, SlotsInv, At, Goto, slotVars, waitVars, scanVars, ScanPick
  <1>1. CountInv'
    BY CountsKept, Zenon
  <1>2. TypeOK'
    BY Zenon DEF TypeOK, Place
  <1>3. ReserveInv' /\ SerialInv'
    BY Zenon DEF TypeOK, ReserveInv, SerialInv, Writing, Scanning
  <1>4. ScanInv'
    BY DEF TypeOK, ReserveInv, SerialInv, ScanInv, NoReader, Writing, Scanning
  <1>5. {u \in Threads : pc[u] \in Interested}' = {u \in Threads : pc[u] \in Interested}
    BY Zenon DEF TypeOK, Interested, Place
  <1>6. WaitInv'
    BY <1>5, ZenonT(60) DEF TypeOK, SerialInv, WaitInv, Writing, Scanning
  <1> QED
    BY <1>1, <1>2, <1>3, <1>4, <1>6, Zenon

\* A local count of zero: no local reader.
LEMMA ScanLocalPreserves ==
    ASSUME SlotsInv, NEW t \in Threads, ScanLocal(t)
    PROVE  SlotsInv'
  <1> USE AssumptionsHold DEF Assumptions, SlotsInv, At, Goto, slotVars, waitVars, scanVars, ScanLocal
  <1>1. CountInv'
    BY CountsKept, Zenon DEF Busy
  <1>2. TypeOK'
    BY Zenon DEF TypeOK, Place, Busy
  <1>3. ReserveInv' /\ SerialInv'
    BY DEF TypeOK, ReserveInv, SerialInv, Writing, Scanning, Busy
  <1>4. ScanInv'
    <2>1. cur \in Slots
      BY Zenon DEF ScanInv
    <2>2. CASE local[cur] # 0
      BY <2>2, SMTT(60) DEF TypeOK, SerialInv, ScanInv, NoReader, Writing, Scanning, Busy
    <2>3. CASE local[cur] = 0
      <3>1. \A r \in Threads : SlotOf[r] = cur => held[r] # "local"
        BY <2>1, <2>3, ZeroCounts, Zenon
      <3>2. \A r \in Threads : SlotOf[r] = cur /\ At(r, "reading") => held[r] \in {"local", "shared"}
        BY Zenon DEF ReserveInv, TypeOK
      <3> QED
        BY <2>1, <2>3, <3>1, <3>2, SMTT(60) DEF TypeOK, SerialInv, ScanInv, NoReader, Writing, Scanning
    <2> QED
      BY <2>2, <2>3, Zenon
  <1>5. {u \in Threads : pc[u] \in Interested}' = {u \in Threads : pc[u] \in Interested}
    BY Zenon DEF TypeOK, Interested, Place, Busy
  <1>6. WaitInv'
    BY <1>5, ZenonT(60) DEF TypeOK, SerialInv, WaitInv, Writing, Scanning, Busy
  <1> QED
    BY <1>1, <1>2, <1>3, <1>4, <1>6, Zenon

\* Both counts zero: no reader, and none will be admitted.
LEMMA ScanSharedPreserves ==
    ASSUME SlotsInv, NEW t \in Threads, ScanShared(t)
    PROVE  SlotsInv'
  <1> USE AssumptionsHold DEF Assumptions, SlotsInv, At, Goto, slotVars, waitVars, scanVars, ScanShared
  <1>1. CountInv'
    BY CountsKept, Zenon DEF Busy
  <1>2. TypeOK'
    BY Zenon DEF TypeOK, Place, Busy
  <1>3. ReserveInv' /\ SerialInv'
    BY DEF TypeOK, ReserveInv, SerialInv, Writing, Scanning, Busy
  <1>4. ScanInv'
    <2>1. cur \in Slots
      BY Zenon DEF ScanInv
    <2>2. CASE shared[cur] # 0
      BY <2>2 DEF TypeOK, SerialInv, ScanInv, NoReader, Writing, Scanning, Busy
    <2>3. CASE shared[cur] = 0
      <3>1. \A r \in Threads : SlotOf[r] = cur => held[r] # "shared"
        BY <2>1, <2>3, ZeroCounts, Zenon
      <3>2. \A r \in Threads : SlotOf[r] = cur /\ At(r, "reading") => held[r] \in {"local", "shared"}
        BY Zenon DEF ReserveInv, TypeOK
      <3> QED
        BY <2>1, <2>3, <3>1, <3>2 DEF TypeOK, SerialInv, ScanInv, NoReader, Writing, Scanning
    <2> QED
      BY <2>2, <2>3, Zenon
  <1>5. {u \in Threads : pc[u] \in Interested}' = {u \in Threads : pc[u] \in Interested}
    BY Zenon DEF TypeOK, Interested, Place, Busy
  <1>6. WaitInv'
    BY <1>5, ZenonT(60) DEF TypeOK, SerialInv, WaitInv, Writing, Scanning, Busy
  <1> QED
    BY <1>1, <1>2, <1>3, <1>4, <1>6, Zenon

\* The writer is done with the value.
LEMMA EndWritePreserves ==
    ASSUME SlotsInv, NEW t \in Threads, EndWrite(t)
    PROVE  SlotsInv'
  <1> USE AssumptionsHold DEF Assumptions, SlotsInv, At, Goto, slotVars, waitVars, scanVars, EndWrite
  <1>1. CountInv'
    BY CountsKept, Zenon
  <1>2. TypeOK'
    BY Zenon DEF TypeOK, Place
  <1>3. ReserveInv' /\ SerialInv'
    BY Zenon DEF TypeOK, ReserveInv, SerialInv, Writing, Scanning
  <1>4. ScanInv'
    BY DEF TypeOK, ReserveInv, SerialInv, ScanInv, NoReader, Writing, Scanning
  <1>5. {u \in Threads : pc[u] \in Interested}' = {u \in Threads : pc[u] \in Interested}
    BY Zenon DEF TypeOK, Interested, Place
  <1>6. WaitInv'
    BY <1>5, ZenonT(60) DEF TypeOK, SerialInv, WaitInv, Writing, Scanning
  <1> QED
    BY <1>1, <1>2, <1>3, <1>4, <1>6, Zenon

\* The opening writer is still to look for interest.
LEMMA OpenPreserves ==
    ASSUME SlotsInv, NEW t \in Threads, Open(t)
    PROVE  SlotsInv'
  <1> USE AssumptionsHold DEF Assumptions, SlotsInv, At, Goto, slotVars, waitVars, scanVars, Open
  <1>1. CountInv'
    BY CountsKept, Zenon
  <1>2. TypeOK'
    BY ZenonT(60) DEF TypeOK, Place
  <1>3. ReserveInv' /\ SerialInv'
    BY Zenon DEF TypeOK, ReserveInv, SerialInv, Writing, Scanning
  <1>4. ScanInv'
    BY DEF TypeOK, ReserveInv, SerialInv, ScanInv, NoReader, Writing, Scanning
  <1>5. {u \in Threads : pc[u] \in Interested}' = {u \in Threads : pc[u] \in Interested}
    BY Zenon DEF TypeOK, Interested, Place
  <1>6. WaitInv'
    BY <1>5, ZenonT(60) DEF TypeOK, SerialInv, WaitInv, Writing, Scanning
  <1> QED
    BY <1>1, <1>2, <1>3, <1>4, <1>6, Zenon

\* Without interest nobody sleeps.
LEMMA CheckWaitingPreserves ==
    ASSUME SlotsInv, NEW t \in Threads, CheckWaiting(t)
    PROVE  SlotsInv'
  <1> USE AssumptionsHold DEF Assumptions, SlotsInv, At, Goto, slotVars, waitVars, scanVars, CheckWaiting
  <1>1. CountInv'
    BY CountsKept, Zenon
  <1>2. TypeOK'
    BY Zenon DEF TypeOK, Place
  <1>3. ReserveInv' /\ SerialInv'
    BY Zenon DEF TypeOK, ReserveInv, SerialInv, Writing, Scanning
  <1>4. ScanInv'
    BY DEF TypeOK, ReserveInv, SerialInv, ScanInv, NoReader, Writing, Scanning
  <1>5. {u \in Threads : pc[u] \in Interested}' = {u \in Threads : pc[u] \in Interested}
    BY Zenon DEF TypeOK, Interested, Place
  <1>6. waiting = 0 => \A r \in Threads : pc[r] \notin Interested
    BY ThreadSets, Zenon DEF WaitInv
  <1>7. WaitInv'
    BY <1>5, <1>6, Zenon DEF TypeOK, SerialInv, WaitInv, Writing, Scanning, Interested
  <1> QED
    BY <1>1, <1>2, <1>3, <1>4, <1>7, Zenon

\* Every sleeper is woken, and none is between check and sleep.
LEMMA NotifyPreserves ==
    ASSUME SlotsInv, NEW t \in Threads, Notify(t)
    PROVE  SlotsInv'
  <1> USE AssumptionsHold DEF Assumptions, SlotsInv, At, Goto, slotVars, waitVars, scanVars, Notify
  <1>1. CountInv'
    BY CountsKept, Zenon
  <1>2. TypeOK'
    BY Zenon DEF TypeOK, Place
  <1>3. ReserveInv' /\ SerialInv'
    BY Zenon DEF TypeOK, ReserveInv, SerialInv, Writing, Scanning
  <1>4. ScanInv'
    BY Zenon DEF TypeOK, ReserveInv, SerialInv, ScanInv, NoReader, Writing, Scanning
  <1>5. {u \in Threads : pc[u] \in Interested}' = {u \in Threads : pc[u] \in Interested}
    BY Zenon DEF TypeOK, Interested, Place
  <1>6. WaitInv'
    BY <1>5, ZenonT(60) DEF TypeOK, SerialInv, WaitInv, Writing, Scanning
  <1> QED
    BY <1>1, <1>2, <1>3, <1>4, <1>6, Zenon

\* The serial mutex is given back.
LEMMA UnlockPreserves ==
    ASSUME SlotsInv, NEW t \in Threads, Unlock(t)
    PROVE  SlotsInv'
  <1> USE AssumptionsHold DEF Assumptions, SlotsInv, At, Goto, slotVars, waitVars, scanVars, Unlock
  <1>1. CountInv'
    BY CountsKept, Zenon
  <1>2. TypeOK'
    BY Zenon DEF TypeOK, Place
  <1>3. ReserveInv' /\ SerialInv'
    BY Zenon DEF TypeOK, ReserveInv, SerialInv, Writing, Scanning
  <1>4. ScanInv'
    BY DEF TypeOK, ReserveInv, SerialInv, ScanInv, NoReader, Writing, Scanning
  <1>5. {u \in Threads : pc[u] \in Interested}' = {u \in Threads : pc[u] \in Interested}
    BY Zenon DEF TypeOK, Interested, Place
  <1>6. WaitInv'
    BY <1>5, ZenonT(60) DEF TypeOK, SerialInv, WaitInv, Writing, Scanning
  <1> QED
    BY <1>1, <1>2, <1>3, <1>4, <1>6, Zenon

-------------------------------------------------------------------------------
(* The theorems. *)

\* The inductive invariant of the lock: counts are reservations, what a writer
\* has scanned stays without readers, interest is never missed.
THEOREM SlotsInvariant == Spec => []SlotsInv
  <1> USE AssumptionsHold DEF Assumptions
  <1>1. Init => SlotsInv
    <2> SUFFICES ASSUME Init PROVE SlotsInv
      BY Zenon
    <2> USE DEF Init
    <2>1. TypeOK /\ ReserveInv /\ SerialInv /\ ScanInv
      BY ZenonT(60) DEF TypeOK, ReserveInv, SerialInv, ScanInv, Place, At, Writing, Scanning
    <2>2. CountInv
      <3>1. \A s \in Slots, kind \in {"local", "shared"} : Holders(s, kind) = {}
        BY Zenon DEF Holders
      <3> QED
        BY <3>1, FS_EmptySet, Zenon DEF CountInv
    <2>3. WaitInv
      <3>1. {t \in Threads : pc[t] \in Interested} = {}
        BY Zenon DEF Interested
      <3> QED
        BY <3>1, FS_EmptySet, Zenon DEF WaitInv
    <2> QED
      BY <2>1, <2>2, <2>3, Zenon DEF SlotsInv
  <1>2. SlotsInv /\ [Next]_vars => SlotsInv'
    <2> SUFFICES ASSUME SlotsInv, [Next]_vars PROVE SlotsInv'
      BY Zenon
    <2>1. ASSUME NEW t \in Threads, Step(t) PROVE SlotsInv'
      BY <2>1, StartReadPreserves, LoadOwnerPreserves, MarkSlotPreserves,
         ClaimSlotPreserves, CountLocalPreserves, CountSharedPreserves,
         CheckGatePreserves, UnreservePreserves, AnnouncePreserves,
         ParkLockPreserves, ParkCheckPreserves, ParkPreserves,
         UnannouncePreserves, StartWritePreserves, ClosePreserves,
         ScanGroupPreserves, ScanPickPreserves, ScanLocalPreserves,
         ScanSharedPreserves, EndWritePreserves, OpenPreserves,
         CheckWaitingPreserves, NotifyPreserves, UnlockPreserves, Zenon DEF Step, Progress
    <2>2. CASE UNCHANGED vars
      <3>1. CountInv'
        BY <2>2, CountsKept, Zenon DEF vars, SlotsInv
      <3>2. {t \in Threads : pc[t] \in Interested}' = {t \in Threads : pc[t] \in Interested}
        BY <2>2, Zenon DEF vars
      <3> QED
        BY <2>2, <3>1, <3>2, Zenon DEF vars, SlotsInv, TypeOK, ReserveInv, SerialInv, ScanInv,
           WaitInv, NoReader, At
    <2> QED
      BY <2>1, <2>2, Zenon DEF Next
  <1> QED
    BY <1>1, <1>2, PTL DEF Spec

\* Every variable of the lock keeps its type; no count is decremented below zero.
THEOREM SlotsTypes == Spec => []TypeOK
  BY SlotsInvariant, PTL DEF SlotsInv

\* A writer is alone with the value (ReaderSlots::read against write, try_write).
THEOREM WriterAlone == Spec => []WriterIsAlone
  <1>1. SlotsInv => WriterIsAlone
    <2> SUFFICES ASSUME SlotsInv, NEW w \in Threads, NEW t \in Threads,
                        At(w, "writing"), pc[t] \in {"reading", "writing"}
                 PROVE  t = w
      BY Zenon DEF WriterIsAlone
    <2>1. pc[t] # "reading"
      BY SlotOfAssumption, Zenon DEF SlotsInv, ScanInv, NoReader, Scanning, At
    <2> QED
      BY <2>1, Zenon DEF SlotsInv, SerialInv, Writing, At
  <1> QED
    BY <1>1, SlotsInvariant, PTL

\* Only a slot's permanent owner stores its local count (reserve()).
THEOREM OwnerStores == Spec => []LocalHasOneWriter
  <1>1. SlotsInv => LocalHasOneWriter
    BY Zenon DEF SlotsInv, ReserveInv, LocalHasOneWriter
  <1> QED
    BY <1>1, SlotsInvariant, PTL

\* No reader sleeps before an open gate without a notification on its way
\* (wait_for_writer() against WriterHold::drop).
THEOREM SleepersAreNotified == Spec => []NoStrandedReader
  <1>1. SlotsInv => NoStrandedReader
    BY Zenon DEF SlotsInv, WaitInv, NoStrandedReader, At
  <1> QED
    BY <1>1, SlotsInvariant, PTL

================================================================================
