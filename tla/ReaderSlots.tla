------------------------------ MODULE ReaderSlots ------------------------------
(***************************************************************************)
(* The reader/writer lock of an L1 shard, src/reader_slots.rs: readers     *)
(* publish a count in a slot and then look at the writer gate, a writer    *)
(* closes the gate and then scans the published counts.                    *)
(*                                                                         *)
(* Every access to a shared atomic is a step of its own.  The handshake    *)
(* accesses are SeqCst in the code, so steps interleave in one total       *)
(* order.  A load followed by a store of a word only its owner writes      *)
(* (Slot.local) is one step.  A thread carries one guard at a time: the    *)
(* code forbids reentering the same cache under a guard.  Counter overflow *)
(* (a panic at usize::MAX guards) is out of reach.                         *)
(***************************************************************************)
EXTENDS Integers, FiniteSets

CONSTANTS
    Threads,    \* threads that read and write
    NoThread,   \* nobody
    Slots,      \* the padded slots
    NoSlot,     \* no slot
    Groups,     \* runs of usize::BITS slots that share one bitmap word
    SlotOf,     \* reader_index() & (slots.len() - 1)
    GroupOf     \* index / usize::BITS

ASSUME ThreadsAssumption == IsFiniteSet(Threads) /\ NoThread \notin Threads
ASSUME SlotsAssumption == NoSlot \notin Slots
ASSUME SlotOfAssumption == SlotOf \in [Threads -> Slots]
ASSUME GroupOfAssumption == GroupOf \in [Slots -> Groups]

\* Where a thread stands in read(), write() or try_write().
Place == {"idle",
          "owner", "mark", "claim", "local", "shared", "gate", "reading",
          "undo", "announce", "park_lock", "park_check", "park", "asleep",
          "unannounce",
          "close", "scan", "scan_local", "scan_shared", "writing",
          "open", "check_waiting", "notify", "unlock"}

VARIABLES
    owner,        \* Slot.owner: the slot's permanent owner
    local,        \* Slot.local
    shared,       \* Slot.shared
    initialized,  \* the bitmaps: slots whose bit is set
    gate,         \* Gate: TRUE while closed
    serial,       \* holder of the writers' mutex
    waiters,      \* holder of the parked readers' mutex
    waiting,      \* published waiter interest
    pc,
    held,         \* the Reservation a thread carries
    groups,       \* bitmap words the scanning writer has still to load
    used,         \* bits left of the word it loaded
    cur,          \* the slot it is looking at
    blocking      \* write() rather than try_write()

vars == <<owner, local, shared, initialized, gate, serial, waiters, waiting,
          pc, held, groups, used, cur, blocking>>
slotVars == <<owner, local, shared, initialized>>
waitVars == <<waiters, waiting>>
scanVars == <<groups, used, cur, blocking>>

Init ==
    /\ owner = [s \in Slots |-> NoThread]
    /\ local = [s \in Slots |-> 0]
    /\ shared = [s \in Slots |-> 0]
    /\ initialized = {}
    /\ gate = FALSE
    /\ serial = NoThread
    /\ waiters = NoThread
    /\ waiting = 0
    /\ pc = [t \in Threads |-> "idle"]
    /\ held = [t \in Threads |-> "none"]
    /\ groups = {}
    /\ used = {}
    /\ cur = NoSlot
    /\ blocking = FALSE

At(t, place) == pc[t] = place
Goto(t, place) == pc' = [pc EXCEPT ![t] = place]

-------------------------------------------------------------------------------
(* read(): reserve, then check the gate *)

StartRead(t) ==
    /\ At(t, "idle") /\ Goto(t, "owner")
    /\ UNCHANGED <<slotVars, gate, serial, waitVars, held, scanVars>>

\* Mutant: the bit of an unowned slot is not published.
LoadOwnerUnmarked(t) ==
    /\ At(t, "owner")
    /\ Goto(t, IF owner[SlotOf[t]] = NoThread THEN "claim"
               ELSE IF owner[SlotOf[t]] = t THEN "local" ELSE "shared")
    /\ UNCHANGED <<slotVars, gate, serial, waitVars, held, scanVars>>

\* reserve() loads the slot's owner and so chooses its branch.
LoadOwner(t) ==
    /\ At(t, "owner")
    /\ Goto(t, IF owner[SlotOf[t]] = NoThread THEN "mark"
               ELSE IF owner[SlotOf[t]] = t THEN "local" ELSE "shared")
    /\ UNCHANGED <<slotVars, gate, serial, waitVars, held, scanVars>>

\* The bit of an unowned slot is published before its owner.
MarkSlot(t) ==
    /\ At(t, "mark") /\ Goto(t, "claim")
    /\ initialized' = initialized \cup {SlotOf[t]}
    /\ UNCHANGED <<owner, local, shared, gate, serial, waitVars, held, scanVars>>

ClaimSlot(t) ==
    /\ At(t, "claim")
    /\ IF owner[SlotOf[t]] = NoThread
       THEN owner' = [owner EXCEPT ![SlotOf[t]] = t] /\ Goto(t, "local")
       ELSE UNCHANGED owner /\ Goto(t, "shared")
    /\ UNCHANGED <<local, shared, initialized, gate, serial, waitVars, held, scanVars>>

CountLocal(t) ==
    /\ At(t, "local") /\ Goto(t, "gate")
    /\ local' = [local EXCEPT ![SlotOf[t]] = @ + 1]
    /\ held' = [held EXCEPT ![t] = "local"]
    /\ UNCHANGED <<owner, shared, initialized, gate, serial, waitVars, scanVars>>

CountShared(t) ==
    /\ At(t, "shared") /\ Goto(t, "gate")
    /\ shared' = [shared EXCEPT ![SlotOf[t]] = @ + 1]
    /\ held' = [held EXCEPT ![t] = "shared"]
    /\ UNCHANGED <<owner, local, initialized, gate, serial, waitVars, scanVars>>

\* Mutant: a reader that met a closed gate waits for it with its count published.
CheckGateSpins(t) ==
    /\ At(t, "gate")
    /\ Goto(t, IF gate THEN "gate" ELSE "reading")
    /\ UNCHANGED <<slotVars, gate, serial, waitVars, held, scanVars>>

CheckGate(t) ==
    /\ At(t, "gate")
    /\ Goto(t, IF gate THEN "undo" ELSE "reading")
    /\ UNCHANGED <<slotVars, gate, serial, waitVars, held, scanVars>>

\* ReservationGuard::drop, of a finished read or of one that met a closed gate.
Unreserve(t) ==
    /\ \/ At(t, "reading") /\ Goto(t, "idle")
       \/ At(t, "undo") /\ Goto(t, "announce")
    /\ \/ /\ held[t] = "local"
          /\ local' = [local EXCEPT ![SlotOf[t]] = @ - 1]
          /\ UNCHANGED shared
       \/ /\ held[t] = "shared"
          /\ shared' = [shared EXCEPT ![SlotOf[t]] = @ - 1]
          /\ UNCHANGED local
    /\ held' = [held EXCEPT ![t] = "none"]
    /\ UNCHANGED <<owner, initialized, gate, serial, waitVars, scanVars>>

-------------------------------------------------------------------------------
(* wait_for_writer() *)

Announce(t) ==
    /\ At(t, "announce") /\ Goto(t, "park_lock")
    /\ waiting' = waiting + 1
    /\ UNCHANGED <<slotVars, gate, serial, waiters, held, scanVars>>

\* The first lock of the waiters' mutex, and the one a wakeup takes again.
ParkLock(t) ==
    /\ At(t, "park_lock") /\ Goto(t, "park_check")
    /\ waiters = NoThread
    /\ waiters' = t
    /\ UNCHANGED <<slotVars, gate, serial, waiting, held, scanVars>>

ParkCheck(t) ==
    /\ At(t, "park_check")
    /\ Goto(t, IF gate THEN "park" ELSE "unannounce")
    /\ waiters' = IF gate THEN t ELSE NoThread
    /\ UNCHANGED <<slotVars, gate, serial, waiting, held, scanVars>>

\* Condvar::wait unlocks and sleeps in one step.
Park(t) ==
    /\ At(t, "park") /\ Goto(t, "asleep")
    /\ waiters' = NoThread
    /\ UNCHANGED <<slotVars, gate, serial, waiting, held, scanVars>>

\* ... and read() starts over.
Unannounce(t) ==
    /\ At(t, "unannounce") /\ Goto(t, "owner")
    /\ waiting' = waiting - 1
    /\ UNCHANGED <<slotVars, gate, serial, waiters, held, scanVars>>

-------------------------------------------------------------------------------
(* write() and try_write() *)

\* A try_write whose try_lock fails changes nothing.
StartWrite(t) ==
    /\ At(t, "idle") /\ Goto(t, "close")
    /\ serial = NoThread
    /\ serial' = t
    /\ blocking' \in BOOLEAN
    /\ UNCHANGED <<slotVars, gate, waitVars, held, groups, used, cur>>

\* WriterHold::new.
Close(t) ==
    /\ At(t, "close") /\ Goto(t, "scan")
    /\ gate' = TRUE
    /\ groups' = Groups
    /\ UNCHANGED <<slotVars, serial, waitVars, held, used, cur, blocking>>

\* idle() loads the next group's bitmap, or has seen them all.  Which group and
\* which bit come next makes no difference; the code takes them in order.
ScanGroup(t) ==
    /\ At(t, "scan")
    /\ used = {}
    /\ \/ /\ groups = {}
          /\ Goto(t, "writing")
          /\ UNCHANGED <<groups, used>>
       \/ \E g \in groups :
            /\ used' = {s \in initialized : GroupOf[s] = g}
            /\ groups' = groups \ {g}
            /\ UNCHANGED pc
    /\ UNCHANGED <<slotVars, gate, serial, waitVars, held, cur, blocking>>

ScanPick(t) ==
    /\ At(t, "scan") /\ Goto(t, "scan_local")
    /\ \E s \in used : cur' = s
    /\ UNCHANGED <<slotVars, gate, serial, waitVars, held, groups, used, blocking>>

\* idle() returned false: write() spins and scans again, try_write() gives up.
Busy(t) ==
    /\ groups' = IF blocking THEN Groups ELSE {}
    /\ used' = {}
    /\ cur' = NoSlot
    /\ Goto(t, IF blocking THEN "scan" ELSE "open")

ScanLocal(t) ==
    /\ At(t, "scan_local")
    /\ IF local[cur] # 0 THEN Busy(t)
       ELSE Goto(t, "scan_shared") /\ UNCHANGED <<groups, used, cur>>
    /\ UNCHANGED <<slotVars, gate, serial, waitVars, held, blocking>>

ScanShared(t) ==
    /\ At(t, "scan_shared")
    /\ IF shared[cur] # 0 THEN Busy(t)
       ELSE /\ used' = used \ {cur}
            /\ cur' = NoSlot
            /\ Goto(t, "scan")
            /\ UNCHANGED groups
    /\ UNCHANGED <<slotVars, gate, serial, waitVars, held, blocking>>

EndWrite(t) ==
    /\ At(t, "writing") /\ Goto(t, "open")
    /\ UNCHANGED <<slotVars, gate, serial, waitVars, held, scanVars>>

\* WriterHold::drop: open, look for interest, notify; then the serial guard.
Open(t) ==
    /\ At(t, "open") /\ Goto(t, "check_waiting")
    /\ gate' = FALSE
    /\ UNCHANGED <<slotVars, serial, waitVars, held, scanVars>>

CheckWaiting(t) ==
    /\ At(t, "check_waiting")
    /\ Goto(t, IF waiting # 0 THEN "notify" ELSE "unlock")
    /\ UNCHANGED <<slotVars, gate, serial, waitVars, held, scanVars>>

\* Mutant: one parked reader is woken instead of all.
NotifyOne(t) ==
    /\ At(t, "notify")
    /\ waiters = NoThread
    /\ \E r \in Threads :
        /\ At(r, "asleep") \/ \A u \in Threads : ~At(u, "asleep")
        /\ pc' = [u \in Threads |-> IF u = t THEN "unlock"
                                    ELSE IF u = r /\ At(u, "asleep") THEN "park_lock"
                                    ELSE pc[u]]
    /\ UNCHANGED <<slotVars, gate, serial, waitVars, held, scanVars>>

Notify(t) ==
    /\ At(t, "notify")
    /\ waiters = NoThread
    /\ pc' = [u \in Threads |-> IF u = t THEN "unlock"
                                ELSE IF At(u, "asleep") THEN "park_lock" ELSE pc[u]]
    /\ UNCHANGED <<slotVars, gate, serial, waitVars, held, scanVars>>

Unlock(t) ==
    /\ At(t, "unlock") /\ Goto(t, "idle")
    /\ serial' = NoThread
    /\ UNCHANGED <<slotVars, gate, waitVars, held, scanVars>>

-------------------------------------------------------------------------------
Progress(t) ==
    \/ LoadOwner(t) \/ MarkSlot(t) \/ ClaimSlot(t) \/ CountLocal(t) \/ CountShared(t)
    \/ CheckGate(t) \/ Unreserve(t)
    \/ Announce(t) \/ ParkLock(t) \/ ParkCheck(t) \/ Park(t) \/ Unannounce(t)
    \/ Close(t) \/ ScanGroup(t) \/ ScanPick(t) \/ ScanLocal(t) \/ ScanShared(t)
    \/ EndWrite(t) \/ Open(t) \/ CheckWaiting(t) \/ Notify(t) \/ Unlock(t)

Step(t) == StartRead(t) \/ StartWrite(t) \/ Progress(t)

Next == \E t \in Threads : Step(t)

Spec == Init /\ [][Next]_vars

\* Everything after a call is synchronous code that the scheduler keeps
\* running; nobody has to call.  The mutexes are parking_lot's, which hand a
\* contended mutex over eventually.
FairSpec ==
    /\ Spec
    /\ \A t \in Threads : WF_vars(Progress(t)) /\ SF_vars(ParkLock(t)) /\ SF_vars(Notify(t))

-------------------------------------------------------------------------------
(* Properties *)

TypeOK ==
    /\ owner \in [Slots -> Threads \cup {NoThread}]
    /\ local \in [Slots -> Nat]
    /\ shared \in [Slots -> Nat]
    /\ initialized \subseteq Slots
    /\ gate \in BOOLEAN
    /\ serial \in Threads \cup {NoThread}
    /\ waiters \in Threads \cup {NoThread}
    /\ waiting \in Nat
    /\ pc \in [Threads -> Place]
    /\ held \in [Threads -> {"none", "local", "shared"}]
    /\ groups \subseteq Groups
    /\ used \subseteq Slots
    /\ cur \in Slots \cup {NoSlot}
    /\ blocking \in BOOLEAN

\* A thread that has &mut to the value is alone with it: no reader that passed
\* its gate check and no second writer (the SAFETY comments of ReadGuard and
\* WriteGuard).  The Dekker handshake, the order bit-before-owner and the
\* separate count of colliding threads all have to work for it.
WriterIsAlone ==
    \A w, t \in Threads :
        At(w, "writing") /\ pc[t] \in {"reading", "writing"} => t = w

\* "Only a slot's permanent owner uses stores" (reader_slots.rs:25): no two
\* threads of one slot ever load and store its local count.
LocalHasOneWriter ==
    \A t, u \in Threads :
        /\ SlotOf[t] = SlotOf[u]
        /\ At(t, "local") \/ held[t] = "local"
        /\ At(u, "local") \/ held[u] = "local"
        => t = u

\* No reader sleeps in front of an open gate unless a writer is on its way to
\* notify it: interest is published before the gate is checked, the gate is
\* opened before interest is checked, and the notification cannot fall between
\* a reader's check and its sleep.
NoStrandedReader ==
    \A r \in Threads :
        At(r, "asleep") /\ ~gate
            => \E w \in Threads : pc[w] \in {"check_waiting", "notify"}

\* A blocking writer gets the value: readers that find the gate closed take
\* their counts back and park, so the scan loop ends.
WriterEnters ==
    \A w \in Threads : At(w, "scan") /\ blocking ~> At(w, "writing")

\* A parked reader is woken again after the writer it met.
SleeperWakes ==
    \A r \in Threads : At(r, "asleep") ~> At(r, "park_lock")

-------------------------------------------------------------------------------
(* The inductive invariant behind the safety properties, in named parts. *)

Writing == {"close", "scan", "scan_local", "scan_shared", "writing", "open",
            "check_waiting", "notify", "unlock"}
Scanning == {"scan", "scan_local", "scan_shared", "writing"}
Interested == {"park_lock", "park_check", "park", "asleep", "unannounce"}

Holders(s, kind) == {t \in Threads : SlotOf[t] = s /\ held[t] = kind}

\* What a reservation under way and a published one rest on.
ReserveInv ==
    /\ \A t \in Threads :
        /\ held[t] # "none" <=> pc[t] \in {"gate", "reading", "undo"}
        /\ At(t, "local") \/ held[t] = "local" => owner[SlotOf[t]] = t
        /\ At(t, "shared") \/ held[t] = "shared" => owner[SlotOf[t]] # NoThread
        /\ At(t, "claim") => SlotOf[t] \in initialized
    /\ \A s \in Slots : owner[s] # NoThread => s \in initialized

\* The published counts are the reservations.
CountInv ==
    \A s \in Slots :
        /\ local[s] = Cardinality(Holders(s, "local"))
        /\ shared[s] = Cardinality(Holders(s, "shared"))

\* One writer at a time, and the gate is closed exactly for it.
SerialInv ==
    /\ \A t \in Threads : serial = t <=> pc[t] \in Writing
    /\ gate <=> \E t \in Threads : pc[t] \in Scanning \cup {"open"}

NoReader(s) == \A r \in Threads : SlotOf[r] = s => ~At(r, "reading")

\* What the writer has scanned since it closed the gate has no reader.
ScanInv ==
    \A w \in Threads :
        /\ pc[w] \in Scanning =>
            \A s \in Slots : GroupOf[s] \notin groups /\ s \notin used => NoReader(s)
        /\ pc[w] \in {"scan_local", "scan_shared"} => cur \in Slots
        /\ At(w, "scan_shared") =>
            \A r \in Threads : SlotOf[r] = cur /\ held[r] = "local" => ~At(r, "reading")
        /\ At(w, "writing") => groups = {} /\ used = {}

\* Interest is counted, and the waiters' mutex covers check-to-sleep.
WaitInv ==
    /\ waiting = Cardinality({t \in Threads : pc[t] \in Interested})
    /\ \A t \in Threads : waiters = t <=> pc[t] \in {"park_check", "park"}
    /\ \A r \in Threads :
        pc[r] \in {"park", "asleep"} /\ ~gate
            => \E w \in Threads : pc[w] \in {"check_waiting", "notify"}

SlotsInv ==
    /\ TypeOK
    /\ ReserveInv
    /\ CountInv
    /\ SerialInv
    /\ ScanInv
    /\ WaitInv
================================================================================
