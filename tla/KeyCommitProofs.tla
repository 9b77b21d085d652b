--------------------------- MODULE KeyCommitProofs ---------------------------
(***************************************************************************)
(* Proofs about KeyCommit, for any sets of local mutations, readers and    *)
(* peers and any bounds.                                                   *)
(***************************************************************************)
EXTENDS KeyCommit, TLAPS

-----------------------------------------------------------------------------
(* Types of the records the actions build.                                 *)

LEMMA RecordTypes ==
    /\ Absent \in L2Entries /\ Void \in L1Entries /\ NoTicket \in Tickets
    /\ Resting \in Reads /\ Idle \in Mutations /\ NoPassive \in Passives
    /\ NoTicket.gen = 0 /\ NoTicket.kind = "Notify"
  <1>1. Absent \in L2Entries
    BY Zenon DEF Absent, L2Entries, Versions
  <1>2. Void \in L1Entries
    BY Zenon DEF Void, L1Entries, Versions
  <1>3. NoTicket \in Tickets
    BY <1>1, Zenon DEF NoTicket, Tickets
  <1>4. NoTicket.gen = 0 /\ NoTicket.kind = "Notify"
    BY Zenon DEF NoTicket
  <1>5. NoFence \in Fences
    BY Zenon DEF NoFence, Fences
  <1>6. Resting \in Reads
    BY <1>1, <1>2, <1>5, Zenon DEF Resting, Reads
  <1>7. Idle \in Mutations
    BY <1>1, Zenon DEF Idle, Mutations
  <1>8. NoPassive \in Passives
    BY <1>1, <1>2, <1>5, Zenon DEF NoPassive, Passives
  <1> QED
    BY <1>1, <1>2, <1>3, <1>4, <1>6, <1>7, <1>8, Zenon

LEMMA FieldTypes ==
    /\ \A t \in Tickets : /\ t.gen \in Nat /\ t.at \in Nat /\ t.left \in Nat
                          /\ t.data \in L2Entries
                          /\ t.kind \in {"Commit", "Cold", "Notify"}
    /\ \A m \in Mutations : m.gen \in Nat /\ m.at \in Nat /\ m.data \in L2Entries
    /\ \A d \in Reads : /\ d.fence \in Fences /\ d.obs \in L1Entries
                        /\ d.got \in L2Entries /\ d.sel \in L1Entries
  BY Zenon DEF Tickets, Mutations, Reads

LEMMA ExpiredTypes ==
    /\ \A e \in L1Entries : Expired(e) \in L1Entries
    /\ \A e \in L2Entries : Expired(e) \in L2Entries
  BY ZenonT(60) DEF Expired, L1Entries, L2Entries

LEMMA MutationUpdates ==
    ASSUME NEW m \in Mutations
    PROVE  /\ \A t, g \in Nat : [m EXCEPT !.at = t, !.gen = g] \in Mutations
           /\ \A e \in L2Entries : [m EXCEPT !.data = e] \in Mutations
  BY ZenonT(60) DEF Mutations

LEMMA ReadUpdates ==
    ASSUME NEW d \in Reads
    PROVE  /\ \A e \in L1Entries : [d EXCEPT !.sel = e] \in Reads
           /\ \A e \in L1Entries : [d EXCEPT !.obs = e] \in Reads
           /\ \A f \in Fences : [d EXCEPT !.fence = f] \in Reads
           /\ \A e \in L2Entries, b \in BOOLEAN :
                 [d EXCEPT !.got = e, !.pending = b] \in Reads
  BY ZenonT(60) DEF Reads

LEMMA EndTypes ==
    ASSUME rd \in [Readers -> Reads], NEW r \in Readers, NEW e \in L2Entries,
           NEW s \in L1Entries, End(r, e, s)
    PROVE  rd' \in [Readers -> Reads]
  <1>1. NewerOf(s, e) \in L1Entries
    BY Zenon DEF NewerOf, L1Entries, L2Entries
  <1>2. Resting \in Reads /\ [Resting EXCEPT !.sel = NewerOf(s, e)] \in Reads
    BY <1>1, RecordTypes, ReadUpdates, ZenonT(60)
  <1> QED
    BY <1>2, Zenon DEF End

LEMMA PassiveUpdates ==
    ASSUME NEW d \in Passives
    PROVE  /\ \A a \in Acts, t \in Nat : [d EXCEPT !.act = a, !.at = t] \in Passives
           /\ \A e \in L2Entries, b \in BOOLEAN :
                 [d EXCEPT !.got = e, !.pending = b] \in Passives
  BY ZenonT(60) DEF Passives

LEMMA TicketUpdates ==
    ASSUME NEW t \in Tickets
    PROVE  /\ \A b \in BOOLEAN :
                 /\ [t EXCEPT !.inflight = b] \in Tickets
                 /\ [t EXCEPT !.inflight = b].gen = t.gen
                 /\ [t EXCEPT !.inflight = b].kind = t.kind
           /\ [t EXCEPT !.kind = "Notify"] \in Tickets
           /\ [t EXCEPT !.kind = "Notify"].gen = t.gen
           /\ [t EXCEPT !.kind = "Notify"].kind = "Notify"
           /\ \A e \in L2Entries :
                 /\ [t EXCEPT !.data = e] \in Tickets
                 /\ [t EXCEPT !.data = e].gen = t.gen
                 /\ [t EXCEPT !.data = e].kind = t.kind
  BY Zenon DEF Tickets

-----------------------------------------------------------------------------
(* What the queue operations of the recovery worker do to the key's ticket. *)

LEMMA DropFacts ==
    ASSUME slot \in Tickets, Drop
    PROVE  /\ slot' \in Tickets
           /\ \/ slot' = NoTicket
              \/ slot'.gen = slot.gen /\ slot'.kind = slot.kind
  BY TicketUpdates, RecordTypes, ZenonT(60) DEF Drop, PutBack, Complete

LEMMA ClaimFacts ==
    ASSUME slot \in Tickets, Claim
    PROVE  slot' \in Tickets
  <1>1. CASE slot.gen # gen
    BY <1>1, RecordTypes, Zenon DEF Claim
  <1>2. CASE slot.gen = gen
    BY <1>2, TicketUpdates, Zenon DEF Claim
  <1> QED
    BY <1>1, <1>2, Zenon

LEMMA CompleteFacts ==
    ASSUME slot \in Tickets, NEW t, Complete(t)
    PROVE  slot' \in Tickets /\ slot' \in {slot, NoTicket}
  BY RecordTypes, Zenon DEF Complete

LEMMA StagedFacts ==
    ASSUME slot \in Tickets, NEW t
    PROVE  /\ Staged(t) \in Tickets
           /\ Staged(t).gen = slot.gen
           /\ SameTicket(t) => Staged(t).kind = "Notify"
           /\ ~SameTicket(t) => Staged(t) = slot
  BY TicketUpdates, Zenon DEF Staged

LEMMA RecordFailureFacts ==
    ASSUME slot \in Tickets, NEW t, RecordFailure(t)
    PROVE  /\ slot' \in Tickets
           /\ \/ slot' = NoTicket
              \/ slot'.gen = slot.gen /\ slot'.kind = slot.kind
  <1>1. CASE slot.left > 1
    <2>1. slot.left - 1 \in Nat
      BY <1>1, FieldTypes
    <2>2. /\ [slot EXCEPT !.left = @ - 1, !.inflight = FALSE] \in Tickets
          /\ [slot EXCEPT !.left = @ - 1, !.inflight = FALSE].gen = slot.gen
          /\ [slot EXCEPT !.left = @ - 1, !.inflight = FALSE].kind = slot.kind
      BY <2>1, ZenonT(60) DEF Tickets
    <2> QED
      BY <2>2, RecordTypes, Zenon DEF RecordFailure
  <1>2. CASE ~(slot.left > 1)
    <2>1. slot.left <= 1
      BY <1>2, FieldTypes
    <2> QED
      BY <2>1, RecordTypes, Zenon DEF RecordFailure
  <1> QED
    BY <1>1, <1>2, Zenon

LEMMA NewTicketFacts ==
    ASSUME NEW g \in Nat, NEW t \in Nat, NEW e \in L2Entries,
           NEW k \in {"Commit", "Cold", "Notify"}
    PROVE  /\ Ticket(g, t, k, e) \in Tickets
           /\ Ticket(g, t, k, e).gen = g /\ Ticket(g, t, k, e).kind = k
  BY BoundsAreNaturals DEF Ticket, Tickets

-----------------------------------------------------------------------------
(* Every action preserves the types, the lane's holder and the order.      *)

\* Reading the clock and queueing for the lane touches no shared state.
LEMMA BeginPreserves ==
    ASSUME TypeOK, OrderInv, NEW w \in Writers, Begin(w)
    PROVE  TypeOK' /\ OrderInv'
  <1> USE HoldersDistinct, BoundsAreNaturals
      DEF TypeOK, net, hist, Begin
  <1>1. Types'
    <2>1. op' \in [Writers -> Mutations]
      <3>1. PICK k \in Kinds :
              \/ op' = [op EXCEPT ![w] = [Idle EXCEPT !.kind = k]]
              \/ \E t \in 1..MaxTime :
                    op' = [op EXCEPT ![w] = [kind |-> k, at |-> t, fence |-> gen, gen |-> 0,
                                             data |-> EntryOf(w, t)]]
        BY Zenon
      <3>2. [Idle EXCEPT !.kind = k] \in Mutations
        BY RecordTypes, Zenon DEF Mutations
      <3>3. ASSUME NEW t \in 1..MaxTime
            PROVE  [kind |-> k, at |-> t, fence |-> gen, gen |-> 0, data |-> EntryOf(w, t)]
                      \in Mutations
        BY DEF Types, EntryOf, Mutations, L2Entries, Versions
      <3> QED
        BY <3>1, <3>2, <3>3 DEF Types
    <2> QED
      BY <2>1 DEF Types, Now, Event, Holders
  <1>2. LaneHeld' /\ InTransit'
    BY Zenon DEF Types, LaneHeld, InTransit, InLane, WorkerInLane, Now, Idle, EntryOf, Event,
           Holders
  <1>3. OrderInv'
    BY DEF Types, LaneHeld, OrderInv, InLane, WorkerInLane, IsData, Now, Idle, EntryOf,
           Event, L1Entries, L2Entries, Tickets, Fences, Mutations, Reads, Passives,
           Holders, Versions, Absent, Void, NoTicket, NoFence, Local
  <1> QED
    BY <1>1, <1>2, <1>3, Zenon

\* A refused origin leaves the lane as it found it.
LEMMA RefusedPreserves ==
    ASSUME TypeOK, OrderInv, NEW w \in Writers, Refused(w)
    PROVE  TypeOK' /\ OrderInv'
  <1> USE HoldersDistinct, BoundsAreNaturals
      DEF TypeOK, net, hist, Refused
  <1>1. Types'
    <2>1. op' \in [Writers -> Mutations]
      BY RecordTypes, Zenon DEF Types, Done
    <2> QED
      BY <2>1, Zenon DEF Types, Done, Holders
  <1>2. LaneHeld' /\ InTransit'
    BY Zenon DEF Types, LaneHeld, InTransit, InLane, WorkerInLane, Done, Holders
  <1>3. OrderInv'
    BY DEF Types, LaneHeld, OrderInv, InLane, WorkerInLane, IsData, Done, L1Entries,
           L2Entries, Tickets, Fences, Mutations, Reads, Passives, Holders, Versions,
           Absent, Void, NoTicket, NoFence, Local
  <1> QED
    BY <1>1, <1>2, <1>3, Zenon

\* The mutation that takes the free lane takes the next generation.
LEMMA EnterPreserves ==
    ASSUME TypeOK, OrderInv, NEW w \in Writers, Enter(w)
    PROVE  TypeOK' /\ OrderInv'
  <1> USE HoldersDistinct, BoundsAreNaturals
      DEF TypeOK, net, hist, Enter
  <1>1. Types'
    <2>1. l1' \in L1Entries
      BY RecordTypes, ExpiredTypes DEF Types, LocalEffect, Stored, Local, Mutations,
             L1Entries, Versions
    <2>2. op' \in [Writers -> Mutations]
      <3>1. PICK t \in 1..MaxTime : op' = [op EXCEPT ![w].at = t, ![w].gen = gen + 1]
        BY ZenonT(60)
      <3>2. [op[w] EXCEPT !.at = t, !.gen = gen + 1] \in Mutations
        <4>1. t \in Nat /\ gen + 1 \in Nat /\ op[w] \in Mutations
          BY DEF Types
        <4> QED
          BY <4>1, MutationUpdates, ZenonT(60)
      <3>3. op' = [op EXCEPT ![w] = [op[w] EXCEPT !.at = t, !.gen = gen + 1]]
        BY <3>1, ZenonT(60) DEF Types
      <3> QED
        BY <3>2, <3>3, ZenonT(60) DEF Types
    <2> QED
      BY <2>1, <2>2 DEF Types, Now, Advance, Later, Mutations, Holders
  <1>2. LaneHeld' /\ InTransit'
    BY DEF Types, LaneHeld, InTransit, InLane, WorkerInLane, Now, Advance, LocalEffect,
           Later, Stored, Expired, Holders
  <1>3. OrderInv'
    BY DEF Types, LaneHeld, OrderInv, InLane, WorkerInLane, IsData, Now, Advance,
           LocalEffect, Later, Stored, Expired, L1Entries, L2Entries, Tickets, Fences,
           Mutations, Reads, Passives, Holders, Versions, Absent, Void, NoTicket,
           NoFence, Local
  <1> QED
    BY <1>1, <1>2, <1>3, Zenon

LEMMA RetainReadPreserves ==
    ASSUME TypeOK, OrderInv, NEW w \in Writers, RetainRead(w)
    PROVE  TypeOK' /\ OrderInv'
  <1> USE HoldersDistinct, BoundsAreNaturals
      DEF TypeOK, net, hist, RetainRead
  <1>1. Types'
    <2>1. op' \in [Writers -> Mutations]
      BY ExpiredTypes, MutationUpdates, ZenonT(60) DEF Types
    <2> QED
      BY <2>1, Zenon DEF Types, Holders
  <1>2. LaneHeld' /\ InTransit'
    BY Zenon DEF Types, LaneHeld, InTransit, InLane, WorkerInLane, Expired, Holders
  <1>3. OrderInv'
    BY DEF Types, LaneHeld, OrderInv, InLane, WorkerInLane, IsData, Expired, L1Entries,
           L2Entries, Tickets, Fences, Mutations, Reads, Passives, Holders, Versions,
           Absent, Void, NoTicket, NoFence, Local
  <1> QED
    BY <1>1, <1>2, <1>3, Zenon

LEMMA RetainReadFailsPreserves ==
    ASSUME TypeOK, OrderInv, NEW w \in Writers, RetainReadFails(w)
    PROVE  TypeOK' /\ OrderInv'
  <1> USE HoldersDistinct, BoundsAreNaturals
      DEF TypeOK, net, hist, RetainReadFails
  <1>1. Types'
    <2>1. op' \in [Writers -> Mutations]
      BY RecordTypes, Zenon DEF Types, Leave, Done
    <2>2. slot' \in Tickets
      <3>1. /\ [Absent EXCEPT !.at = op[w].at] \in L2Entries
            /\ op[w].gen \in Nat
        BY RecordTypes, FieldTypes, Zenon DEF Types, L2Entries
      <3> QED
        BY <3>1, NewTicketFacts, ZenonT(60) DEF Types, EnqueueWork
    <2> QED
      BY <2>1, <2>2 DEF Types, Leave, Done, Event, Holders
  <1>2. LaneHeld' /\ InTransit'
    BY DEF Types, LaneHeld, InTransit, InLane, WorkerInLane, Event, EnqueueWork,
           Ticket, Leave, Done, Holders
  <1>3. OrderInv'
    <2> DEFINE t == Ticket(op[w].gen, stamp, "Cold", [Absent EXCEPT !.at = op[w].at])
    <2>1. op[w].gen = gen /\ slot.gen < gen
      BY Zenon DEF OrderInv, InLane
    <2>2. t.gen = gen /\ t.kind = "Cold"
      BY <2>1, Zenon DEF Ticket
    <2>3. EnqueueWork(t)
      BY Zenon
    <2> HIDE DEF t
    <2>4. slot' = t
      BY <2>1, <2>2, <2>3, FieldTypes DEF Types, EnqueueWork
    <2>5. slot'.gen = gen /\ slot'.kind = "Cold"
      BY <2>2, <2>4, Zenon
    <2>6. /\ pc' = [pc EXCEPT ![w] = "done"] /\ op' = [op EXCEPT ![w] = Idle] /\ wpc' = wpc /\ work' = work
          /\ acked' = acked /\ told' = told /\ gen' = gen /\ reached' \in {reached, gen}
      BY <2>1, Zenon DEF Leave, Done
    <2>7. acked < gen /\ lane = w
      BY DEF Types, LaneHeld, OrderInv, InLane
    <2> QED
      BY <2>5, <2>6, <2>7, FieldTypes, RecordTypes DEF Types, LaneHeld, OrderInv, InLane, WorkerInLane, IsData
  <1> QED
    BY <1>1, <1>2, <1>3, Zenon

\* The acknowledged write is of the lane's generation and clears older tickets.
LEMMA WritePreserves ==
    ASSUME TypeOK, OrderInv, NEW w \in Writers, Write(w)
    PROVE  TypeOK' /\ OrderInv'
  <1> USE HoldersDistinct, BoundsAreNaturals
      DEF TypeOK, net, hist, Write
  <1>1. Types'
    <2>1. slot' \in Tickets
      BY RecordTypes, Zenon DEF Types, SupersedeThrough
    <2>2. l2' \in L2Entries
      BY Zenon DEF Types, Mutations
    <2> QED
      BY <2>1, <2>2, ZenonT(60) DEF Types, Mutations, Holders
  <1>2. LaneHeld' /\ InTransit'
    BY Zenon DEF Types, LaneHeld, InTransit, InLane, WorkerInLane, SupersedeThrough, Holders
  <1>3. OrderInv'
    BY DEF Types, LaneHeld, OrderInv, InLane, WorkerInLane, IsData, SupersedeThrough,
           L1Entries, L2Entries, Tickets, Fences, Mutations, Reads, Passives, Holders,
           Versions, Absent, Void, NoTicket, NoFence, Local
  <1> QED
    BY <1>1, <1>2, <1>3, Zenon

LEMMA WriteFailsPreserves ==
    ASSUME TypeOK, OrderInv, NEW w \in Writers, WriteFails(w)
    PROVE  TypeOK' /\ OrderInv'
  <1> USE HoldersDistinct, BoundsAreNaturals
      DEF TypeOK, net, hist, WriteFails
  <1>1. Types'
    <2>1. op' \in [Writers -> Mutations]
      BY RecordTypes, Zenon DEF Types, Leave, Done
    <2>2. slot' \in Tickets
      BY NewTicketFacts DEF Types, EnqueueWork, FailedCommit, Mutations
    <2>3. l2' \in L2Entries
      BY SMTT(60) DEF Types, Mutations
    <2> QED
      BY <2>1, <2>2, <2>3 DEF Types, Leave, Done, Event, Mutations, Holders
  <1>2. LaneHeld' /\ InTransit'
    BY DEF Types, LaneHeld, InTransit, InLane, WorkerInLane, Event, EnqueueWork,
           Ticket, FailedCommit, Leave, Done, Holders
  <1>3. OrderInv'
    <2> DEFINE t == FailedCommit(w)
    <2>1. op[w].gen = gen /\ slot.gen < gen
      BY Zenon DEF OrderInv, InLane
    <2>2. t.gen = gen /\ t.kind = "Commit"
      BY <2>1, Zenon DEF Ticket, FailedCommit
    <2>3. EnqueueWork(t)
      BY Zenon
    <2> HIDE DEF t
    <2>4. slot' = t
      BY <2>1, <2>2, <2>3, FieldTypes DEF Types, EnqueueWork
    <2>5. slot'.gen = gen /\ slot'.kind = "Commit"
      BY <2>2, <2>4, Zenon
    <2>6. /\ pc' = [pc EXCEPT ![w] = "done"] /\ op' = [op EXCEPT ![w] = Idle] /\ wpc' = wpc /\ work' = work
          /\ acked' = acked /\ told' = told /\ gen' = gen /\ reached' \in {reached, gen}
      BY <2>1, Zenon DEF Leave, Done
    <2>7. acked < gen /\ lane = w
      BY SMTT(60) DEF Types, LaneHeld, OrderInv, InLane
    <2> QED
      BY <2>5, <2>6, <2>7, FieldTypes, RecordTypes, SMTT(60) DEF Types, LaneHeld, OrderInv, InLane, WorkerInLane, IsData
  <1> QED
    BY <1>1, <1>2, <1>3, Zenon

LEMMA PublishPreserves ==
    ASSUME TypeOK, OrderInv, NEW w \in Writers, Publish(w)
    PROVE  TypeOK' /\ OrderInv'
  <1> USE HoldersDistinct, BoundsAreNaturals
      DEF TypeOK, net, hist, Publish
  <1>1. Types'
    <2>1. op' \in [Writers -> Mutations]
      BY RecordTypes, Zenon DEF Types, Leave, Done
    <2> QED
      BY <2>1, Zenon DEF Types, Leave, Done, Mutations, Holders
  <1>2. LaneHeld' /\ InTransit'
    BY SMTT(60) DEF Types, LaneHeld, InTransit, InLane, WorkerInLane, Leave, Done, Holders
  <1>3. OrderInv'
    BY SMTT(60) DEF Types, LaneHeld, OrderInv, InLane, WorkerInLane, IsData, Leave, Done,
           L1Entries, L2Entries, Tickets, Fences, Mutations, Reads, Passives, Holders,
           Versions, Absent, Void, NoTicket, NoFence, Local
  <1> QED
    BY <1>1, <1>2, <1>3, Zenon

LEMMA PublishFailsPreserves ==
    ASSUME TypeOK, OrderInv, NEW w \in Writers, PublishFails(w)
    PROVE  TypeOK' /\ OrderInv'
  <1> USE HoldersDistinct, BoundsAreNaturals
      DEF TypeOK, net, hist, PublishFails
  <1>1. Types'
    <2>1. op' \in [Writers -> Mutations]
      BY RecordTypes, Zenon DEF Types, Leave, Done
    <2>2. slot' \in Tickets
      BY NewTicketFacts, RecordTypes, Zenon DEF Types, EnqueueWork, Mutations
    <2> QED
      BY <2>1, <2>2 DEF Types, Leave, Done, Event, Holders
  <1>2. LaneHeld' /\ InTransit'
    BY SMTT(60) DEF Types, LaneHeld, InTransit, InLane, WorkerInLane, Event, EnqueueWork,
           Ticket, Leave, Done, Holders
  <1>3. OrderInv'
    <2> DEFINE t == Ticket(op[w].gen, stamp, "Notify", Absent)
    <2>1. op[w].gen = gen /\ slot.gen < gen
      BY Zenon DEF OrderInv, InLane
    <2>2. t.gen = gen /\ t.kind = "Notify"
      BY <2>1, Zenon DEF Ticket
    <2>3. EnqueueWork(t)
      BY Zenon
    <2> HIDE DEF t
    <2>4. slot' = t
      BY <2>1, <2>2, <2>3, FieldTypes, SMTT(60) DEF Types, EnqueueWork
    <2>5. slot'.gen = gen /\ slot'.kind = "Notify"
      BY <2>2, <2>4, Zenon
    <2>6. /\ pc' = [pc EXCEPT ![w] = "done"] /\ op' = [op EXCEPT ![w] = Idle] /\ wpc' = wpc /\ work' = work
          /\ acked' = acked /\ told' = told /\ gen' = gen /\ reached' \in {reached, gen}
      BY <2>1, Zenon DEF Leave, Done
    <2>7. acked = gen /\ lane = w
      BY Zenon DEF Types, LaneHeld, OrderInv, InLane
    <2> QED
      BY <2>5, <2>6, <2>7, FieldTypes, RecordTypes, SMTT(60) DEF Types, LaneHeld, OrderInv, InLane, WorkerInLane, IsData
  <1> QED
    BY <1>1, <1>2, <1>3, ZenonT(60)

LEMMA AbandonPreserves ==
    ASSUME TypeOK, OrderInv, NEW w \in Writers, Abandon(w)
    PROVE  TypeOK' /\ OrderInv'
  <1> USE HoldersDistinct, BoundsAreNaturals
      DEF TypeOK, net, hist, Abandon
  <1>1. Types'
    <2>1. op' \in [Writers -> Mutations]
      BY RecordTypes, Zenon DEF Types, Leave, Done
    <2>2. l2' \in L2Entries
      BY SMTT(60) DEF Types, Mutations
    <2> QED
      BY <2>1, <2>2 DEF Types, Leave, Done, Event, Mutations, Holders
  <1>2. LaneHeld' /\ InTransit'
    BY SMTT(60) DEF Types, LaneHeld, InTransit, InLane, WorkerInLane, Event, Leave, Done, Holders
  <1>3. OrderInv'
    BY DEF Types, LaneHeld, OrderInv, InLane, WorkerInLane, IsData, Event, Leave, Done,
           L1Entries, L2Entries, Tickets, Fences, Mutations, Reads, Passives, Holders,
           Versions, Absent, Void, NoTicket, NoFence, Local
  <1> QED
    BY <1>1, <1>2, <1>3, Zenon

LEMMA LookPreserves ==
    ASSUME TypeOK, OrderInv, NEW r \in Readers, Look(r)
    PROVE  TypeOK' /\ OrderInv'
  <1> USE HoldersDistinct, BoundsAreNaturals
      DEF TypeOK, net, hist, Look
  <1>1. Types'
    <2>1. rd' \in [Readers -> Reads]
      BY ReadUpdates, RecordTypes, ZenonT(60) DEF Types
    <2> QED
      BY <2>1, SMTT(60) DEF Types, Event, Holders
  <1>2. LaneHeld' /\ InTransit'
    BY Zenon DEF Types, LaneHeld, InTransit, InLane, WorkerInLane, Event, Holders
  <1>3. OrderInv'
    BY Zenon DEF Types, LaneHeld, OrderInv, InLane, WorkerInLane, IsData, Event, L1Entries,
           L2Entries, Tickets, Fences, Mutations, Reads, Passives, Holders, Versions,
           Absent, Void, NoTicket, NoFence, Local
  <1> QED
    BY <1>1, <1>2, <1>3, Zenon

LEMMA CaptureFencePreserves ==
    ASSUME TypeOK, OrderInv, NEW r \in Readers, CaptureFence(r)
    PROVE  TypeOK' /\ OrderInv'
  <1> USE HoldersDistinct, BoundsAreNaturals
      DEF TypeOK, net, hist, CaptureFence
  <1>1. Types'
    <2>1. rd' \in [Readers -> Reads]
      <3>1. Fence \in Fences
        BY Zenon DEF Types, Fence, Fences
      <3>2. rd[r] \in Reads /\ [rd[r] EXCEPT !.fence = Fence] \in Reads
        BY <3>1, ReadUpdates, ZenonT(60) DEF Types
      <3>3. CASE lane = Free
        <4>1. rd' = [rd EXCEPT ![r] = [rd[r] EXCEPT !.fence = Fence]]
          BY <3>3, Zenon
        <4> QED
          BY <3>2, <4>1, Zenon DEF Types
      <3>4. CASE lane # Free
        BY <3>4, Zenon DEF Types
      <3> QED
        BY <3>3, <3>4, Zenon
    <2> QED
      BY <2>1, Zenon DEF Types, Holders
  <1>2. LaneHeld' /\ InTransit'
    BY DEF Types, LaneHeld, InTransit, InLane, WorkerInLane, Fence, Resting, Holders
  <1>3. OrderInv'
    BY Zenon DEF Types, LaneHeld, OrderInv, InLane, WorkerInLane, IsData, Fence, Resting,
           L1Entries, L2Entries, Tickets, Fences, Mutations, Reads, Passives, Holders,
           Versions, Absent, Void, NoTicket, NoFence, Local
  <1> QED
    BY <1>1, <1>2, <1>3, Zenon

LEMMA ObservePreserves ==
    ASSUME TypeOK, OrderInv, NEW r \in Readers, Observe(r)
    PROVE  TypeOK' /\ OrderInv'
  <1> USE HoldersDistinct, BoundsAreNaturals
      DEF TypeOK, net, hist, Observe
  <1>1. Types'
    <2>1. rd' \in [Readers -> Reads]
      BY ReadUpdates, ZenonT(60) DEF Types
    <2> QED
      BY <2>1, Zenon DEF Types, Holders
  <1>2. LaneHeld' /\ InTransit'
    BY Zenon DEF Types, LaneHeld, InTransit, InLane, WorkerInLane, Holders
  <1>3. OrderInv'
    BY Zenon DEF Types, LaneHeld, OrderInv, InLane, WorkerInLane, IsData, L1Entries,
           L2Entries, Tickets, Fences, Mutations, Reads, Passives, Holders, Versions,
           Absent, Void, NoTicket, NoFence, Local
  <1> QED
    BY <1>1, <1>2, <1>3, Zenon

LEMMA FetchPreserves ==
    ASSUME TypeOK, OrderInv, NEW r \in Readers, Fetch(r)
    PROVE  TypeOK' /\ OrderInv'
  <1> USE HoldersDistinct, BoundsAreNaturals
      DEF TypeOK, net, hist, Fetch
  <1>1. Types'
    <2>1. rd' \in [Readers -> Reads]
      <3>1. End(r, l2, rd[r].sel) => rd' \in [Readers -> Reads]
        BY EndTypes, FieldTypes, Zenon DEF Types
      <3>2. [rd[r] EXCEPT !.got = l2, !.pending = Pending] \in Reads
        BY ReadUpdates, ZenonT(60) DEF Types, Pending
      <3>3. CASE l2 = Absent \/ rpc[r] = "unfenced"
        BY <3>1, <3>3, Zenon
      <3>4. CASE ~(l2 = Absent \/ rpc[r] = "unfenced")
        <4>1. rd' = [rd EXCEPT ![r] = [rd[r] EXCEPT !.got = l2, !.pending = Pending]]
          BY <3>4, ZenonT(60)
        <4> QED
          BY <3>2, <4>1, Zenon DEF Types
      <3> QED
        BY <3>3, <3>4, Zenon
    <2> QED
      BY <2>1 DEF Types, End, Holders
  <1>2. LaneHeld' /\ InTransit'
    BY DEF Types, LaneHeld, InTransit, InLane, WorkerInLane, End, Resting, Holders
  <1>3. OrderInv'
    BY Zenon DEF Types, LaneHeld, OrderInv, InLane, WorkerInLane, IsData, End, Resting,
           L1Entries, L2Entries, Tickets, Fences, Mutations, Reads, Passives, Holders,
           Versions, Absent, Void, NoTicket, NoFence, Local
  <1> QED
    BY <1>1, <1>2, <1>3, Zenon

LEMMA FetchFailsPreserves ==
    ASSUME TypeOK, OrderInv, NEW r \in Readers, FetchFails(r)
    PROVE  TypeOK' /\ OrderInv'
  <1> USE HoldersDistinct, BoundsAreNaturals
      DEF TypeOK, net, hist, FetchFails
  <1>1. Types'
    <2>1. rd' \in [Readers -> Reads]
      BY EndTypes, RecordTypes, FieldTypes, Zenon DEF Types
    <2> QED
      BY <2>1, SMTT(60) DEF Types, End, Event, Holders
  <1>2. LaneHeld' /\ InTransit'
    BY DEF Types, LaneHeld, InTransit, InLane, WorkerInLane, End, Resting, Event,
           Holders
  <1>3. OrderInv'
    BY DEF Types, LaneHeld, OrderInv, InLane, WorkerInLane, IsData, End, Resting,
           Event, L1Entries, L2Entries, Tickets, Fences, Mutations, Reads, Passives,
           Holders, Versions, Absent, Void, NoTicket, NoFence, Local
  <1> QED
    BY <1>1, <1>2, <1>3, Zenon

LEMMA CheckPreserves ==
    ASSUME TypeOK, OrderInv, NEW r \in Readers, Check(r)
    PROVE  TypeOK' /\ OrderInv'
  <1> USE HoldersDistinct, BoundsAreNaturals
      DEF TypeOK, net, hist, Check
  <1>1. Types'
    <2>1. rd' \in [Readers -> Reads]
      BY EndTypes, FieldTypes, Zenon DEF Types
    <2> QED
      BY <2>1, Zenon DEF Types, End, Holders
  <1>2. LaneHeld' /\ InTransit'
    BY DEF Types, LaneHeld, InTransit, InLane, WorkerInLane, End, Resting, Holders
  <1>3. OrderInv'
    BY SMTT(60) DEF Types, LaneHeld, OrderInv, InLane, WorkerInLane, IsData, End, Resting,
           L1Entries, L2Entries, Tickets, Fences, Mutations, Reads, Passives, Holders,
           Versions, Absent, Void, NoTicket, NoFence, Local
  <1> QED
    BY <1>1, <1>2, <1>3, Zenon

LEMMA InsertPreserves ==
    ASSUME TypeOK, OrderInv, NEW r \in Readers, Insert(r)
    PROVE  TypeOK' /\ OrderInv'
  <1> USE HoldersDistinct, BoundsAreNaturals
      DEF TypeOK, net, hist, Insert
  <1>1. Types'
    <2>1. l1' \in L1Entries
      BY Zenon DEF Types, Hydrated, Reads, Fences, L2Entries, L1Entries, Versions
    <2>2. rd' \in [Readers -> Reads]
      BY EndTypes, FieldTypes, Zenon DEF Types
    <2> QED
      BY <2>1, <2>2, Zenon DEF Types, End, Holders
  <1>2. LaneHeld' /\ InTransit'
    BY DEF Types, LaneHeld, InTransit, InLane, WorkerInLane, End, Resting, Hydrated,
           Holders
  <1>3. OrderInv'
    BY Zenon DEF Types, LaneHeld, OrderInv, InLane, WorkerInLane, IsData, End, Resting,
           Hydrated, L1Entries, L2Entries, Tickets, Fences, Mutations, Reads, Passives,
           Holders, Versions, Absent, Void, NoTicket, NoFence, Local
  <1> QED
    BY <1>1, <1>2, <1>3, Zenon

LEMMA FallbackPreserves ==
    ASSUME TypeOK, OrderInv, NEW r \in Readers, Fallback(r)
    PROVE  TypeOK' /\ OrderInv'
  <1> USE HoldersDistinct, BoundsAreNaturals
      DEF TypeOK, net, hist, Fallback
  <1>1. Types'
    <2>1. l1' \in L1Entries
      BY ZenonT(60) DEF Types, Reads, L1Entries, Versions
    <2>2. rd' \in [Readers -> Reads]
      BY RecordTypes, Zenon DEF Types
    <2> QED
      BY <2>1, <2>2, Zenon DEF Types, Holders
  <1>2. LaneHeld' /\ InTransit'
    BY Zenon DEF Types, LaneHeld, InTransit, InLane, WorkerInLane, Resting, Holders
  <1>3. OrderInv'
    BY Zenon DEF Types, LaneHeld, OrderInv, InLane, WorkerInLane, IsData, Resting, L1Entries,
           L2Entries, Tickets, Fences, Mutations, Reads, Passives, Holders, Versions,
           Absent, Void, NoTicket, NoFence, Local
  <1> QED
    BY <1>1, <1>2, <1>3, Zenon

\* No mutation, reader, refresh or ticket refers to the lane that is dropped.
LEMMA DropLanePreserves ==
    ASSUME TypeOK, OrderInv, DropLane
    PROVE  TypeOK' /\ OrderInv'
  <1> USE HoldersDistinct, BoundsAreNaturals
      DEF TypeOK, net, hist, DropLane
  <1>1. Types'
    BY Zenon DEF Types, Holders, Mutations
  <1>2. LaneHeld' /\ InTransit'
    BY Zenon DEF Types, LaneHeld, InTransit, InLane, WorkerInLane, Holders
  <1>3. OrderInv'
    BY Zenon DEF Types, LaneHeld, OrderInv, InLane, WorkerInLane, IsData, L1Entries,
           L2Entries, Tickets, Fences, Mutations, Reads, Passives, Holders, Versions,
           Absent, Void, NoTicket, NoFence, Local
  <1> QED
    BY <1>1, <1>2, <1>3, Zenon

LEMMA EvictPreserves ==
    ASSUME TypeOK, OrderInv, Evict
    PROVE  TypeOK' /\ OrderInv'
  <1> USE HoldersDistinct, BoundsAreNaturals
      DEF TypeOK, net, hist, Evict
  <1>1. Types'
    <2>1. l1' \in L1Entries
      BY RecordTypes, Zenon DEF Types
    <2> QED
      BY <2>1, Zenon DEF Types, Holders
  <1>2. LaneHeld' /\ InTransit'
    BY Zenon DEF Types, LaneHeld, InTransit, InLane, WorkerInLane, Holders
  <1>3. OrderInv'
    BY Zenon DEF Types, LaneHeld, OrderInv, InLane, WorkerInLane, IsData, L1Entries,
           L2Entries, Tickets, Fences, Mutations, Reads, Passives, Holders, Versions,
           Absent, Void, NoTicket, NoFence, Local
  <1> QED
    BY <1>1, <1>2, <1>3, Zenon

LEMMA GoStalePreserves ==
    ASSUME TypeOK, OrderInv, GoStale
    PROVE  TypeOK' /\ OrderInv'
  <1> USE HoldersDistinct, BoundsAreNaturals
      DEF TypeOK, net, hist, GoStale
  <1>1. Types'
    <2>1. l1' \in L1Entries
      BY ExpiredTypes, Zenon DEF Types
    <2> QED
      BY <2>1, Zenon DEF Types, Holders
  <1>2. LaneHeld' /\ InTransit'
    BY Zenon DEF Types, LaneHeld, InTransit, InLane, WorkerInLane, Expired, Holders
  <1>3. OrderInv'
    BY Zenon DEF Types, LaneHeld, OrderInv, InLane, WorkerInLane, IsData, Expired, L1Entries,
           L2Entries, Tickets, Fences, Mutations, Reads, Passives, Holders, Versions,
           Absent, Void, NoTicket, NoFence, Local
  <1> QED
    BY <1>1, <1>2, <1>3, Zenon

-----------------------------------------------------------------------------
(* The steps that the backplane, other nodes and the recovery worker take: *)
(* each preserves the types, the holder of the lane and the order of the   *)
(* key's mutations.                                                        *)

LEMMA DisconnectPreserves ==
    ASSUME TypeOK, OrderInv, Disconnect
    PROVE  TypeOK' /\ OrderInv'
  <1> USE HoldersDistinct, BoundsAreNaturals
      DEF TypeOK, net, hist, Disconnect
  <1>1. Types'
    <2>1. pas' \in [Peers -> Passives]
      BY RecordTypes, SMTT(60) DEF Types, Over
    <2>2. ppc' \in [Peers -> {"idle", "sent", "fetch", "lane", "insert", "done"}]
      BY Zenon DEF Types, Over
    <2> QED
      BY <2>1, <2>2 DEF Types, Event, Holders
  <1>2. LaneHeld' /\ InTransit'
    BY SMTT(60) DEF Types, LaneHeld, InTransit, InLane, WorkerInLane, Event, Over, Holders
  <1>3. OrderInv'
    BY Zenon DEF Types, LaneHeld, OrderInv, InLane, WorkerInLane, IsData, Event, Over,
           L1Entries, L2Entries, Tickets, Fences, Mutations, Reads, Passives, Holders,
           Versions, Absent, Void, NoTicket, NoFence, Local
  <1> QED
    BY <1>1, <1>2, <1>3, Zenon

LEMMA ReconnectPreserves ==
    ASSUME TypeOK, OrderInv, Reconnect
    PROVE  TypeOK' /\ OrderInv'
  <1> USE HoldersDistinct, BoundsAreNaturals
      DEF TypeOK, net, hist, Reconnect
  <1>1. Types'
    BY SMTT(60) DEF Types, Holders, Mutations
  <1>2. LaneHeld' /\ InTransit'
    BY Zenon DEF Types, LaneHeld, InTransit, InLane, WorkerInLane, Holders
  <1>3. OrderInv'
    BY Zenon DEF Types, LaneHeld, OrderInv, InLane, WorkerInLane, IsData, L1Entries,
           L2Entries, Tickets, Fences, Mutations, Reads, Passives, Holders, Versions,
           Absent, Void, NoTicket, NoFence, Local
  <1> QED
    BY <1>1, <1>2, <1>3, Zenon

LEMMA EnsureHealthPreserves ==
    ASSUME TypeOK, OrderInv, EnsureHealth
    PROVE  TypeOK' /\ OrderInv'
  <1> USE HoldersDistinct, BoundsAreNaturals
      DEF TypeOK, net, hist, EnsureHealth
  <1>1. Types'
    BY SMTT(60) DEF Types, InvalidateOnGap, Holders, Mutations
  <1>2. LaneHeld' /\ InTransit'
    BY Zenon DEF Types, LaneHeld, InTransit, InLane, WorkerInLane, InvalidateOnGap, Holders
  <1>3. OrderInv'
    BY Zenon DEF Types, LaneHeld, OrderInv, InLane, WorkerInLane, IsData, InvalidateOnGap,
           L1Entries, L2Entries, Tickets, Fences, Mutations, Reads, Passives, Holders,
           Versions, Absent, Void, NoTicket, NoFence, Local
  <1> QED
    BY <1>1, <1>2, <1>3, Zenon

LEMMA ClearMemoryPreserves ==
    ASSUME TypeOK, OrderInv, ClearMemory
    PROVE  TypeOK' /\ OrderInv'
  <1> USE HoldersDistinct, BoundsAreNaturals
      DEF TypeOK, net, hist, ClearMemory
  <1>1. Types'
    <2>1. l1' \in L1Entries
      BY RecordTypes, Zenon DEF Types
    <2> QED
      BY <2>1, SMTT(60) DEF Types, Holders
  <1>2. LaneHeld' /\ InTransit'
    BY Zenon DEF Types, LaneHeld, InTransit, InLane, WorkerInLane, Holders
  <1>3. OrderInv'
    BY Zenon DEF Types, LaneHeld, OrderInv, InLane, WorkerInLane, IsData, L1Entries,
           L2Entries, Tickets, Fences, Mutations, Reads, Passives, Holders, Versions,
           Absent, Void, NoTicket, NoFence, Local
  <1> QED
    BY <1>1, <1>2, <1>3, Zenon

LEMMA BarrierElapsesPreserves ==
    ASSUME TypeOK, OrderInv, BarrierElapses
    PROVE  TypeOK' /\ OrderInv'
  <1> USE HoldersDistinct, BoundsAreNaturals
      DEF TypeOK, net, hist, BarrierElapses
  <1>1. Types'
    BY Zenon DEF Types, Holders, Mutations
  <1>2. LaneHeld' /\ InTransit'
    BY Zenon DEF Types, LaneHeld, InTransit, InLane, WorkerInLane, Holders
  <1>3. OrderInv'
    BY Zenon DEF Types, LaneHeld, OrderInv, InLane, WorkerInLane, IsData, L1Entries,
           L2Entries, Tickets, Fences, Mutations, Reads, Passives, Holders, Versions,
           Absent, Void, NoTicket, NoFence, Local
  <1> QED
    BY <1>1, <1>2, <1>3, Zenon

LEMMA PeerMutatesPreserves ==
    ASSUME TypeOK, OrderInv, NEW p \in Peers, PeerMutates(p)
    PROVE  TypeOK' /\ OrderInv'
  <1> USE HoldersDistinct, BoundsAreNaturals
      DEF TypeOK, net, hist, PeerMutates
  <1>1. Types'
    <2>1. l2' \in L2Entries
      BY RecordTypes DEF Types, Now, EntryOf, L2Entries, Versions
    <2>2. ppc' \in [Peers -> {"idle", "sent", "fetch", "lane", "insert", "done"}]
      BY Zenon DEF Types, Over
    <2>3. pas' \in [Peers -> Passives]
      <3>1. CASE ~Connected
        BY <3>1, RecordTypes, Zenon DEF Types, Over
      <3>2. CASE Connected
        <4>1. PICK a \in Acts, t \in 1..MaxTime :
                pas' = [pas EXCEPT ![p].act = a, ![p].at = t]
          BY <3>2, Zenon
        <4>2. [pas[p] EXCEPT !.act = a, !.at = t] \in Passives
          <5>1. t \in Nat /\ pas[p] \in Passives
            BY DEF Types
          <5> QED
            BY <5>1, PassiveUpdates, ZenonT(60)
        <4>3. pas' = [pas EXCEPT ![p] = [pas[p] EXCEPT !.act = a, !.at = t]]
          BY <4>1, ZenonT(60) DEF Types
        <4> QED
          BY <4>2, <4>3, Zenon DEF Types
      <3> QED
        BY <3>1, <3>2, Zenon
    <2> QED
      BY <2>1, <2>2, <2>3 DEF Types, Now, Event, Holders
  <1>2. LaneHeld' /\ InTransit'
    BY DEF Types, LaneHeld, InTransit, InLane, WorkerInLane, Now, EntryOf, Event, Over,
           Holders
  <1>3. OrderInv'
    BY DEF Types, LaneHeld, OrderInv, InLane, WorkerInLane, IsData, Now, EntryOf,
           Event, Over, L1Entries, L2Entries, Tickets, Fences, Mutations, Reads,
           Passives, Holders, Versions, Absent, Void, NoTicket, NoFence, Local
  <1> QED
    BY <1>1, <1>2, <1>3, Zenon

LEMMA LagPreserves ==
    ASSUME TypeOK, OrderInv, NEW p \in Peers, Lag(p)
    PROVE  TypeOK' /\ OrderInv'
  <1> USE HoldersDistinct, BoundsAreNaturals
      DEF TypeOK, net, hist, Lag
  <1>1. Types'
    <2>1. pas' \in [Peers -> Passives]
      BY RecordTypes, Zenon DEF Types, Over
    <2>2. ppc' \in [Peers -> {"idle", "sent", "fetch", "lane", "insert", "done"}]
      BY Zenon DEF Types, Over
    <2> QED
      BY <2>1, <2>2 DEF Types, InvalidateOnGap, Event, Holders
  <1>2. LaneHeld' /\ InTransit'
    BY Zenon DEF Types, LaneHeld, InTransit, InLane, WorkerInLane, InvalidateOnGap, Event,
           Over, Holders
  <1>3. OrderInv'
    BY Zenon DEF Types, LaneHeld, OrderInv, InLane, WorkerInLane, IsData, InvalidateOnGap,
           Event, Over, L1Entries, L2Entries, Tickets, Fences, Mutations, Reads,
           Passives, Holders, Versions, Absent, Void, NoTicket, NoFence, Local
  <1> QED
    BY <1>1, <1>2, <1>3, Zenon

LEMMA IgnorePreserves ==
    ASSUME TypeOK, OrderInv, NEW p \in Peers, Ignore(p)
    PROVE  TypeOK' /\ OrderInv'
  <1> USE HoldersDistinct, BoundsAreNaturals
      DEF TypeOK, net, hist, Ignore
  <1>1. Types'
    <2>1. pas' \in [Peers -> Passives]
      BY RecordTypes, Zenon DEF Types, Over
    <2>2. ppc' \in [Peers -> {"idle", "sent", "fetch", "lane", "insert", "done"}]
      BY Zenon DEF Types, Over
    <2> QED
      BY <2>1, <2>2, Zenon DEF Types, Holders
  <1>2. LaneHeld' /\ InTransit'
    BY Zenon DEF Types, LaneHeld, InTransit, InLane, WorkerInLane, Over, Holders
  <1>3. OrderInv'
    BY Zenon DEF Types, LaneHeld, OrderInv, InLane, WorkerInLane, IsData, Over, L1Entries,
           L2Entries, Tickets, Fences, Mutations, Reads, Passives, Holders, Versions,
           Absent, Void, NoTicket, NoFence, Local
  <1> QED
    BY <1>1, <1>2, <1>3, ZenonT(60)

\* A received message advances the lane; a claimed ticket is overtaken.
LEMMA ReceivePreserves ==
    ASSUME TypeOK, OrderInv, NEW p \in Peers, Receive(p)
    PROVE  TypeOK' /\ OrderInv'
  <1> USE HoldersDistinct, BoundsAreNaturals
      DEF TypeOK, net, hist, Receive
  <1>1. Types'
    <2>1. l1' \in L1Entries
      BY RecordTypes, ExpiredTypes, Zenon DEF Types
    <2>2. slot' \in Tickets
      BY RecordTypes, Zenon DEF Types, CancelThrough
    <2>3. ppc' \in [Peers -> {"idle", "sent", "fetch", "lane", "insert", "done"}]
      BY Zenon DEF Types, Over
    <2>4. pas' \in [Peers -> Passives]
      <3>1. NoPassive \in Passives
        BY RecordTypes, Zenon
      <3>2. CASE pas[p].act = "Set" /\ l1 # Void
        BY <3>2 DEF Types, Passives, Fences
      <3>3. CASE ~(pas[p].act = "Set" /\ l1 # Void)
        BY <3>1, <3>3, Zenon DEF Types, Over
      <3> QED
        BY <3>2, <3>3, Zenon
    <2> QED
      BY <2>1, <2>2, <2>3, <2>4, SMTT(60) DEF Types, Advance, Later, Passives, Holders
  <1>2. LaneHeld' /\ InTransit'
    BY SMTT(60) DEF Types, LaneHeld, InTransit, InLane, WorkerInLane, Advance, CancelThrough,
           Later, Expired, Over, Holders
  <1>3. OrderInv'
    BY DEF Types, LaneHeld, OrderInv, InLane, WorkerInLane, IsData, Advance,
           CancelThrough, Later, Expired, Over, L1Entries, L2Entries, Tickets, Fences,
           Mutations, Reads, Passives, Holders, Versions, Absent, Void, NoTicket,
           NoFence, Local
  <1> QED
    BY <1>1, <1>2, <1>3, Zenon

LEMMA PassiveFetchPreserves ==
    ASSUME TypeOK, OrderInv, NEW p \in Peers, PassiveFetch(p)
    PROVE  TypeOK' /\ OrderInv'
  <1> USE HoldersDistinct, BoundsAreNaturals
      DEF TypeOK, net, hist, PassiveFetch
  <1>1. Types'
    <2>1. pas' \in [Peers -> Passives]
      <3>1. [pas[p] EXCEPT !.got = l2, !.pending = Pending] \in Passives
        BY PassiveUpdates, ZenonT(60) DEF Types, Pending
      <3>2. \/ pas' = pas
            \/ pas' = [pas EXCEPT ![p] = [pas[p] EXCEPT !.got = l2, !.pending = Pending]]
        BY ZenonT(60)
      <3> QED
        BY <3>1, <3>2, SMTT(60) DEF Types
    <2>2. events' \in Nat
      BY DEF Types, Event
    <2> QED
      BY <2>1, <2>2, ZenonT(60) DEF Types, Holders
  <1>2. LaneHeld' /\ InTransit'
    BY Zenon DEF Types, LaneHeld, InTransit, InLane, WorkerInLane, Event, Holders
  <1>3. OrderInv'
    BY Zenon DEF Types, LaneHeld, OrderInv, InLane, WorkerInLane, IsData, Event, L1Entries,
           L2Entries, Tickets, Fences, Mutations, Reads, Passives, Holders, Versions,
           Absent, Void, NoTicket, NoFence, Local
  <1> QED
    BY <1>1, <1>2, <1>3, Zenon

LEMMA PassiveEnterPreserves ==
    ASSUME TypeOK, OrderInv, NEW p \in Peers, PassiveEnter(p)
    PROVE  TypeOK' /\ OrderInv'
  <1> USE HoldersDistinct, BoundsAreNaturals
      DEF TypeOK, net, hist, PassiveEnter
  <1>1. Types'
    <2>1. pas' \in [Peers -> Passives]
      BY RecordTypes, Zenon DEF Types, Over
    <2>2. ppc' \in [Peers -> {"idle", "sent", "fetch", "lane", "insert", "done"}]
      BY Zenon DEF Types, Over
    <2>3. l1' \in L1Entries
      BY RecordTypes, Zenon DEF Types
    <2> QED
      BY <2>1, <2>2, <2>3, Zenon DEF Types, Holders
  <1>2. LaneHeld' /\ InTransit'
    BY SMTT(60) DEF Types, LaneHeld, InTransit, InLane, WorkerInLane, Over, Holders
  <1>3. OrderInv'
    BY ZenonT(60) DEF Types, LaneHeld, OrderInv, InLane, WorkerInLane, IsData, Over, L1Entries,
           L2Entries, Tickets, Fences, Mutations, Reads, Passives, Holders, Versions,
           Absent, Void, NoTicket, NoFence, Local
  <1> QED
    BY <1>1, <1>2, <1>3, Zenon

LEMMA PassiveInsertPreserves ==
    ASSUME TypeOK, OrderInv, NEW p \in Peers, PassiveInsert(p)
    PROVE  TypeOK' /\ OrderInv'
  <1> USE HoldersDistinct, BoundsAreNaturals
      DEF TypeOK, net, hist, PassiveInsert
  <1>1. Types'
    <2>1. pas' \in [Peers -> Passives]
      BY RecordTypes, Zenon DEF Types, Over
    <2>2. ppc' \in [Peers -> {"idle", "sent", "fetch", "lane", "insert", "done"}]
      BY Zenon DEF Types, Over
    <2>3. l1' \in L1Entries
      BY Zenon DEF Types, Hydrated, Passives, Fences, L2Entries, L1Entries, Versions
    <2> QED
      BY <2>1, <2>2, <2>3, Zenon DEF Types, Holders
  <1>2. LaneHeld' /\ InTransit'
    BY ZenonT(60) DEF Types, LaneHeld, InTransit, InLane, WorkerInLane, Hydrated, Over, Holders
  <1>3. OrderInv'
    BY ZenonT(60) DEF Types, LaneHeld, OrderInv, InLane, WorkerInLane, IsData, Hydrated, Over,
           L1Entries, L2Entries, Tickets, Fences, Mutations, Reads, Passives, Holders,
           Versions, Absent, Void, NoTicket, NoFence, Local
  <1> QED
    BY <1>1, <1>2, <1>3, ZenonT(60)

\* The claimed copy is of the stage the queue holds.
LEMMA ClaimPreserves ==
    ASSUME TypeOK, OrderInv, Claim
    PROVE  TypeOK' /\ OrderInv'
  <1> USE HoldersDistinct, BoundsAreNaturals
      DEF TypeOK, net, hist, Claim
  <1>1. Types'
    <2>1. slot' \in Tickets
      BY ClaimFacts, Zenon DEF Types
    <2>2. work' \in Tickets
      BY Zenon DEF Types
    <2> QED
      BY <2>1, <2>2, Zenon DEF Types, Holders
  <1>2. LaneHeld' /\ InTransit'
    BY Zenon DEF Types, LaneHeld, InTransit, InLane, WorkerInLane, Holders
  <1>3. OrderInv'
    <2>1. /\ gen' = gen /\ pc' = pc /\ op' = op
          /\ reached' = reached /\ acked' = acked /\ told' = told
      BY Zenon
    <2>2. CASE slot.gen # gen
      <3>1. slot' = NoTicket /\ work' = work /\ wpc' = "idle" /\ wpc = "idle"
        BY <2>2, Zenon
      <3> HIDE DEF Claim
      <3> QED
        BY <2>1, <3>1, RecordTypes, FieldTypes, SMTT(60) DEF Types, LaneHeld, OrderInv, InLane, WorkerInLane, IsData
    <2>3. CASE slot.gen = gen
      <3>1. /\ slot'.gen = gen /\ slot'.kind = slot.kind
            /\ work' = slot /\ wpc' = "lane"
        BY <2>3, TicketUpdates, ZenonT(60) DEF Types
      <3>2. slot # NoTicket
        BY Zenon
      <3> HIDE DEF Claim
      <3>3. \A w \in Writers : ~InLane(w)
        <4>1. \A w \in Writers : InLane(w) => slot.gen < gen
          BY Zenon DEF OrderInv
        <4>2. ~(slot.gen < gen)
          BY <2>3 DEF Types
        <4> QED
          BY <4>1, <4>2, Zenon
      <3> QED
        BY <2>1, <2>3, <3>1, <3>2, <3>3, RecordTypes, FieldTypes, SMTT(60) DEF Types, LaneHeld, OrderInv, InLane, WorkerInLane, IsData
    <2> QED
      BY <2>2, <2>3, Zenon
  <1> QED
    BY <1>1, <1>2, <1>3, Zenon

LEMMA WorkerEnterPreserves ==
    ASSUME TypeOK, OrderInv, WorkerEnter
    PROVE  TypeOK' /\ OrderInv'
  <1> USE HoldersDistinct, BoundsAreNaturals
      DEF TypeOK, net, hist, WorkerEnter
  <1>1. Types'
    <2>1. slot' \in Tickets
      BY DropFacts, Zenon DEF Types
    <2>2. work' \in Tickets
      BY RecordTypes, Zenon DEF Types, Stop
    <2> QED
      BY <2>1, <2>2, Zenon DEF Types, Stop, Holders
  <1>2. LaneHeld' /\ InTransit'
    BY Zenon DEF Types, LaneHeld, InTransit, InLane, WorkerInLane, Proceeds, Drop, Stop,
           IsCurrentTicket, SameTicket, PutBack, Complete, Holders
  <1>3. OrderInv'
    <2>1. \/ slot' = NoTicket
          \/ slot'.gen = slot.gen /\ slot'.kind = slot.kind
      BY DropFacts, Zenon DEF Types
    <2>2. Proceeds => work.gen = gen
      BY Zenon DEF Proceeds, IsCurrentTicket
    <2> QED
      BY <2>1, <2>2, RecordTypes, FieldTypes, SMTT(60) DEF Types, LaneHeld, OrderInv, InLane,
             WorkerInLane, IsData, Stop
  <1> QED
    BY <1>1, <1>2, <1>3, Zenon

LEMMA ReconcilePreserves ==
    ASSUME TypeOK, OrderInv, Reconcile
    PROVE  TypeOK' /\ OrderInv'
  <1> USE HoldersDistinct, BoundsAreNaturals
      DEF TypeOK, net, hist, Reconcile
  <1>1. Types'
    <2>1. slot' \in Tickets
      BY DropFacts, CompleteFacts, Zenon DEF Types
    <2>2. work' \in Tickets
      BY RecordTypes, Zenon DEF Types, Stop
    <2> QED
      BY <2>1, <2>2, Zenon DEF Types, Stop, Holders
  <1>2. LaneHeld' /\ InTransit'
    BY DEF Types, LaneHeld, InTransit, InLane, WorkerInLane, Proceeds, Drop, Stop,
           IsCurrentTicket, SameTicket, PutBack, Complete, Holders
  <1>3. OrderInv'
    <2>1. \/ slot' = NoTicket
          \/ slot'.gen = slot.gen /\ slot'.kind = slot.kind
      BY DropFacts, CompleteFacts, Zenon DEF Types
    <2> QED
      BY <2>1, RecordTypes, FieldTypes, SMTT(60) DEF Types, LaneHeld, OrderInv, InLane,
             WorkerInLane, IsData, Stop
  <1> QED
    BY <1>1, <1>2, <1>3, Zenon

LEMMA ColdReadPreserves ==
    ASSUME TypeOK, OrderInv, ColdRead
    PROVE  TypeOK' /\ OrderInv'
  <1> USE HoldersDistinct, BoundsAreNaturals
      DEF TypeOK, net, hist, ColdRead
  <1>1. Types'
    <2>1. slot' \in Tickets
      BY StagedFacts, CompleteFacts, Zenon DEF Types
    <2>2. work' \in Tickets
      <3>1. [work EXCEPT !.data = Expired(l2)] \in Tickets
        BY ExpiredTypes, TicketUpdates, ZenonT(60) DEF Types
      <3> QED
        BY <3>1, RecordTypes, Zenon DEF Types, Stop
    <2> QED
      BY <2>1, <2>2, ZenonT(60) DEF Types, Stop, Tickets, Holders
  <1>2. LaneHeld' /\ InTransit'
    BY Zenon DEF Types, LaneHeld, InTransit, InLane, WorkerInLane, Stop, Staged, SameTicket,
           Complete, Expired, Holders
  <1>3. OrderInv'
    <2>0. work.gen = gen /\ \A w \in Writers : ~InLane(w)
      BY Zenon DEF Types, LaneHeld, OrderInv, WorkerInLane
    <2>1. CASE l2 = Absent
      <3>1. \/ slot' = slot /\ (slot = NoTicket \/ slot.gen # work.gen)
            \/ slot'.gen = slot.gen /\ slot.gen = work.gen /\ slot'.kind = "Notify"
        BY <2>1, StagedFacts, Zenon DEF Types, SameTicket
      <3>2. acked' = work.gen /\ wpc' = "notify" /\ work' = work
        BY <2>1, Zenon
      <3> QED
        BY <2>0, <3>1, <3>2, RecordTypes, FieldTypes, SMTT(60) DEF Types, LaneHeld, OrderInv, InLane, WorkerInLane, IsData
    <2>2. CASE l2 # Absent /\ Overtaken(work.data.at)
      <3>1. slot' \in {slot, NoTicket}
        BY <2>2, CompleteFacts, Zenon DEF Types
      <3>2. acked' = acked /\ wpc' = "idle" /\ work' = NoTicket
        BY <2>2, Zenon DEF Stop
      <3> QED
        BY <2>0, <3>1, <3>2, RecordTypes, FieldTypes, SMTT(60) DEF Types, LaneHeld, OrderInv, InLane, WorkerInLane, IsData
    <2>3. CASE l2 # Absent /\ ~Overtaken(work.data.at)
      <3>1. work' = [work EXCEPT !.data = Expired(l2)]
        BY <2>3, Zenon
      <3>2. work'.gen = work.gen
        BY <3>1, TicketUpdates, ExpiredTypes, Zenon DEF Types
      <3>3. acked' = acked /\ wpc' = "apply" /\ slot' = slot
        BY <2>3, Zenon
      <3> QED
        BY <2>0, <3>2, <3>3, RecordTypes, FieldTypes, Zenon DEF Types, LaneHeld, OrderInv, InLane, WorkerInLane, IsData
    <2> QED
      BY <2>1, <2>2, <2>3, Zenon
  <1> QED
    BY <1>1, <1>2, <1>3, Zenon

LEMMA ApplyPreserves ==
    ASSUME TypeOK, OrderInv, Apply
    PROVE  TypeOK' /\ OrderInv'
  <1> USE HoldersDistinct, BoundsAreNaturals
      DEF TypeOK, net, hist, Apply
  <1>1. Types'
    <2>1. slot' \in Tickets
      BY StagedFacts, Zenon DEF Types
    <2>2. l2' \in L2Entries
      BY FieldTypes, Zenon DEF Types
    <2> QED
      BY <2>1, <2>2, ZenonT(60) DEF Types, Tickets, Holders
  <1>2. LaneHeld' /\ InTransit'
    BY Zenon DEF Types, LaneHeld, InTransit, InLane, WorkerInLane, Staged, SameTicket, Holders
  <1>3. OrderInv'
    <2>1. \/ slot' = slot /\ (slot = NoTicket \/ slot.gen # work.gen)
          \/ slot'.gen = slot.gen /\ slot.gen = work.gen /\ slot'.kind = "Notify"
      BY StagedFacts, Zenon DEF Types, SameTicket
    <2>2. work.gen = gen /\ \A w \in Writers : ~InLane(w)
      BY Zenon DEF Types, LaneHeld, OrderInv, WorkerInLane
    <2>3. /\ told' = told /\ reached' = work.gen /\ acked' = work.gen
          /\ gen' = gen /\ pc' = pc /\ op' = op /\ wpc' = "notify" /\ work' = work
      BY Zenon
    <2>4. /\ acked < gen /\ told <= acked
      BY FieldTypes, Zenon DEF Types, OrderInv
    <2>5. /\ slot'.gen \in 0..gen /\ ~IsData(slot')
          /\ slot' # NoTicket => slot'.gen = gen
      <3>1. slot # NoTicket => slot.gen = gen
        BY <2>2, FieldTypes DEF Types, OrderInv
      <3>2. gen \in Nat
        BY Zenon DEF Types
      <3> HIDE DEF Apply, TypeOK
      <3>3. NoTicket.gen = 0 /\ NoTicket.kind = "Notify"
        BY RecordTypes, Zenon
      <3> QED
        BY <2>1, <2>2, <3>1, <3>2, <3>3, SMTT(60) DEF IsData
    <2>6. gen \in Nat /\ told \in Nat /\ acked \in Nat /\ reached \in Nat
      BY Zenon DEF Types
    <2> HIDE DEF Apply, TypeOK
    <2> QED
      BY <2>2, <2>3, <2>4, <2>5, <2>6, SMTT(60) DEF OrderInv, InLane, WorkerInLane, IsData
  <1> QED
    BY <1>1, <1>2, <1>3, Zenon

LEMMA NotifyPreserves ==
    ASSUME TypeOK, OrderInv, Notify
    PROVE  TypeOK' /\ OrderInv'
  <1> USE HoldersDistinct, BoundsAreNaturals
      DEF TypeOK, net, hist, Notify
  <1>1. Types'
    <2>1. slot' \in Tickets
      BY DropFacts, CompleteFacts, Zenon DEF Types
    <2>2. work' \in Tickets
      BY RecordTypes, Zenon DEF Types, Stop
    <2> QED
      BY <2>1, <2>2, Zenon DEF Types, Stop, Tickets, Holders
  <1>2. LaneHeld' /\ InTransit'
    BY Zenon DEF Types, LaneHeld, InTransit, InLane, WorkerInLane, Proceeds, Drop, Stop,
           IsCurrentTicket, SameTicket, PutBack, Complete, Holders
  <1>3. OrderInv'
    <2>1. \/ slot' = NoTicket
          \/ slot'.gen = slot.gen /\ slot'.kind = slot.kind
      BY DropFacts, CompleteFacts, Zenon DEF Types
    <2>2. /\ work.gen = gen /\ \A w \in Writers : ~InLane(w)
          /\ acked = gen
      BY FieldTypes, ZenonT(60) DEF Types, LaneHeld, OrderInv, WorkerInLane
    <2>3. /\ told' \in {told, work.gen} /\ reached' \in {reached, work.gen} /\ acked' = acked
          /\ gen' = gen /\ pc' = pc /\ op' = op /\ wpc' = "idle" /\ work' = NoTicket
      BY Zenon DEF Stop
    <2> HIDE DEF Notify
    <2> QED
      BY <2>1, <2>2, <2>3, RecordTypes, FieldTypes, SMTT(60) DEF Types, LaneHeld, OrderInv, InLane, WorkerInLane, IsData
  <1> QED
    BY <1>1, <1>2, <1>3, Zenon

LEMMA ReplayFailsPreserves ==
    ASSUME TypeOK, OrderInv, ReplayFails
    PROVE  TypeOK' /\ OrderInv'
  <1> USE HoldersDistinct, BoundsAreNaturals
      DEF TypeOK, net, hist, ReplayFails
  <1>1. Types'
    <2>1. slot' \in Tickets
      BY RecordFailureFacts, Zenon DEF Types
    <2>2. work' \in Tickets
      BY RecordTypes, Zenon DEF Types, Stop
    <2>3. l2' \in L2Entries
      BY FieldTypes, SMTT(60) DEF Types
    <2> QED
      BY <2>1, <2>2, <2>3, SMTT(60) DEF Types, Stop, Event, Tickets, Holders
  <1>2. LaneHeld' /\ InTransit'
    BY Zenon DEF Types, LaneHeld, InTransit, InLane, WorkerInLane, Proceeds, Event, Stop,
           IsCurrentTicket, SameTicket, RecordFailure, Holders
  <1>3. OrderInv'
    <2>1. \/ slot' = NoTicket
          \/ slot'.gen = slot.gen /\ slot'.kind = slot.kind
      BY RecordFailureFacts, Zenon DEF Types
    <2>2. /\ work.gen = gen /\ \A w \in Writers : ~InLane(w)
          /\ acked <= gen
      BY FieldTypes, ZenonT(60) DEF Types, LaneHeld, OrderInv, WorkerInLane
    <2>3. /\ told' = told /\ reached' \in {reached, work.gen} /\ acked' = acked
          /\ gen' = gen /\ pc' = pc /\ op' = op /\ wpc' = "idle" /\ work' = NoTicket
      BY Zenon DEF Stop
    <2> HIDE DEF ReplayFails
    <2> QED
      BY <2>1, <2>2, <2>3, RecordTypes, FieldTypes, SMTT(60) DEF Types, LaneHeld, OrderInv, InLane, WorkerInLane, IsData
  <1> QED
    BY <1>1, <1>2, <1>3, Zenon

LEMMA LoseTicketPreserves ==
    ASSUME TypeOK, OrderInv, LoseTicket
    PROVE  TypeOK' /\ OrderInv'
  <1> USE HoldersDistinct, BoundsAreNaturals
      DEF TypeOK, net, hist, LoseTicket
  <1>1. Types'
    <2>1. slot' \in Tickets
      BY RecordTypes, Zenon DEF Types
    <2> QED
      BY <2>1, SMTT(60) DEF Types, Event, Holders
  <1>2. LaneHeld' /\ InTransit'
    BY Zenon DEF Types, LaneHeld, InTransit, InLane, WorkerInLane, Event, Holders
  <1>3. OrderInv'
    <2>1. /\ slot' = NoTicket /\ work' = work /\ wpc' = wpc /\ gen' = gen /\ pc' = pc /\ op' = op
          /\ told' = told /\ reached' = reached /\ acked' = acked
      BY Zenon
    <2>2. gen \in Nat /\ acked \in Nat /\ slot.gen \in Nat
      BY FieldTypes, Zenon DEF Types
    <2> HIDE DEF LoseTicket, TypeOK
    <2>3. NoTicket.gen = 0 /\ NoTicket.kind = "Notify"
      BY RecordTypes, Zenon
    <2> QED
      BY <2>1, <2>2, <2>3, SMTT(60) DEF OrderInv, InLane, WorkerInLane, IsData
  <1> QED
    BY <1>1, <1>2, <1>3, Zenon


-----------------------------------------------------------------------------
(* The invariant and what follows from it.                                 *)

LEMMA InitInv == Init => TypeOK /\ OrderInv
  <1> SUFFICES ASSUME Init PROVE TypeOK /\ OrderInv
    BY Zenon
  <1> USE HoldersDistinct, BoundsAreNaturals DEF Init
  <1>1. EntryOf(Old, 1) \in L2Entries /\ Stored(Old, 1) \in L1Entries
    BY ZenonT(60) DEF EntryOf, Stored, L2Entries, L1Entries, Versions
  <1>2. l2 \in L2Entries
    BY <1>1, RecordTypes, Zenon
  <1>3. l1 \in {Void, Stored(Old, 1)}
    BY SMTT(60) DEF EntryOf
  <1>4. Types
    BY <1>1, <1>2, <1>3, RecordTypes, ZenonT(60) DEF Types, Holders
  <1>5. LaneHeld /\ InTransit
    BY Zenon DEF LaneHeld, InTransit, InLane, WorkerInLane
  <1>6. OrderInv
    BY RecordTypes, SMTT(60) DEF OrderInv, InLane, WorkerInLane, IsData
  <1> QED
    BY <1>4, <1>5, <1>6, Zenon DEF TypeOK

LEMMA StutterPreserves ==
    ASSUME TypeOK, OrderInv, UNCHANGED vars
    PROVE  TypeOK' /\ OrderInv'
  BY ZenonT(60) DEF TypeOK, Types, LaneHeld, InTransit, OrderInv, InLane, WorkerInLane, IsData,
         vars, net, hist

LEMMA NextPreserves ==
    ASSUME TypeOK, OrderInv, [Next]_vars
    PROVE  TypeOK' /\ OrderInv'
  <1>1. ASSUME NEW w \in Writers, Mutation(w) PROVE TypeOK' /\ OrderInv'
    BY <1>1, BeginPreserves, RefusedPreserves, EnterPreserves, RetainReadPreserves,
       RetainReadFailsPreserves, WritePreserves, WriteFailsPreserves, PublishPreserves,
       PublishFailsPreserves, AbandonPreserves, Zenon DEF Mutation
  <1>2. ASSUME NEW r \in Readers, Reading(r) PROVE TypeOK' /\ OrderInv'
    BY <1>2, LookPreserves, CaptureFencePreserves, ObservePreserves, FetchPreserves,
       FetchFailsPreserves, CheckPreserves, InsertPreserves, FallbackPreserves, Zenon DEF Reading
  <1>3. ASSUME NEW p \in Peers, Peer(p) PROVE TypeOK' /\ OrderInv'
    BY <1>3, PeerMutatesPreserves, LagPreserves, IgnorePreserves, ReceivePreserves,
       PassiveFetchPreserves, PassiveEnterPreserves, PassiveInsertPreserves, Zenon DEF Peer
  <1>4. CASE Worker
    BY <1>4, ClaimPreserves, WorkerEnterPreserves, ReconcilePreserves,
       ColdReadPreserves, ApplyPreserves, NotifyPreserves, ReplayFailsPreserves,
       LoseTicketPreserves, Zenon DEF Worker
  <1>5. CASE Link
    BY <1>5, DisconnectPreserves, ReconnectPreserves, EnsureHealthPreserves,
       ClearMemoryPreserves, BarrierElapsesPreserves, Zenon DEF Link
  <1>6. CASE DropLane \/ Evict \/ GoStale
    BY <1>6, DropLanePreserves, EvictPreserves, GoStalePreserves, Zenon
  <1>7. CASE UNCHANGED vars
    BY <1>7, StutterPreserves, Zenon
  <1> QED
    BY <1>1, <1>2, <1>3, <1>4, <1>5, <1>6, <1>7, Zenon DEF Next

\* For any mutations, readers, peers, failures and gaps, the lane is held by exactly
\* the process between its lock and its unlock, and the progress of mutations,
\* queued and claimed tickets agrees with the lane's generation (commit_data,
\* replay_owned, hydrate, passive).
THEOREM OrderInvariance == Spec => [](TypeOK /\ OrderInv)
  <1>1. Init => TypeOK /\ OrderInv
    BY InitInv, Zenon
  <1>2. (TypeOK /\ OrderInv) /\ [Next]_vars => (TypeOK /\ OrderInv)'
    BY NextPreserves, Zenon
  <1> QED
    BY <1>1, <1>2, PTL DEF Spec

\* The types, and the lane is released on every path (lane_guard).
THEOREM TypeCorrectness == Spec => []TypeOK
  BY OrderInvariance, PTL

\* No publication before the backend acknowledged the mutation (commit_data,
\* replay_owned).
THEOREM PublicationFollowsData == Spec => []DataBeforePublication
  <1>1. TypeOK /\ OrderInv => DataBeforePublication
    BY Zenon DEF OrderInv, DataBeforePublication
  <1> QED
    BY <1>1, OrderInvariance, PTL

\* A retry never repeats a stage the backend has acknowledged (notification_stage).
THEOREM RetriesResume == Spec => []NoStageRepeats
  <1>1. TypeOK /\ OrderInv => NoStageRepeats
    BY Zenon DEF OrderInv, NoStageRepeats, WorkerInLane
  <1> QED
    BY <1>1, OrderInvariance, PTL

LEMMA StepFollowsLaneOrder ==
    ASSUME TypeOK, OrderInv, [Next]_vars
    PROVE  reached' >= reached /\ told' >= told
  <1>0. gen \in Nat /\ reached \in Nat /\ told \in Nat /\ acked \in Nat
    BY Zenon DEF TypeOK, Types
  <1> HIDE DEF TypeOK
  <1>1. ASSUME NEW w \in Writers, Mutation(w) PROVE reached' >= reached /\ told' >= told
    <2>1. InLane(w) => op[w].gen = gen
      BY Zenon DEF OrderInv
    <2>2. reached <= gen /\ told <= gen
      BY <1>0, SMTT(60) DEF OrderInv
    <2>3. /\ reached' \in {reached, op[w].gen} /\ told' \in {told, op[w].gen}
          /\ ~InLane(w) => reached' = reached /\ told' = told
      BY <1>1, Zenon DEF Mutation, InLane, hist, Begin, Refused, Enter, RetainRead,
             RetainReadFails, Write, WriteFails, Publish, PublishFails, Abandon
    <2> QED
      BY <1>0, <2>1, <2>2, <2>3, SMTT(60)
  <1>2. CASE Worker
    <2>1. WorkerInLane => work.gen = gen
      BY Zenon DEF OrderInv
    <2>2. reached <= gen /\ told <= gen
      BY <1>0, SMTT(60) DEF OrderInv
    <2>3. /\ reached' \in {reached, work.gen} /\ told' \in {told, work.gen}
          /\ ~WorkerInLane => reached' = reached /\ told' = told
      BY <1>2, Zenon DEF Worker, WorkerInLane, hist, Claim, WorkerEnter, Reconcile, ColdRead,
             Apply, Notify, ReplayFails, LoseTicket
    <2> QED
      BY <1>0, <2>1, <2>2, <2>3, SMTT(60)
  <1>3. ASSUME NEW r \in Readers, Reading(r) PROVE UNCHANGED hist
    BY <1>3, Zenon DEF Reading, Look, CaptureFence, Observe, Fetch, FetchFails, Check, Insert,
           Fallback
  <1>4. ASSUME NEW p \in Peers, Peer(p) PROVE UNCHANGED hist
    BY <1>4, Zenon DEF Peer, PeerMutates, Lag, Ignore, Receive, PassiveFetch, PassiveEnter,
           PassiveInsert
  <1>5. CASE Link \/ DropLane \/ Evict \/ GoStale
    <2>1. UNCHANGED hist
      BY <1>5, Zenon DEF Link, Disconnect, Reconnect, EnsureHealth, ClearMemory,
             BarrierElapses, DropLane, Evict, GoStale
    <2> QED
      BY <1>0, <2>1 DEF hist
  <1>6. CASE UNCHANGED vars
    BY <1>0, <1>6 DEF vars, hist
  <1> QED
    BY <1>0, <1>1, <1>2, <1>3, <1>4, <1>5, <1>6, SMTT(60) DEF Next, hist

\* An older mutation's late retry never undoes or republishes over a newer local
\* mutation, however mutations, failures and replays interleave (commit_data,
\* replay_owned, is_current).
THEOREM LaneOrder == Spec => EffectsFollowLaneOrder
  <1>1. /\ TypeOK /\ OrderInv
        /\ [Next]_vars
        => [reached' >= reached /\ told' >= told]_<<reached, told>>
    BY StepFollowsLaneOrder, Zenon
  <1> QED
    BY <1>1, OrderInvariance, PTL DEF Spec, EffectsFollowLaneOrder

===============================================================================
