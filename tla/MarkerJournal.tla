---------------------------- MODULE MarkerJournal ----------------------------
(* Tag and clear invalidations between nodes: mutate_markers and              *)
(* commit_marker (src/cache/markers.rs), their replay                         *)
(* (src/cache/marker_recovery.rs, src/recovery/marker_snapshots.rs) and the   *)
(* handler of a peer's marker (src/cache/runtime.rs).                         *)
(*                                                                            *)
(* An invalidation first advances the node's own registry, then, holding the  *)
(* node's marker lane, the durable journal, the observation snapshots and the *)
(* peers, in this order.  A stage that fails leaves its remaining stages in   *)
(* the recovery queue, one work item per marker kind, where a newer item of   *)
(* the kind replaces an older one.  An overfull journal replaces its tags by  *)
(* a hard clear, which then is a fact of its own that must reach the peers.   *)
(*                                                                            *)
(* Versions are whatever the callers' clocks say, in any order.  The queue is *)
(* unlimited and retries without limit (see AutoRecovery for the limits); the *)
(* contents of the snapshots are in MarkerReads, so here a population only    *)
(* tells the node what the journal holds.                                     *)
EXTENDS MarkerState, Sequences, SequencesExt

CONSTANTS
  Nodes,
  Callers,      \* concurrent invalidation requests
  Home,         \* the node of every caller
  KindLists,    \* the kinds a request may name
  Journals,     \* what other nodes may have left in the journal
  MaxVersion,   \* bound on versions
  MaxOps,       \* bound on requests
  MaxFaults,    \* bound on failed calls, dropped requests and stopped replays
  LocalTags,    \* capacity of a node's registry
  StoreTags     \* capacity of the journal

ASSUME JournalAssumption ==
  /\ Home \in [Callers -> Nodes]
  /\ Journals \subseteq MarkerStates
  /\ KindLists \subseteq Seq(MarkerKind) /\ <<>> \notin KindLists
  /\ MaxVersion \in Nat /\ MaxOps \in Nat /\ MaxFaults \in Nat
  /\ LocalTags \in Nat \ {0} /\ StoreTags \in Nat \ {0}

VARIABLES
  journal,    \* the InvalidationStore
  registry,   \* per node: its TagRegistry
  lane,       \* per node: who holds marker_lane
  op,         \* per caller: the invalidation request in progress
  queue,      \* per node and kind: the captured recovery work
  replay,     \* per node: the replay in progress
  wire,       \* backplane messages not yet handled
  owed,       \* history: markers the code has committed itself to spread
  started, faults

vars == <<journal, registry, lane, op, queue, replay, wire, owed, started, faults>>

Versions == 1..MaxVersion

Marker(kind, version) == [kind |-> kind, version |-> version]

Markers == [kind: MarkerKind, version: Versions]

Free == "free"
Replayer == "replay"

NoChild == [version |-> 0, phase |-> "none"]

\* MarkerMutationRecovery.  NotifyOnly work is the "notify" phase without more.
Work(version, phase, extra, child) ==
  [version |-> version, phase |-> phase, extra |-> extra, child |-> child]

NoWork == Work(0, "none", 0, NoChild)

IdleOp ==
  [pc |-> "idle", now |-> 0, strict |-> FALSE,
   kinds |-> <<>>, commands |-> <<>>, notes |-> <<>>, reported |-> {}]

IdleReplay ==
  [pc |-> "idle", kind |-> ClearRemove, work |-> NoWork, notes |-> <<>>, current |-> FALSE]

Init ==
  /\ journal \in Journals
  /\ registry = [n \in Nodes |-> Default]
  /\ lane = [n \in Nodes |-> Free]
  /\ op = [c \in Callers |-> IdleOp]
  /\ queue = [n \in Nodes |-> [k \in MarkerKind |-> NoWork]]
  /\ replay = [n \in Nodes |-> IdleReplay]
  /\ wire = {} /\ owed = {} /\ started = 0 /\ faults = 0

Fault == faults < MaxFaults /\ faults' = faults + 1

\* apply_marker for a sequence of markers.
Applied(state, markers) ==
  FoldLeft(LAMBDA s, m : Advanced(s, m.kind, m.version, LocalTags), state, markers)

\* What the journal tells a node that renews the snapshots of these markers.
Renewed(markers) ==
  [i \in DOMAIN markers |->
     Marker(markers[i].kind, MaxOf(markers[i].version, Read(journal, markers[i].kind)))]

Clear(version) == IF version = 0 THEN <<>> ELSE <<Marker(ClearRemove, version)>>

\* BackplaneCommand::Marker reaches every other node.
Sent(n, marker) == wire' = wire \cup {[to |-> m, marker |-> marker] : m \in Nodes \ {n}}

-----------------------------------------------------------------------------
(* The recovery queue. *)

\* Mutation: replacing an item forgets the clear it still had to publish.
InheritedNothing(previous) == NoChild

\* The committed hard clear that outlives the replacement of its work item:
\* the strongest of the item's own and the inherited one, the further one on a
\* tie (completed_compaction, inherit_compaction).
Inherited(previous) ==
  LET own == IF previous.phase = "advance" \/ previous.extra = 0 THEN NoChild
             ELSE [version |-> previous.extra, phase |-> previous.phase]
      child == previous.child
  IN CASE own.version > child.version -> own
       [] own.version < child.version -> child
       [] OTHER -> IF own.phase = "notify" THEN own ELSE child

\* Only work with a later version replaces queued work of its kind.
Replaces(n, marker) == queue[n][marker.kind].version < marker.version

\* enqueue_marker_mutation and enqueue_marker for several markers of one node.
\* A replay that holds a ticket for a replaced item is no longer current.
Enqueue(n, markers, phase) ==
  LET accepted == {m \in markers : Replaces(n, m)}
  IN /\ queue' = [queue EXCEPT ![n] =
           [k \in MarkerKind |->
              IF \E m \in accepted : m.kind = k
              THEN LET m == CHOOSE m \in accepted : m.kind = k
                   IN Work(m.version, phase, 0, Inherited(@[k]))
              ELSE @[k]]]
     /\ replay' = [replay EXCEPT ![n].current =
           @ /\ \A m \in accepted : m.kind # replay[n].kind]

-----------------------------------------------------------------------------
(* An invalidation request. *)

\* remove_by_tag, remove_by_tags or clear is called.
Begin(c, now, kinds, strict) ==
  /\ op[c].pc = "idle" /\ started < MaxOps
  /\ started' = started + 1
  /\ op' = [op EXCEPT ![c] = [IdleOp EXCEPT !.pc = "local", !.now = now,
                                            !.kinds = kinds, !.strict = strict]]
  /\ UNCHANGED <<journal, registry, lane, queue, replay, wire, owed, faults>>

\* mutate_markers, one kind: the registry is advanced and the marker it
\* reports, with a hard clear if the registry overflowed, becomes a command.
Local(c) ==
  LET o == op[c]
      n == Home[c]
      kind == Head(o.kinds)
      report == Marker(kind, Reported(registry[n], kind, o.now, LocalTags))
      clear == Clear(Promoted(registry[n], kind, o.now, LocalTags))
  IN /\ o.pc = "local"
     /\ registry' = [registry EXCEPT ![n] = Advanced(@, kind, o.now, LocalTags)]
     /\ op' = [op EXCEPT ![c] =
          [@ EXCEPT !.commands = @ \o <<report>> \o clear,
                    !.kinds = Tail(@),
                    !.pc = IF Len(o.kinds) = 1 THEN "advance" ELSE "local"]]
     /\ UNCHANGED <<journal, lane, queue, replay, wire, owed, started, faults>>

\* The command is over: the next one, or the end of the request.  A strict
\* request ends with the first error.
NextCommand(c, failed) ==
  op' = [op EXCEPT ![c] =
    IF Len(@.commands) = 1 \/ (failed /\ @.strict) THEN IdleOp
    ELSE [@ EXCEPT !.pc = "advance", !.commands = Tail(@), !.notes = <<>>, !.reported = {}]]

\* The order in which a command's markers are published.
Notes(report, clear) == clear \o <<report>>

\* commit_marker takes the lane and advances the journal.  The command is
\* rebuilt from what the journal reports.
Advance(c) ==
  LET o == op[c]
      n == Home[c]
      cmd == Head(o.commands)
      report == Marker(cmd.kind, Reported(journal, cmd.kind, cmd.version, StoreTags))
      clear == Clear(Promoted(journal, cmd.kind, cmd.version, StoreTags))
  IN /\ o.pc = "advance" /\ lane[n] = Free
     /\ lane' = [lane EXCEPT ![n] = c]
     /\ journal' = Advanced(journal, cmd.kind, cmd.version, StoreTags)
     /\ registry' = [registry EXCEPT ![n] = Applied(@, <<report>> \o clear)]
     /\ op' = [op EXCEPT ![c].pc = "populate",
                         ![c].notes = Notes(report, clear),
                         ![c].reported = {report} \cup ToSet(clear)]
     /\ UNCHANGED <<queue, replay, wire, owed, started, faults>>

\* The journal does not answer, whether or not it took the marker: the whole
\* command is captured and nothing is published.
AdvanceFails(c, taken) ==
  LET n == Home[c]
      cmd == Head(op[c].commands)
  IN /\ op[c].pc = "advance" /\ lane[n] = Free /\ Fault
     /\ journal' = IF taken THEN Advanced(journal, cmd.kind, cmd.version, StoreTags) ELSE journal
     /\ Enqueue(n, {cmd}, "advance")
     /\ owed' = owed \cup {cmd}
     /\ NextCommand(c, TRUE)
     /\ UNCHANGED <<registry, lane, wire, started>>

\* populate_marker_mutation: the snapshots of all markers are renewed.
Populate(c) ==
  LET n == Home[c]
  IN /\ op[c].pc = "populate"
     /\ registry' = [registry EXCEPT ![n] = Applied(@, Renewed(op[c].notes))]
     /\ op' = [op EXCEPT ![c].pc = "publish"]
     /\ UNCHANGED <<journal, lane, queue, replay, wire, owed, started, faults>>

Release(n) == lane' = [lane EXCEPT ![n] = Free]

\* A failed renewal is suppressed, or ends a strict request after every marker
\* it still had to publish has been queued.
PopulateFails(c) ==
  LET n == Home[c]
  IN /\ op[c].pc = "populate" /\ Fault
     /\ IF op[c].strict
        THEN /\ Enqueue(n, op[c].reported, "notify")
             /\ owed' = owed \cup op[c].reported
             /\ Release(n)
             /\ NextCommand(c, TRUE)
        ELSE /\ op' = [op EXCEPT ![c].pc = "publish"]
             /\ UNCHANGED <<queue, replay, owed, lane>>
     /\ UNCHANGED <<journal, registry, wire, started>>

\* The marker at the head of the notes has been dealt with.
Noted(c) ==
  IF Len(op[c].notes) = 1
  THEN /\ owed' = owed \cup op[c].reported
       /\ Release(Home[c])
       /\ NextCommand(c, FALSE)
  ELSE /\ op' = [op EXCEPT ![c].notes = Tail(@)]
       /\ UNCHANGED <<owed, lane>>

Publish(c) ==
  /\ op[c].pc = "publish"
  /\ Sent(Home[c], Head(op[c].notes))
  /\ Noted(c)
  /\ UNCHANGED <<journal, registry, queue, replay, started, faults>>

\* A marker that could not be published is queued; a strict request ends here
\* and leaves the later ones unpublished.
PublishFails(c) ==
  LET n == Home[c]
  IN /\ op[c].pc = "publish" /\ Fault
     /\ Enqueue(n, {Head(op[c].notes)}, "notify")
     /\ IF op[c].strict
        THEN owed' = owed \cup op[c].reported /\ Release(n) /\ NextCommand(c, TRUE)
        ELSE Noted(c)
     /\ UNCHANGED <<journal, registry, wire, started>>

\* The caller drops or cancels the request.
Abandon(c) ==
  LET n == Home[c]
  IN /\ op[c].pc # "idle" /\ Fault
     /\ lane' = [lane EXCEPT ![n] = IF @ = c THEN Free ELSE @]
     /\ op' = [op EXCEPT ![c] = IdleOp]
     /\ UNCHANGED <<journal, registry, queue, replay, wire, owed, started>>

-----------------------------------------------------------------------------
(* The replay of queued work. *)

StageOf(work) ==
  CASE work.child # NoChild -> IF work.child.phase = "populate" THEN "child populate" ELSE "child publish"
    [] OTHER -> work.phase

\* The markers of a work item, in replay order.
Commands(kind, work) == <<Marker(kind, work.version)>> \o Clear(work.extra)

\* Mutation: an item that has reached its last stage is never taken up.
ClaimSkipsNotify(n, kind) ==
  /\ replay[n].pc = "idle" /\ queue[n][kind] # NoWork /\ queue[n][kind].phase # "notify"
  /\ replay' = [replay EXCEPT ![n] =
       [pc |-> "lane", kind |-> kind, work |-> queue[n][kind], notes |-> <<>>, current |-> TRUE]]
  /\ UNCHANGED <<journal, registry, lane, op, queue, wire, owed, started, faults>>

\* A ticket is taken while the item stays in the queue.
Claim(n, kind) ==
  /\ replay[n].pc = "idle" /\ queue[n][kind] # NoWork
  /\ replay' = [replay EXCEPT ![n] =
       [pc |-> "lane", kind |-> kind, work |-> queue[n][kind], notes |-> <<>>, current |-> TRUE]]
  /\ UNCHANGED <<journal, registry, lane, op, queue, wire, owed, started, faults>>

LaneOpen(n) == lane[n] = Free

\* replay_marker_mutation takes the lane; a superseded ticket ends at once.
Enter(n) ==
  LET r == replay[n]
  IN /\ r.pc = "lane" /\ LaneOpen(n)
     /\ IF r.current
        THEN /\ lane' = [lane EXCEPT ![n] = Replayer]
             /\ replay' = [replay EXCEPT ![n].pc = StageOf(r.work),
                                         ![n].notes = Commands(r.kind, r.work)]
        ELSE replay' = [replay EXCEPT ![n] = IdleReplay] /\ UNCHANGED lane
     /\ UNCHANGED <<journal, registry, op, queue, wire, owed, started, faults>>

\* The replay is over, because it is done or its ticket is stale.
ReplayEnds(n) == replay' = [replay EXCEPT ![n] = IdleReplay] /\ Release(n)

\* marker_population_stage: the item is rewritten under its own ticket and the
\* replay goes on with it, or the replay ends because the ticket is stale.
Stage(n, work) ==
  LET r == replay[n]
  IN IF r.current
     THEN /\ queue' = [queue EXCEPT ![n][r.kind] = work]
          /\ replay' = [replay EXCEPT ![n] =
               [@ EXCEPT !.work = work, !.pc = StageOf(work), !.notes = Commands(r.kind, work)]]
          /\ UNCHANGED lane
     ELSE ReplayEnds(n) /\ UNCHANGED queue

\* replay_inherited_compaction, its snapshot.
ChildPopulate(n) ==
  LET w == replay[n].work
  IN /\ replay[n].pc = "child populate"
     /\ registry' = [registry EXCEPT ![n] = Applied(@, Renewed(Clear(w.child.version)))]
     /\ Stage(n, [w EXCEPT !.child.phase = "notify"])
     /\ UNCHANGED <<journal, op, wire, owed, started, faults>>

\* replay_inherited_compaction, its publication.
ChildPublish(n) ==
  LET w == replay[n].work
  IN /\ replay[n].pc = "child publish"
     /\ IF replay[n].current THEN Sent(n, Marker(ClearRemove, w.child.version)) ELSE UNCHANGED wire
     /\ Stage(n, [w EXCEPT !.child = NoChild])
     /\ UNCHANGED <<journal, registry, op, owed, started, faults>>

\* advance_captured_marker.
ReplayAdvance(n) ==
  LET r == replay[n]
      report == Reported(journal, r.kind, r.work.version, StoreTags)
      clear == Promoted(journal, r.kind, r.work.version, StoreTags)
      next == Work(report, "populate", clear, r.work.child)
  IN /\ r.pc = "advance"
     /\ journal' = Advanced(journal, r.kind, r.work.version, StoreTags)
     /\ registry' = [registry EXCEPT ![n] = Applied(@, Commands(r.kind, next))]
     /\ Stage(n, next)
     /\ owed' = owed \cup (IF r.current THEN ToSet(Commands(r.kind, next)) ELSE {})
     /\ UNCHANGED <<op, wire, started, faults>>

\* finish_captured_marker, the snapshots, then notification_stage.
ReplayPopulate(n) ==
  LET r == replay[n]
  IN /\ r.pc = "populate"
     /\ registry' = [registry EXCEPT ![n] = IF r.current THEN Applied(@, Renewed(r.notes)) ELSE @]
     /\ Stage(n, [r.work EXCEPT !.phase = "notify"])
     /\ UNCHANGED <<journal, op, wire, owed, started, faults>>

\* finish_captured_marker, one publication; after the last one the item is
\* compare-removed from the queue.
ReplayPublish(n) ==
  LET r == replay[n]
  IN /\ r.pc = "notify"
     /\ IF r.current THEN Sent(n, Head(r.notes)) ELSE UNCHANGED wire
     /\ IF r.current /\ Len(r.notes) > 1
        THEN /\ replay' = [replay EXCEPT ![n].notes = Tail(@)]
             /\ UNCHANGED <<queue, lane>>
        ELSE /\ queue' = IF r.current THEN [queue EXCEPT ![n][r.kind] = NoWork] ELSE queue
             /\ ReplayEnds(n)
     /\ UNCHANGED <<journal, registry, op, owed, started, faults>>

ReleaseReplay(n) == lane' = [lane EXCEPT ![n] = IF @ = Replayer THEN Free ELSE @]

\* A stage fails, is cancelled or finds the backplane down: the item stays in
\* the queue at the stage it has reached.  The journal may have taken the
\* marker although the call failed.
ReplayStops(n, taken) ==
  LET r == replay[n]
  IN /\ r.pc # "idle" /\ Fault
     /\ taken => r.pc = "advance"
     /\ journal' = IF taken THEN Advanced(journal, r.kind, r.work.version, StoreTags) ELSE journal
     /\ replay' = [replay EXCEPT ![n] = IdleReplay]
     /\ ReleaseReplay(n)
     /\ UNCHANGED <<registry, op, queue, wire, owed, started>>

\* apply_backplane on a peer: the marker is absorbed by its registry.
Receive(message) ==
  /\ registry' = [registry EXCEPT ![message.to] = Applied(@, <<message.marker>>)]
  /\ wire' = wire \ {message}
  /\ UNCHANGED <<journal, lane, op, queue, replay, owed, started, faults>>

OpGoesOn(c) == Local(c) \/ Advance(c) \/ Populate(c) \/ Publish(c)

OpFails(c) ==
  \/ \E taken \in BOOLEAN : AdvanceFails(c, taken)
  \/ PopulateFails(c) \/ PublishFails(c) \/ Abandon(c)

ReplayGoesOn(n) ==
  \/ \E kind \in MarkerKind : Claim(n, kind)
  \/ Enter(n) \/ ChildPopulate(n) \/ ChildPublish(n)
  \/ ReplayAdvance(n) \/ ReplayPopulate(n) \/ ReplayPublish(n)

Next ==
  \/ \E c \in Callers :
       \/ \E now \in Versions, kinds \in KindLists, strict \in BOOLEAN :
            Begin(c, now, kinds, strict)
       \/ OpGoesOn(c) \/ OpFails(c)
  \/ \E n \in Nodes : ReplayGoesOn(n) \/ \E taken \in BOOLEAN : ReplayStops(n, taken)
  \/ \E message \in wire : Receive(message)

Spec == Init /\ [][Next]_vars

\* Requests and replays are polled, the lane is a fair tokio Mutex and the
\* broadcast channel delivers.
FairSpec ==
  /\ Spec
  /\ \A c \in Callers : SF_vars(OpGoesOn(c))
  /\ \A n \in Nodes : SF_vars(ReplayGoesOn(n))
  /\ WF_vars(\E message \in wire : Receive(message))

-----------------------------------------------------------------------------
(* Properties. *)

Works ==
  [version: 0..MaxVersion, phase: {"none", "advance", "populate", "notify"}, extra: 0..MaxVersion,
   child: {NoChild} \cup [version: Versions, phase: {"populate", "notify"}]]

\* The state is well formed.  The registry and the journal stay within their
\* capacities, an inherited clear is never one that still has to be advanced,
\* and only the holder of a lane is at work behind it.
TypeOK ==
  /\ journal \in MarkerStates /\ Cardinality(Known(journal)) <= StoreTags
  /\ \A n \in Nodes :
       /\ registry[n] \in MarkerStates /\ Cardinality(Known(registry[n])) <= LocalTags
       /\ queue[n] \in [MarkerKind -> Works]
       /\ replay[n].pc \notin {"idle", "lane"} <=> lane[n] = Replayer
       /\ \A c \in Callers : (op[c].pc \in {"populate", "publish"} /\ Home[c] = n) <=> lane[n] = c
  /\ wire \subseteq [to: Nodes, marker: Markers] /\ owed \subseteq Markers
  /\ started \in 0..MaxOps /\ faults \in 0..MaxFaults

Absorbs(marker, other) ==
  marker.version >= other.version /\ marker.kind \in {other.kind, ClearRemove}

\* The markers a queued item will still publish.
Pending(n) ==
  {m \in Markers : \E kind \in MarkerKind :
     LET w == queue[n][kind]
     IN /\ w # NoWork
        /\ \/ m \in ToSet(Commands(kind, w))
           \/ m = Marker(ClearRemove, w.child.version)}

\* Whatever fails, is replaced in the queue or is cut short by a strict error:
\* a marker the code has committed itself to is durable or queued to become so,
\* and every node has absorbed it, has a message that makes it do so under way,
\* or is owed one by some node's recovery queue.  This is why commit_marker
\* publishes the promoted clear before the tag, why populate_marker_commands
\* queues every marker before it returns the error and why inherit_compaction
\* keeps the clear of the item it replaces.
OwedIsDue ==
  \A f \in owed :
    /\ \/ Covers(journal, f.kind, f.version)
       \/ \E n \in Nodes, kind \in MarkerKind :
            queue[n][kind].phase = "advance" /\ Absorbs(Marker(kind, queue[n][kind].version), f)
    /\ \A n \in Nodes :
         \/ Covers(registry[n], f.kind, f.version)
         \/ \E message \in wire : message.to = n /\ Absorbs(message.marker, f)
         \/ \E m \in Nodes : \E p \in Pending(m) : Absorbs(p, f)

\* A marker travels only after the journal has absorbed it: a node that hears of
\* an invalidation and then reads cold is told at least as much by the journal.
PublishedIsDurable ==
  \A message \in wire : Covers(journal, message.marker.kind, message.marker.version)

\* The journal, the queues and the messages at every moment: the types and the two
\* invariants above.
JournalInv == TypeOK /\ OwedIsDue /\ PublishedIsDurable

Rank(verdict) == CASE verdict = "Valid" -> 0 [] verdict = "Expire" -> 1 [] OTHER -> 2

\* Markers only ever harden: no step, and in particular no compaction of a full
\* registry or journal, softens the verdict on any entry.
VerdictsHarden ==
  [][\A created \in Versions, tags \in SUBSET Tags, behavior \in {"Expire", "Remove"} :
       /\ Rank(Evaluate(journal, created, tags, behavior))
            <= Rank(Evaluate(journal', created, tags, behavior))
       /\ \A n \in Nodes :
            Rank(Evaluate(registry[n], created, tags, behavior))
              <= Rank(Evaluate(registry'[n], created, tags, behavior))]_vars

Spread ==
  \A f \in owed :
    /\ Covers(journal, f.kind, f.version)
    /\ \A n \in Nodes : Covers(registry[n], f.kind, f.version)

\* Once calls stop failing, every marker the code has committed itself to
\* reaches the journal and all nodes.
InvalidationSpreads == []<>Spread
==============================================================================
