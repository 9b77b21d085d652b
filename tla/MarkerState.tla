----------------------------- MODULE MarkerState -----------------------------
(* The bounded state of invalidation markers (src/tags.rs): the highest       *)
(* version seen of every tag and of the two scope-wide clears.  The same      *)
(* state and the same Advance serve the local TagRegistry, the in-memory      *)
(* InvalidationStore and the Redis script.  A version is a positive natural;  *)
(* 0 stands for an absent marker.  When more tags are known than the state    *)
(* may keep, the tags are replaced by one hard clear at the highest of them.  *)
EXTENDS Integers, FiniteSets, FiniteSetsExt

CONSTANT Tags

ClearRemove == "clear remove"
ClearExpire == "clear expire"

ASSUME TagsAssumption == IsFiniteSet(Tags) /\ Tags # {} /\ {ClearRemove, ClearExpire} \cap Tags = {}

MarkerKind == Tags \cup {ClearRemove, ClearExpire}

MarkerStates == [tags: [Tags -> Nat], remove: Nat, expire: Nat]

Default == [tags |-> [t \in Tags |-> 0], remove |-> 0, expire |-> 0]

MaxOf(a, b) == IF a >= b THEN a ELSE b

\* Option<MarkerVersion> of one kind.
Read(state, kind) ==
  CASE kind = ClearRemove -> state.remove
    [] kind = ClearExpire -> state.expire
    [] OTHER -> state.tags[kind]

\* Mutation: the offered version is stored even if it is the lower one.
RaisedLatest(state, kind, version) ==
  CASE kind = ClearRemove -> [state EXCEPT !.remove = version]
    [] kind = ClearExpire -> [state EXCEPT !.expire = version]
    [] OTHER -> [state EXCEPT !.tags[kind] = version]

\* The maximum of the old and the offered version is kept.
Raised(state, kind, version) ==
  CASE kind = ClearRemove -> [state EXCEPT !.remove = MaxOf(@, version)]
    [] kind = ClearExpire -> [state EXCEPT !.expire = MaxOf(@, version)]
    [] OTHER -> [state EXCEPT !.tags[kind] = MaxOf(@, version)]

Known(state) == {t \in Tags : state.tags[t] > 0}

Overfull(state, capacity) == Cardinality(Known(state)) > capacity

\* The hard clear that replaces the tags of an overfull state.
Fence(state) == MaxOf(state.remove, Max({state.tags[t] : t \in Known(state)}))

Compacted(state) ==
  LET fence == Fence(state)
  IN [state EXCEPT !.remove = fence,
                   !.tags = [t \in Tags |-> IF @[t] > fence THEN @[t] ELSE 0]]

\* The state after MarkerState::advance.
Advanced(state, kind, version, capacity) ==
  LET next == Raised(state, kind, version)
  IN IF Overfull(next, capacity) THEN Compacted(next) ELSE next

\* The hard clear a Compacted outcome reports, 0 for a plain Advanced one.  An
\* advance of the hard clear itself never reports a second one.
Promoted(state, kind, version, capacity) ==
  LET next == Raised(state, kind, version)
  IN IF kind # ClearRemove /\ Overfull(next, capacity) THEN Fence(next) ELSE 0

\* The version of the marker an outcome reports.
Reported(state, kind, version, capacity) ==
  LET next == Raised(state, kind, version)
  IN IF kind = ClearRemove /\ Overfull(next, capacity) THEN Fence(next) ELSE Read(next, kind)

\* TagRegistry::evaluate: the verdict on an entry created at `created` with the
\* tags `tags`, when a tag marker means `behavior`.  Comparisons are inclusive.
Evaluate(state, created, tags, behavior) ==
  IF created <= state.remove THEN "Remove"
  ELSE IF \E t \in tags : created <= state.tags[t] THEN behavior
  ELSE IF created <= state.expire THEN "Expire"
  ELSE "Valid"

\* What a marker demands of a state that has absorbed it: every entry that the
\* marker invalidates is invalid under the state, at least as strongly.
Covers(state, kind, version) == MaxOf(Read(state, kind), state.remove) >= version
==============================================================================
