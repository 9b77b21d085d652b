--------------------------- MODULE SingleFlightSteps ----------------------------
(***************************************************************************)
(* The steps that poll, complete and cancel the shared work preserve the   *)
(* inductive invariant of SingleFlight, for any number of callers, flights *)
(* and cancellation reasons.                                               *)
(***************************************************************************)
EXTENDS SingleFlight, TLAPS

-------------------------------------------------------------------------------
(* Abbreviations of the proofs *)

\* t has the work of f out of the cell; t is about to cancel f; f has a reason against
\* work that lies in its cell.
Works(t, f) == on[t] = f /\ pc[t] \in Working
Cancels(t, f) == on[t] = f /\ pc[t] \in {"cancel", "recheck"}
Cancellable(f) == reason[f] \in CancelReasons /\ state[f] \in {"Starting", "Pending"}

\* The part of ReasonInv about what a recorded reason implies.
RecordInv ==
    \A f \in Flights :
        /\ reason[f] = "ScopeFinished" => state[f] \notin Live
        /\ \A t \in Tasks : on[t] = f /\ pc[t] \in Cancelling => reason[f] # "none"
        /\ \A t \in Tasks : on[t] = f /\ pc[t] \in {"cancel_unlist", "cancel_notify"} => state[f] # "Starting"
        /\ \A t \in Tasks : on[t] = f /\ pc[t] = "finish" => state[f] \notin Live

\* A step that moves no work in or out of a cell.
LEMMA WorkFrame ==
    ASSUME WorkInv,
           \A g \in Flights : state'[g] = "Polling" <=> state[g] = "Polling",
           \A g \in Flights, u \in Tasks : Works(u, g)' <=> Works(u, g)
    PROVE  WorkInv'
  BY DEF WorkInv, Works

\* A step that gives nobody's work a reason, and takes no canceller away from work that
\* has one.
LEMMA ReasonFrame ==
    ASSUME ReasonInv, RecordInv',
           \A g \in Flights : Cancellable(g)' =>
               Cancellable(g) /\ \A u \in Tasks : Cancels(u, g) => Cancels(u, g)'
    PROVE  ReasonInv'
  <1>1. ASSUME NEW g \in Flights, Cancellable(g)'
        PROVE  \E u \in Tasks : Cancels(u, g)'
    <2>1. PICK u \in Tasks : Cancels(u, g)
      BY <1>1, Zenon DEF ReasonInv, Cancels, Cancellable
    <2> QED
      BY <1>1, <2>1, Zenon
  <1> QED
    BY <1>1, Zenon DEF ReasonInv, RecordInv, Cancels, Cancellable

\* A step that neither changes who subscribes nor finishes a flight.
LEMMA SubscriberFrame ==
    ASSUME SubscriberInv, UNCHANGED subscribers,
           \A g \in Flights : Subscribed(g)' = Subscribed(g),
           \A g \in Flights : state'[g] \in {"Owned", "LeaseLost", "Finished"} => state'[g] = state[g],
           \A g \in Flights : reason[g] \in CancelReasons => reason'[g] \in CancelReasons,
           \A d \in Callers : pc[d] = "drop" => pc'[d] = "drop"
    PROVE  SubscriberInv'
  <1>1. \A g \in Flights : \A d \in Subscribed(g) : d \in Callers
    BY Zenon DEF Subscribed
  <1> QED
    BY <1>1, Zenon DEF SubscriberInv

\* The work is out of each cell with exactly the task that took it.
LEMMA WorkFrom ==
    ASSUME \A g \in Flights, u, v \in Tasks : Works(u, g)' /\ Works(v, g)' => u = v,
           \A g \in Flights : state'[g] = "Polling" <=> \E u \in Tasks : Works(u, g)'
    PROVE  WorkInv'
  BY Zenon DEF WorkInv, Works

LEMMA SetFlag ==
    ASSUME NEW S, NEW flag \in [S -> BOOLEAN], NEW x
    PROVE  [flag EXCEPT ![x] = FALSE] \in [S -> BOOLEAN]
  BY Zenon

LEMMA SetEntry ==
    ASSUME NEW S, NEW T, NEW f \in [S -> T], NEW x, NEW v \in T
    PROVE  [f EXCEPT ![x] = v] \in [S -> T]
  BY Zenon

\* What the proofs use about the sizes of sets of callers; SingleFlightProofs proves it
\* from the finiteness of Callers.
Counting ==
    /\ Cardinality(Callers) \in Nat
    /\ \A S \in SUBSET Callers :
        /\ Cardinality(S) = 0 <=> S = {}
        /\ \A c \in S :
            /\ Cardinality(S \ {c}) = Cardinality(S) - 1
            /\ Cardinality(S) \in 1 .. Cardinality(Callers)
            /\ Cardinality(S) = 1 <=> S = {c}
        /\ \A c \in Callers \ S :
            /\ Cardinality(S \cup {c}) = Cardinality(S) + 1
            /\ Cardinality(S) + 1 \in 0 .. Cardinality(Callers)

LEMMA NobodySubscribed ==
    ASSUME Counting, NEW g \in Flights, Cardinality(Subscribed(g)) = 0
    PROVE  Subscribed(g) = {}
  <1>1. Subscribed(g) \in SUBSET Callers
    BY Zenon DEF Subscribed
  <1> QED
    BY <1>1, Zenon DEF Counting

LEMMA OneLeaves ==
    ASSUME Counting, NEW S \in SUBSET Callers, NEW c \in S
    PROVE  /\ Cardinality(S \ {c}) = Cardinality(S) - 1
           /\ Cardinality(S) \in 1 .. Cardinality(Callers)
           /\ Cardinality(S) = 1 <=> S = {c}
  BY Zenon DEF Counting

LEMMA OneJoins ==
    ASSUME Counting, NEW S \in SUBSET Callers, NEW c \in Callers, c \notin S
    PROVE  /\ Cardinality(S \cup {c}) = Cardinality(S) + 1
           /\ Cardinality(S) + 1 \in 0 .. Cardinality(Callers)
  BY Zenon DEF Counting

-------------------------------------------------------------------------------
(* Every step of a poll, a completion or a cancellation preserves the inductive invariant. *)

\* A waker is registered before the work is looked at.
LEMMA AwaitPreserves ==
    ASSUME SharedInv, NEW t \in Callers \cup Flights, Await(t)
    PROVE  SharedInv'
  <1> /\ TypeOK /\ PlaceInv /\ WorkInv /\ TableInv /\ ReasonInv
      /\ SubscriberInv /\ LeaderInv /\ ResultInv /\ OwnedResultHasOneTaker
    BY Zenon DEF SharedInv
  <1> USE NoFlightAssumption, DisjointAssumption, ReasonsAssumption
      DEF Tasks, Live, Working, Cancelling,
          Goto, flightVars, Await
  <1>1. TypeOK'
    BY OutcomesAssumption, MaxPollsAssumption, SMTT(30) DEF TypeOK, PlaceInv, Terminal, DriverPlaces, CallerPlaces
  <1>2. PlaceInv'
    BY OutcomesAssumption, SMTT(30) DEF TypeOK, PlaceInv, Terminal, DriverPlaces, CallerPlaces
  <1>3. WorkInv'
    <2>1. /\ \A g \in Flights : state'[g] = "Polling" <=> state[g] = "Polling"
          /\ \A g \in Flights, u \in Tasks : Works(u, g)' <=> Works(u, g)
      BY Zenon DEF TypeOK, PlaceInv, Works
    <2> QED
      BY <2>1, WorkFrame, Zenon
  <1>4. TableInv'
    BY SMTT(30) DEF TypeOK, PlaceInv, WorkInv, TableInv, ReasonInv, Computing
  <1>5. ReasonInv'
    <2>1. RecordInv'
      BY SMTT(30) DEF TypeOK, PlaceInv, WorkInv, ReasonInv, RecordInv
    <2>2. ASSUME NEW g \in Flights, Cancellable(g)'
          PROVE  Cancellable(g) /\ \A u \in Tasks : Cancels(u, g) => Cancels(u, g)'
      BY <2>2, Zenon DEF TypeOK, PlaceInv, ReasonInv, Cancels, Cancellable
    <2> QED
      BY <2>1, <2>2, ReasonFrame, Zenon
  <1>6. SubscriberInv'
    <2>1. /\ UNCHANGED subscribers
          /\ \A g \in Flights : Subscribed(g)' = Subscribed(g)
      BY SMTT(30) DEF TypeOK, PlaceInv, Subscribed
    <2>2. /\ \A g \in Flights : state'[g] \in {"Owned", "LeaseLost", "Finished"} => state'[g] = state[g]
          /\ \A g \in Flights : reason[g] \in CancelReasons => reason'[g] \in CancelReasons
          /\ \A d \in Callers : pc[d] = "drop" => pc'[d] = "drop"
      BY Zenon DEF TypeOK, PlaceInv
    <2> QED
      BY <2>1, <2>2, SubscriberFrame, Zenon
  <1>7. LeaderInv'
    BY SMTT(30) DEF TypeOK, PlaceInv, LeaderInv
  <1>8. ResultInv'
    BY Zenon DEF TypeOK, PlaceInv, ResultInv
  <1>9. OwnedResultHasOneTaker'
    BY SMTT(30) DEF TypeOK, PlaceInv, ResultInv, OwnedResultHasOneTaker
  <1> QED
    BY <1>1, <1>2, <1>3, <1>4, <1>5, <1>6, <1>7, <1>8, <1>9, Zenon DEF SharedInv

\* The work leaves the cell with one task.
LEMMA PollWorkPreserves ==
    ASSUME SharedInv, NEW t \in Callers \cup Flights, PollWork(t)
    PROVE  SharedInv'
  <1> /\ TypeOK /\ PlaceInv /\ WorkInv /\ TableInv /\ ReasonInv
      /\ SubscriberInv /\ LeaderInv /\ ResultInv /\ OwnedResultHasOneTaker
    BY Zenon DEF SharedInv
  <1> USE NoFlightAssumption, DisjointAssumption, ReasonsAssumption
      DEF Tasks, Live, Working, Cancelling,
          Goto, flightVars, PollWork, Return
  <1>1. TypeOK'
    <2>1. runnable' \in [Flights -> BOOLEAN]
      <3>1. runnable' = runnable \/ runnable' = [runnable EXCEPT ![on[t]] = FALSE]
        BY Zenon DEF Notify
      <3>2. runnable \in [Flights -> BOOLEAN]
        BY Zenon DEF TypeOK
      <3> QED
        BY <3>1, <3>2, SetFlag, Zenon
    <2>2. state' \in [Flights -> {"Unborn", "Finished"} \cup Live \cup Terminal]
      BY MaxPollsAssumption, SMTT(60) DEF TypeOK, PlaceInv, Terminal, DriverPlaces, CallerPlaces
    <2>3. pc' \in [Tasks -> CallerPlaces \cup DriverPlaces]
      BY MaxPollsAssumption, SMTT(60) DEF TypeOK, PlaceInv, Terminal, DriverPlaces, CallerPlaces
    <2> QED
      BY <2>1, <2>2, <2>3, Zenon DEF TypeOK
  <1>2. PlaceInv'
    BY OutcomesAssumption, SMTT(30) DEF TypeOK, PlaceInv, Terminal, DriverPlaces, CallerPlaces
  <1>3. WorkInv'
    <2>1. CASE state[on[t]] = "Pending" /\ runnable[on[t]]
      <3>1. /\ on[t] \in Flights
            /\ \A u \in Tasks : ~Works(u, on[t])
        <4>1. on[t] \in Flights
          BY SMTT(60) DEF TypeOK, PlaceInv
        <4> QED
          BY <4>1, <2>1, Zenon DEF WorkInv, Works
      <3>2. /\ \A g \in Flights : state'[g] = "Polling" <=> state[g] = "Polling" \/ g = on[t]
            /\ \A g \in Flights, u \in Tasks : Works(u, g)' <=> Works(u, g) \/ (u = t /\ g = on[t])
        BY <2>1, <3>1, SMTT(60) DEF TypeOK, PlaceInv, Works
      <3>3. \A g \in Flights, u, v \in Tasks : Works(u, g)' /\ Works(v, g)' => u = v
        BY <3>1, <3>2, SMTT(60) DEF WorkInv, Works
      <3>4. \A g \in Flights : state'[g] = "Polling" <=> \E u \in Tasks : Works(u, g)'
        BY <3>1, <3>2, SMTT(60) DEF WorkInv, Works
      <3> QED
        BY <3>3, <3>4, WorkFrom, Zenon
    <2>2. CASE ~(state[on[t]] = "Pending" /\ runnable[on[t]])
      <3>1. /\ \A g \in Flights : state'[g] = "Polling" <=> state[g] = "Polling"
            /\ \A g \in Flights, u \in Tasks : Works(u, g)' <=> Works(u, g)
        BY <2>2, SMTT(60) DEF TypeOK, PlaceInv, Works
      <3> QED
        BY <3>1, WorkFrame, Zenon
    <2> QED
      BY <2>1, <2>2, Zenon
  <1>4. TableInv'
    BY SMTT(30) DEF TypeOK, PlaceInv, WorkInv, TableInv, ReasonInv, Computing
  <1>5. ReasonInv'
    <2>1. RecordInv'
      BY SMTT(30) DEF TypeOK, PlaceInv, WorkInv, ReasonInv, RecordInv
    <2>2. ASSUME NEW g \in Flights, Cancellable(g)'
          PROVE  Cancellable(g) /\ \A u \in Tasks : Cancels(u, g) => Cancels(u, g)'
      BY <2>2, SMTT(30) DEF TypeOK, PlaceInv, ReasonInv, Cancels, Cancellable
    <2> QED
      BY <2>1, <2>2, ReasonFrame, Zenon
  <1>6. SubscriberInv'
    <2>1. /\ UNCHANGED subscribers
          /\ \A g \in Flights : Subscribed(g)' = Subscribed(g)
      BY SMTT(30) DEF TypeOK, PlaceInv, Subscribed
    <2>2. /\ \A g \in Flights : state'[g] \in {"Owned", "LeaseLost", "Finished"} => state'[g] = state[g]
          /\ \A g \in Flights : reason[g] \in CancelReasons => reason'[g] \in CancelReasons
          /\ \A d \in Callers : pc[d] = "drop" => pc'[d] = "drop"
      BY SMTT(30) DEF TypeOK, PlaceInv
    <2> QED
      BY <2>1, <2>2, SubscriberFrame, Zenon
  <1>7. LeaderInv'
    BY SMTT(30) DEF TypeOK, PlaceInv, LeaderInv
  <1>8. ResultInv'
    BY SMTT(30) DEF TypeOK, PlaceInv, ResultInv
  <1>9. OwnedResultHasOneTaker'
    BY SMTT(30) DEF TypeOK, PlaceInv, ResultInv, OwnedResultHasOneTaker
  <1> QED
    BY <1>1, <1>2, <1>3, <1>4, <1>5, <1>6, <1>7, <1>8, <1>9, Zenon DEF SharedInv

\* The result exists: the flight is unlisted before it is published.
LEMMA UserEndsPreserves ==
    ASSUME SharedInv, NEW t \in Callers \cup Flights, UserEnds(t)
    PROVE  SharedInv'
  <1> /\ TypeOK /\ PlaceInv /\ WorkInv /\ TableInv /\ ReasonInv
      /\ SubscriberInv /\ LeaderInv /\ ResultInv /\ OwnedResultHasOneTaker
    BY Zenon DEF SharedInv
  <1> USE NoFlightAssumption, DisjointAssumption, ReasonsAssumption
      DEF Tasks, Live, Working, Cancelling,
          Goto, flightVars, UserEnds, Unlist
  <1>1. TypeOK'
    BY OutcomesAssumption, MaxPollsAssumption, SMTT(30) DEF TypeOK, PlaceInv, Terminal, DriverPlaces, CallerPlaces
  <1>2. PlaceInv'
    BY OutcomesAssumption, SMTT(30) DEF TypeOK, PlaceInv, Terminal, DriverPlaces, CallerPlaces
  <1>3. WorkInv'
    BY SMTT(30) DEF TypeOK, PlaceInv, WorkInv
  <1>4. TableInv'
    BY SMTT(30) DEF TypeOK, PlaceInv, WorkInv, TableInv, ReasonInv, Computing
  <1>5. ReasonInv'
    <2>1. RecordInv'
      BY SMTT(30) DEF TypeOK, PlaceInv, WorkInv, ReasonInv, RecordInv
    <2>2. ASSUME NEW g \in Flights, Cancellable(g)'
          PROVE  Cancellable(g) /\ \A u \in Tasks : Cancels(u, g) => Cancels(u, g)'
      BY <2>2, Zenon DEF TypeOK, PlaceInv, ReasonInv, Cancels, Cancellable
    <2> QED
      BY <2>1, <2>2, ReasonFrame, Zenon
  <1>6. SubscriberInv'
    <2>1. /\ UNCHANGED subscribers
          /\ \A g \in Flights : Subscribed(g)' = Subscribed(g)
      BY SMTT(30) DEF TypeOK, PlaceInv, Subscribed
    <2>2. /\ \A g \in Flights : state'[g] \in {"Owned", "LeaseLost", "Finished"} => state'[g] = state[g]
          /\ \A g \in Flights : reason[g] \in CancelReasons => reason'[g] \in CancelReasons
          /\ \A d \in Callers : pc[d] = "drop" => pc'[d] = "drop"
      BY Zenon DEF TypeOK, PlaceInv
    <2> QED
      BY <2>1, <2>2, SubscriberFrame, Zenon
  <1>7. LeaderInv'
    BY SMTT(30) DEF TypeOK, PlaceInv, LeaderInv
  <1>8. ResultInv'
    BY Zenon DEF TypeOK, PlaceInv, ResultInv
  <1>9. OwnedResultHasOneTaker'
    BY SMTT(30) DEF TypeOK, PlaceInv, ResultInv, OwnedResultHasOneTaker
  <1> QED
    BY <1>1, <1>2, <1>3, <1>4, <1>5, <1>6, <1>7, <1>8, <1>9, Zenon DEF SharedInv

\* Pending work goes back, unless a reason was recorded meanwhile.
LEMMA UserPendsPreserves ==
    ASSUME SharedInv, NEW t \in Callers \cup Flights, UserPends(t)
    PROVE  SharedInv'
  <1> /\ TypeOK /\ PlaceInv /\ WorkInv /\ TableInv /\ ReasonInv
      /\ SubscriberInv /\ LeaderInv /\ ResultInv /\ OwnedResultHasOneTaker
    BY Zenon DEF SharedInv
  <1> USE NoFlightAssumption, DisjointAssumption, ReasonsAssumption
      DEF Tasks, Live, Working, Cancelling,
          Goto, flightVars, UserPends, Unlist
  <1>1. TypeOK'
    BY OutcomesAssumption, MaxPollsAssumption, SMTT(30) DEF TypeOK, PlaceInv, Terminal, DriverPlaces, CallerPlaces
  <1>2. PlaceInv'
    BY OutcomesAssumption, SMTT(30) DEF TypeOK, PlaceInv, Terminal, DriverPlaces, CallerPlaces
  <1>3. WorkInv'
    <2>1. /\ \A g \in Flights : state'[g] = "Polling" <=> state[g] = "Polling"
          /\ \A g \in Flights, u \in Tasks : Works(u, g)' <=> Works(u, g)
      BY SMTT(60) DEF TypeOK, PlaceInv, Works
    <2> QED
      BY <2>1, WorkFrame, Zenon
  <1>4. TableInv'
    BY SMTT(30) DEF TypeOK, PlaceInv, WorkInv, TableInv, ReasonInv, Computing
  <1>5. ReasonInv'
    <2>1. RecordInv'
      BY SMTT(30) DEF TypeOK, PlaceInv, WorkInv, ReasonInv, RecordInv
    <2>2. ASSUME NEW g \in Flights, Cancellable(g)'
          PROVE  Cancellable(g) /\ \A u \in Tasks : Cancels(u, g) => Cancels(u, g)'
      BY <2>2, SMTT(30) DEF TypeOK, PlaceInv, ReasonInv, Cancels, Cancellable
    <2> QED
      BY <2>1, <2>2, ReasonFrame, Zenon
  <1>6. SubscriberInv'
    <2>1. /\ UNCHANGED subscribers
          /\ \A g \in Flights : Subscribed(g)' = Subscribed(g)
      BY SMTT(30) DEF TypeOK, PlaceInv, Subscribed
    <2>2. /\ \A g \in Flights : state'[g] \in {"Owned", "LeaseLost", "Finished"} => state'[g] = state[g]
          /\ \A g \in Flights : reason[g] \in CancelReasons => reason'[g] \in CancelReasons
          /\ \A d \in Callers : pc[d] = "drop" => pc'[d] = "drop"
      BY SMTT(30) DEF TypeOK, PlaceInv
    <2> QED
      BY <2>1, <2>2, SubscriberFrame, Zenon
  <1>7. LeaderInv'
    BY SMTT(30) DEF TypeOK, PlaceInv, LeaderInv
  <1>8. ResultInv'
    BY SMTT(30) DEF TypeOK, PlaceInv, ResultInv
  <1>9. OwnedResultHasOneTaker'
    BY SMTT(30) DEF TypeOK, PlaceInv, ResultInv, OwnedResultHasOneTaker
  <1> QED
    BY <1>1, <1>2, <1>3, <1>4, <1>5, <1>6, <1>7, <1>8, <1>9, Zenon DEF SharedInv

\* The factory wakes whoever registered.
LEMMA UserWakesPreserves ==
    ASSUME SharedInv, NEW f \in Flights, UserWakes(f)
    PROVE  SharedInv'
  <1> /\ TypeOK /\ PlaceInv /\ WorkInv /\ TableInv /\ ReasonInv
      /\ SubscriberInv /\ LeaderInv /\ ResultInv /\ OwnedResultHasOneTaker
    BY Zenon DEF SharedInv
  <1> USE NoFlightAssumption, DisjointAssumption, ReasonsAssumption
      DEF Tasks, Live, Working, Cancelling,
          Goto, flightVars, UserWakes, Notify
  <1>1. TypeOK'
    BY OutcomesAssumption, MaxPollsAssumption, Zenon DEF TypeOK, PlaceInv, Terminal, DriverPlaces, CallerPlaces
  <1>2. PlaceInv'
    BY OutcomesAssumption, SMTT(30) DEF TypeOK, PlaceInv, Terminal, DriverPlaces, CallerPlaces
  <1>3. WorkInv'
    <2>1. /\ \A g \in Flights : state'[g] = "Polling" <=> state[g] = "Polling"
          /\ \A g \in Flights, u \in Tasks : Works(u, g)' <=> Works(u, g)
      BY Zenon DEF TypeOK, PlaceInv, Works
    <2> QED
      BY <2>1, WorkFrame, Zenon
  <1>4. TableInv'
    BY SMTT(30) DEF TypeOK, PlaceInv, WorkInv, TableInv, ReasonInv, Computing
  <1>5. ReasonInv'
    <2>1. RecordInv'
      BY SMTT(30) DEF TypeOK, PlaceInv, WorkInv, ReasonInv, RecordInv
    <2>2. ASSUME NEW g \in Flights, Cancellable(g)'
          PROVE  Cancellable(g) /\ \A u \in Tasks : Cancels(u, g) => Cancels(u, g)'
      BY <2>2, Zenon DEF TypeOK, PlaceInv, ReasonInv, Cancels, Cancellable
    <2> QED
      BY <2>1, <2>2, ReasonFrame, Zenon
  <1>6. SubscriberInv'
    <2>1. /\ UNCHANGED subscribers
          /\ \A g \in Flights : Subscribed(g)' = Subscribed(g)
      BY SMTT(30) DEF TypeOK, PlaceInv, Subscribed
    <2>2. /\ \A g \in Flights : state'[g] \in {"Owned", "LeaseLost", "Finished"} => state'[g] = state[g]
          /\ \A g \in Flights : reason[g] \in CancelReasons => reason'[g] \in CancelReasons
          /\ \A d \in Callers : pc[d] = "drop" => pc'[d] = "drop"
      BY Zenon DEF TypeOK, PlaceInv
    <2> QED
      BY <2>1, <2>2, SubscriberFrame, Zenon
  <1>7. LeaderInv'
    BY SMTT(30) DEF TypeOK, PlaceInv, LeaderInv
  <1>8. ResultInv'
    BY Zenon DEF TypeOK, PlaceInv, ResultInv
  <1>9. OwnedResultHasOneTaker'
    BY SMTT(30) DEF TypeOK, PlaceInv, ResultInv, OwnedResultHasOneTaker
  <1> QED
    BY <1>1, <1>2, <1>3, <1>4, <1>5, <1>6, <1>7, <1>8, <1>9, Zenon DEF SharedInv

\* The work is back in the cell; its task looks at the reason once more.
LEMMA RequeuePreserves ==
    ASSUME SharedInv, NEW t \in Callers \cup Flights, Requeue(t)
    PROVE  SharedInv'
  <1> /\ TypeOK /\ PlaceInv /\ WorkInv /\ TableInv /\ ReasonInv
      /\ SubscriberInv /\ LeaderInv /\ ResultInv /\ OwnedResultHasOneTaker
    BY Zenon DEF SharedInv
  <1> USE NoFlightAssumption, DisjointAssumption, ReasonsAssumption
      DEF Tasks, Live, Working, Cancelling,
          Goto, flightVars, Requeue
  <1>0. on[t] \in Flights /\ state[on[t]] = "Polling" /\ t \in Tasks
    BY SMTT(60) DEF TypeOK, PlaceInv, WorkInv
  <1>1. TypeOK'
    BY OutcomesAssumption, MaxPollsAssumption, Zenon DEF TypeOK, PlaceInv, Terminal, DriverPlaces, CallerPlaces
  <1>2. PlaceInv'
    BY OutcomesAssumption, SMTT(30) DEF TypeOK, PlaceInv, Terminal, DriverPlaces, CallerPlaces
  <1>3. WorkInv'
    BY SMTT(30) DEF TypeOK, PlaceInv, WorkInv
  <1>4. TableInv'
    BY SMTT(30) DEF TypeOK, PlaceInv, WorkInv, TableInv, ReasonInv, Computing
  <1>5. ReasonInv'
    <2>1. RecordInv'
      BY SMTT(60) DEF TypeOK, PlaceInv, WorkInv, ReasonInv, RecordInv
    <2>2. ASSUME NEW g \in Flights, Cancellable(g)'
          PROVE  \E u \in Tasks : Cancels(u, g)'
      <3>1. CASE g = on[t]
        <4>1. Cancels(t, g)'
          BY <1>0, <3>1, Zenon DEF TypeOK, PlaceInv, Cancels
        <4> QED
          BY <1>0, <4>1, Zenon
      <3>2. CASE g # on[t]
        <4>1. Cancellable(g)
          BY <2>2, <3>2, SMTT(60) DEF TypeOK, PlaceInv, Cancellable
        <4>2. PICK u \in Tasks : Cancels(u, g)
          BY <4>1, Zenon DEF ReasonInv, Cancels, Cancellable
        <4>3. Cancels(u, g)'
          BY <3>2, <4>2, Zenon DEF TypeOK, PlaceInv, Cancels
        <4> QED
          BY <4>3, Zenon
      <3> QED
        BY <3>1, <3>2, Zenon
    <2> QED
      BY <2>1, <2>2 DEF ReasonInv, RecordInv, Cancels, Cancellable
  <1>6. SubscriberInv'
    <2>1. /\ UNCHANGED subscribers
          /\ \A g \in Flights : Subscribed(g)' = Subscribed(g)
      BY SMTT(30) DEF TypeOK, PlaceInv, Subscribed
    <2>2. /\ \A g \in Flights : state'[g] \in {"Owned", "LeaseLost", "Finished"} => state'[g] = state[g]
          /\ \A g \in Flights : reason[g] \in CancelReasons => reason'[g] \in CancelReasons
          /\ \A d \in Callers : pc[d] = "drop" => pc'[d] = "drop"
      BY SMTT(30) DEF TypeOK, PlaceInv
    <2> QED
      BY <2>1, <2>2, SubscriberFrame, Zenon
  <1>7. LeaderInv'
    BY <1>0, SMTT(60) DEF TypeOK, PlaceInv, LeaderInv
  <1>8. ResultInv'
    BY <1>0, SMTT(60) DEF TypeOK, PlaceInv, ResultInv
  <1>9. OwnedResultHasOneTaker'
    BY SMTT(30) DEF TypeOK, PlaceInv, ResultInv, OwnedResultHasOneTaker
  <1> QED
    BY <1>1, <1>2, <1>3, <1>4, <1>5, <1>6, <1>7, <1>8, <1>9, Zenon DEF SharedInv

\* A recorded reason turns the poller into a canceller.
LEMMA RecheckPreserves ==
    ASSUME SharedInv, NEW t \in Callers \cup Flights, Recheck(t)
    PROVE  SharedInv'
  <1> /\ TypeOK /\ PlaceInv /\ WorkInv /\ TableInv /\ ReasonInv
      /\ SubscriberInv /\ LeaderInv /\ ResultInv /\ OwnedResultHasOneTaker
    BY Zenon DEF SharedInv
  <1> USE NoFlightAssumption, DisjointAssumption, ReasonsAssumption
      DEF Tasks, Live, Working, Cancelling,
          Goto, flightVars, Recheck, Return
  <1>1. TypeOK'
    BY OutcomesAssumption, MaxPollsAssumption, Zenon DEF TypeOK, PlaceInv, Terminal, DriverPlaces, CallerPlaces
  <1>2. PlaceInv'
    BY OutcomesAssumption, SMTT(30) DEF TypeOK, PlaceInv, Terminal, DriverPlaces, CallerPlaces
  <1>3. WorkInv'
    <2>1. /\ \A g \in Flights : state'[g] = "Polling" <=> state[g] = "Polling"
          /\ \A g \in Flights, u \in Tasks : Works(u, g)' <=> Works(u, g)
      BY Zenon DEF TypeOK, PlaceInv, Works
    <2> QED
      BY <2>1, WorkFrame, Zenon
  <1>4. TableInv'
    BY SMTT(30) DEF TypeOK, PlaceInv, WorkInv, TableInv, ReasonInv, Computing
  <1>5. ReasonInv'
    <2>1. RecordInv'
      BY SMTT(30) DEF TypeOK, PlaceInv, WorkInv, ReasonInv, RecordInv
    <2>2. ASSUME NEW g \in Flights, Cancellable(g)'
          PROVE  Cancellable(g) /\ \A u \in Tasks : Cancels(u, g) => Cancels(u, g)'
      BY <2>2, SMTT(30) DEF TypeOK, PlaceInv, ReasonInv, Cancels, Cancellable
    <2> QED
      BY <2>1, <2>2, ReasonFrame, Zenon
  <1>6. SubscriberInv'
    <2>1. /\ UNCHANGED subscribers
          /\ \A g \in Flights : Subscribed(g)' = Subscribed(g)
      BY SMTT(30) DEF TypeOK, PlaceInv, Subscribed
    <2>2. /\ \A g \in Flights : state'[g] \in {"Owned", "LeaseLost", "Finished"} => state'[g] = state[g]
          /\ \A g \in Flights : reason[g] \in CancelReasons => reason'[g] \in CancelReasons
          /\ \A d \in Callers : pc[d] = "drop" => pc'[d] = "drop"
      BY Zenon DEF TypeOK, PlaceInv
    <2> QED
      BY <2>1, <2>2, SubscriberFrame, Zenon
  <1>7. LeaderInv'
    BY SMTT(30) DEF TypeOK, PlaceInv, LeaderInv
  <1>8. ResultInv'
    BY Zenon DEF TypeOK, PlaceInv, ResultInv
  <1>9. OwnedResultHasOneTaker'
    BY SMTT(30) DEF TypeOK, PlaceInv, ResultInv, OwnedResultHasOneTaker
  <1> QED
    BY <1>1, <1>2, <1>3, <1>4, <1>5, <1>6, <1>7, <1>8, <1>9, Zenon DEF SharedInv

\* The driver ends with its flight.
LEMMA DriverChecksPreserves ==
    ASSUME SharedInv, NEW f \in Flights, DriverChecks(f)
    PROVE  SharedInv'
  <1> /\ TypeOK /\ PlaceInv /\ WorkInv /\ TableInv /\ ReasonInv
      /\ SubscriberInv /\ LeaderInv /\ ResultInv /\ OwnedResultHasOneTaker
    BY Zenon DEF SharedInv
  <1> USE NoFlightAssumption, DisjointAssumption, ReasonsAssumption
      DEF Tasks, Live, Working, Cancelling,
          Goto, flightVars, DriverChecks
  <1>1. TypeOK'
    <2>1. pc' \in [Tasks -> CallerPlaces \cup DriverPlaces]
      BY MaxPollsAssumption, SMTT(60) DEF TypeOK, PlaceInv, Terminal, DriverPlaces, CallerPlaces
    <2>2. polled' \in [Callers \cup Flights -> BOOLEAN]
      <3>1. polled' = polled \/ polled' = [polled EXCEPT ![f] = FALSE]
        BY Zenon DEF Notify
      <3>2. polled \in [Callers \cup Flights -> BOOLEAN]
        BY Zenon DEF TypeOK
      <3> QED
        BY <3>1, <3>2, SetFlag, Zenon
    <2>3. notified' \in [Callers \cup Flights -> BOOLEAN]
      <3>1. notified' = notified \/ notified' = [notified EXCEPT ![f] = FALSE]
        BY Zenon DEF Notify
      <3>2. notified \in [Callers \cup Flights -> BOOLEAN]
        BY Zenon DEF TypeOK
      <3> QED
        BY <3>1, <3>2, SetFlag, Zenon
    <2> QED
      BY <2>1, <2>2, <2>3, Zenon DEF TypeOK
  <1>2. PlaceInv'
    BY OutcomesAssumption, SMTT(30) DEF TypeOK, PlaceInv, Terminal, DriverPlaces, CallerPlaces
  <1>3. WorkInv'
    <2>1. /\ \A g \in Flights : state'[g] = "Polling" <=> state[g] = "Polling"
          /\ \A g \in Flights, u \in Tasks : Works(u, g)' <=> Works(u, g)
      BY SMTT(30) DEF TypeOK, PlaceInv, Works
    <2> QED
      BY <2>1, WorkFrame, Zenon
  <1>4. TableInv'
    BY SMTT(30) DEF TypeOK, PlaceInv, WorkInv, TableInv, ReasonInv, Computing
  <1>5. ReasonInv'
    <2>1. RecordInv'
      BY SMTT(30) DEF TypeOK, PlaceInv, WorkInv, ReasonInv, RecordInv
    <2>2. ASSUME NEW g \in Flights, Cancellable(g)'
          PROVE  Cancellable(g) /\ \A u \in Tasks : Cancels(u, g) => Cancels(u, g)'
      BY <2>2, SMTT(30) DEF TypeOK, PlaceInv, ReasonInv, Cancels, Cancellable
    <2> QED
      BY <2>1, <2>2, ReasonFrame, Zenon
  <1>6. SubscriberInv'
    <2>1. /\ UNCHANGED subscribers
          /\ \A g \in Flights : Subscribed(g)' = Subscribed(g)
      BY SMTT(30) DEF TypeOK, PlaceInv, Subscribed
    <2>2. /\ \A g \in Flights : state'[g] \in {"Owned", "LeaseLost", "Finished"} => state'[g] = state[g]
          /\ \A g \in Flights : reason[g] \in CancelReasons => reason'[g] \in CancelReasons
          /\ \A d \in Callers : pc[d] = "drop" => pc'[d] = "drop"
      BY SMTT(30) DEF TypeOK, PlaceInv
    <2> QED
      BY <2>1, <2>2, SubscriberFrame, Zenon
  <1>7. LeaderInv'
    BY SMTT(30) DEF TypeOK, PlaceInv, LeaderInv
  <1>8. ResultInv'
    BY SMTT(30) DEF TypeOK, PlaceInv, ResultInv
  <1>9. OwnedResultHasOneTaker'
    BY SMTT(30) DEF TypeOK, PlaceInv, ResultInv, OwnedResultHasOneTaker
  <1> QED
    BY <1>1, <1>2, <1>3, <1>4, <1>5, <1>6, <1>7, <1>8, <1>9, Zenon DEF SharedInv

\* The number of subscribers decides how the result may be taken.
LEMMA PublishPreserves ==
    ASSUME Counting, SharedInv, NEW t \in Callers \cup Flights, Publish(t)
    PROVE  SharedInv'
  <1> /\ TypeOK /\ PlaceInv /\ WorkInv /\ TableInv /\ ReasonInv
      /\ SubscriberInv /\ LeaderInv /\ ResultInv /\ OwnedResultHasOneTaker
    BY Zenon DEF SharedInv
  <1> USE NoFlightAssumption, DisjointAssumption, ReasonsAssumption
      DEF Tasks, Live, Working, Cancelling,
          Goto, flightVars, Publish, Published, Verdict
  <1>0. on[t] \in Flights /\ state[on[t]] = "Polling" /\ t \in Tasks
    BY SMTT(60) DEF TypeOK, PlaceInv, WorkInv
  <1>1. TypeOK'
    BY OutcomesAssumption, MaxPollsAssumption, SMTT(30) DEF TypeOK, PlaceInv, Terminal, DriverPlaces, CallerPlaces
  <1>2. PlaceInv'
    BY OutcomesAssumption, SMTT(30) DEF TypeOK, PlaceInv, Terminal, DriverPlaces, CallerPlaces
  <1>3. WorkInv'
    <2>1. /\ \A g \in Flights : state'[g] = "Polling" <=> state[g] = "Polling" /\ g # on[t]
      BY <1>0, SMTT(60) DEF TypeOK, PlaceInv, Published, Verdict
    <2>2. \A g \in Flights, u \in Tasks : Works(u, g)' <=> Works(u, g) /\ u # t
      BY <1>0, Zenon DEF TypeOK, PlaceInv, Works
    <2>3. Works(t, on[t])
      BY Zenon DEF Works
    <2>4. \A g \in Flights, u, v \in Tasks : Works(u, g)' /\ Works(v, g)' => u = v
      BY <2>2 DEF WorkInv, Works
    <2>5. \A g \in Flights : state'[g] = "Polling" <=> \E u \in Tasks : Works(u, g)'
      BY <1>0, <2>1, <2>2, <2>3 DEF WorkInv, Works
    <2> QED
      BY <2>4, <2>5, WorkFrom, Zenon
  <1>4. TableInv'
    BY SMTT(30) DEF TypeOK, PlaceInv, WorkInv, TableInv, ReasonInv, Computing
  <1>5. ReasonInv'
    <2>1. RecordInv'
      BY SMTT(30) DEF TypeOK, PlaceInv, WorkInv, ReasonInv, RecordInv
    <2>2. ASSUME NEW g \in Flights, Cancellable(g)'
          PROVE  Cancellable(g) /\ \A u \in Tasks : Cancels(u, g) => Cancels(u, g)'
      BY <2>2, SMTT(30) DEF TypeOK, PlaceInv, ReasonInv, Cancels, Cancellable
    <2> QED
      BY <2>1, <2>2, ReasonFrame, Zenon
  <1>6. SubscriberInv'
    <2>1. /\ UNCHANGED subscribers
          /\ \A g \in Flights : Subscribed(g)' = Subscribed(g)
      BY <1>0, SMTT(60) DEF TypeOK, PlaceInv, Subscribed
    <2>2. /\ \A g \in Flights : g # on[t] => state'[g] = state[g]
          /\ \A g \in Flights : \A d \in Subscribed(g) : pc[d] = "drop" => pc'[d] = "drop"
          /\ UNCHANGED reason
      BY <1>0, SMTT(60) DEF TypeOK, PlaceInv, Subscribed
    <2>3. /\ state'[on[t]] \in {"Owned", "LeaseLost"} => subscribers[on[t]] <= 1
          /\ state'[on[t]] = "Finished" => subscribers[on[t]] = 0
      BY <1>0, SMTT(60) DEF TypeOK, Published, Verdict
    <2>4. subscribers[on[t]] = 0 => Subscribed(on[t]) = {}
      BY <1>0, NobodySubscribed, Zenon DEF SubscriberInv
    <2> QED
      BY <2>1, <2>2, <2>3, <2>4, SMTT(60) DEF SubscriberInv
  <1>7. LeaderInv'
    BY <1>0, SMTT(60) DEF TypeOK, PlaceInv, LeaderInv
  <1>8. ResultInv'
    BY <1>0, SMTT(60) DEF TypeOK, PlaceInv, ResultInv
  <1>9. OwnedResultHasOneTaker'
    BY SMTT(30) DEF TypeOK, PlaceInv, ResultInv, OwnedResultHasOneTaker
  <1> QED
    BY <1>1, <1>2, <1>3, <1>4, <1>5, <1>6, <1>7, <1>8, <1>9, Zenon DEF SharedInv

\* A finished flight closes its request.
LEMMA FinishPreserves ==
    ASSUME SharedInv, NEW t \in Callers \cup Flights, Finish(t)
    PROVE  SharedInv'
  <1> /\ TypeOK /\ PlaceInv /\ WorkInv /\ TableInv /\ ReasonInv
      /\ SubscriberInv /\ LeaderInv /\ ResultInv /\ OwnedResultHasOneTaker
    BY Zenon DEF SharedInv
  <1> USE NoFlightAssumption, DisjointAssumption, ReasonsAssumption
      DEF Tasks, Live, Working, Cancelling,
          Goto, flightVars, Finish, Notify, CancelWith, Return
  <1>1. TypeOK'
    BY OutcomesAssumption, MaxPollsAssumption, SMTT(30) DEF TypeOK, PlaceInv, Terminal, DriverPlaces, CallerPlaces
  <1>2. PlaceInv'
    BY OutcomesAssumption, SMTT(30) DEF TypeOK, PlaceInv, Terminal, DriverPlaces, CallerPlaces
  <1>3. WorkInv'
    <2>1. /\ \A g \in Flights : state'[g] = "Polling" <=> state[g] = "Polling"
          /\ \A g \in Flights, u \in Tasks : Works(u, g)' <=> Works(u, g)
      BY Zenon DEF TypeOK, PlaceInv, Works
    <2> QED
      BY <2>1, WorkFrame, Zenon
  <1>4. TableInv'
    BY SMTT(30) DEF TypeOK, PlaceInv, WorkInv, TableInv, ReasonInv, Computing
  <1>5. ReasonInv'
    <2>1. RecordInv'
      BY SMTT(30) DEF TypeOK, PlaceInv, WorkInv, ReasonInv, RecordInv
    <2>2. ASSUME NEW g \in Flights, Cancellable(g)'
          PROVE  Cancellable(g) /\ \A u \in Tasks : Cancels(u, g) => Cancels(u, g)'
      BY <2>2, SMTT(30) DEF TypeOK, PlaceInv, ReasonInv, Cancels, Cancellable
    <2> QED
      BY <2>1, <2>2, ReasonFrame, Zenon
  <1>6. SubscriberInv'
    <2>1. /\ UNCHANGED subscribers
          /\ \A g \in Flights : Subscribed(g)' = Subscribed(g)
      BY SMTT(30) DEF TypeOK, PlaceInv, Subscribed
    <2>2. /\ \A g \in Flights : state'[g] \in {"Owned", "LeaseLost", "Finished"} => state'[g] = state[g]
          /\ \A g \in Flights : reason[g] \in CancelReasons => reason'[g] \in CancelReasons
          /\ \A d \in Callers : pc[d] = "drop" => pc'[d] = "drop"
      BY SMTT(30) DEF TypeOK, PlaceInv
    <2> QED
      BY <2>1, <2>2, SubscriberFrame, Zenon
  <1>7. LeaderInv'
    BY SMTT(30) DEF TypeOK, PlaceInv, LeaderInv
  <1>8. ResultInv'
    BY Zenon DEF TypeOK, PlaceInv, ResultInv
  <1>9. OwnedResultHasOneTaker'
    BY SMTT(30) DEF TypeOK, PlaceInv, ResultInv, OwnedResultHasOneTaker
  <1> QED
    BY <1>1, <1>2, <1>3, <1>4, <1>5, <1>6, <1>7, <1>8, <1>9, Zenon DEF SharedInv

\* Work in the cell is dropped; work outside is left to its poller.
LEMMA CancelStatePreserves ==
    ASSUME SharedInv, NEW t \in Tasks, CancelState(t)
    PROVE  SharedInv'
  <1> /\ TypeOK /\ PlaceInv /\ WorkInv /\ TableInv /\ ReasonInv
      /\ SubscriberInv /\ LeaderInv /\ ResultInv /\ OwnedResultHasOneTaker
    BY Zenon DEF SharedInv
  <1> USE NoFlightAssumption, DisjointAssumption, ReasonsAssumption
      DEF Tasks, Live, Working, Cancelling,
          Goto, flightVars, CancelState
  <1>1. TypeOK'
    <2>1. state' \in [Flights -> {"Unborn", "Finished"} \cup Live \cup Terminal]
      BY MaxPollsAssumption, SMTT(60) DEF TypeOK, PlaceInv, Terminal, DriverPlaces, CallerPlaces
    <2>2. armed' \in [Flights -> BOOLEAN]
      <3>1. armed' = armed \/ armed' = [armed EXCEPT ![on[t]] = FALSE]
        BY Zenon DEF Notify
      <3>2. armed \in [Flights -> BOOLEAN]
        BY Zenon DEF TypeOK
      <3> QED
        BY <3>1, <3>2, SetFlag, Zenon
    <2>3. polls' \in [Flights -> 0 .. MaxPolls]
      BY MaxPollsAssumption, SMTT(60) DEF TypeOK, PlaceInv, Terminal, DriverPlaces, CallerPlaces
    <2>4. runnable' \in [Flights -> BOOLEAN]
      <3>1. runnable' = runnable \/ runnable' = [runnable EXCEPT ![on[t]] = FALSE]
        BY Zenon DEF Notify
      <3>2. runnable \in [Flights -> BOOLEAN]
        BY Zenon DEF TypeOK
      <3> QED
        BY <3>1, <3>2, SetFlag, Zenon
    <2>5. pc' \in [Tasks -> CallerPlaces \cup DriverPlaces]
      BY MaxPollsAssumption, Zenon DEF TypeOK, PlaceInv, Terminal, DriverPlaces, CallerPlaces
    <2> QED
      BY <2>1, <2>2, <2>3, <2>4, <2>5, Zenon DEF TypeOK
  <1>2. PlaceInv'
    BY OutcomesAssumption, SMTT(30) DEF TypeOK, PlaceInv, Terminal, DriverPlaces, CallerPlaces
  <1>3. WorkInv'
    <2>1. /\ \A g \in Flights : state'[g] = "Polling" <=> state[g] = "Polling"
          /\ \A g \in Flights, u \in Tasks : Works(u, g)' <=> Works(u, g)
      BY SMTT(30) DEF TypeOK, PlaceInv, Works
    <2> QED
      BY <2>1, WorkFrame, Zenon
  <1>4. TableInv'
    BY SMTT(30) DEF TypeOK, PlaceInv, WorkInv, TableInv, ReasonInv, Computing
  <1>5. ReasonInv'
    <2>1. RecordInv'
      BY SMTT(30) DEF TypeOK, PlaceInv, WorkInv, ReasonInv, RecordInv
    <2>2. ASSUME NEW g \in Flights, Cancellable(g)'
          PROVE  Cancellable(g) /\ \A u \in Tasks : Cancels(u, g) => Cancels(u, g)'
      BY <2>2, SMTT(30) DEF TypeOK, PlaceInv, ReasonInv, Cancels, Cancellable
    <2> QED
      BY <2>1, <2>2, ReasonFrame, Zenon
  <1>6. SubscriberInv'
    <2>1. /\ UNCHANGED subscribers
          /\ \A g \in Flights : Subscribed(g)' = Subscribed(g)
      BY SMTT(30) DEF TypeOK, PlaceInv, Subscribed
    <2>2. /\ \A g \in Flights : state'[g] \in {"Owned", "LeaseLost", "Finished"} => state'[g] = state[g]
          /\ \A g \in Flights : reason[g] \in CancelReasons => reason'[g] \in CancelReasons
          /\ \A d \in Callers : pc[d] = "drop" => pc'[d] = "drop"
      BY SMTT(30) DEF TypeOK, PlaceInv
    <2> QED
      BY <2>1, <2>2, SubscriberFrame, Zenon
  <1>7. LeaderInv'
    BY SMTT(30) DEF TypeOK, PlaceInv, LeaderInv
  <1>8. ResultInv'
    BY SMTT(30) DEF TypeOK, PlaceInv, ResultInv
  <1>9. OwnedResultHasOneTaker'
    BY SMTT(30) DEF TypeOK, PlaceInv, ResultInv, OwnedResultHasOneTaker
  <1> QED
    BY <1>1, <1>2, <1>3, <1>4, <1>5, <1>6, <1>7, <1>8, <1>9, Zenon DEF SharedInv

\* A cancelled flight leaves the table.
LEMMA CancelUnlistPreserves ==
    ASSUME SharedInv, NEW t \in Tasks, CancelUnlist(t)
    PROVE  SharedInv'
  <1> /\ TypeOK /\ PlaceInv /\ WorkInv /\ TableInv /\ ReasonInv
      /\ SubscriberInv /\ LeaderInv /\ ResultInv /\ OwnedResultHasOneTaker
    BY Zenon DEF SharedInv
  <1> USE NoFlightAssumption, DisjointAssumption, ReasonsAssumption
      DEF Tasks, Live, Working, Cancelling,
          Goto, flightVars, CancelUnlist, Unlist
  <1>1. TypeOK'
    BY OutcomesAssumption, MaxPollsAssumption, Zenon DEF TypeOK, PlaceInv, Terminal, DriverPlaces, CallerPlaces
  <1>2. PlaceInv'
    BY OutcomesAssumption, SMTT(30) DEF TypeOK, PlaceInv, Terminal, DriverPlaces, CallerPlaces
  <1>3. WorkInv'
    <2>1. /\ \A g \in Flights : state'[g] = "Polling" <=> state[g] = "Polling"
          /\ \A g \in Flights, u \in Tasks : Works(u, g)' <=> Works(u, g)
      BY Zenon DEF TypeOK, PlaceInv, Works
    <2> QED
      BY <2>1, WorkFrame, Zenon
  <1>4. TableInv'
    BY SMTT(30) DEF TypeOK, PlaceInv, WorkInv, TableInv, ReasonInv, Computing
  <1>5. ReasonInv'
    <2>1. RecordInv'
      BY SMTT(30) DEF TypeOK, PlaceInv, WorkInv, ReasonInv, RecordInv
    <2>2. ASSUME NEW g \in Flights, Cancellable(g)'
          PROVE  Cancellable(g) /\ \A u \in Tasks : Cancels(u, g) => Cancels(u, g)'
      BY <2>2, Zenon DEF TypeOK, PlaceInv, ReasonInv, Cancels, Cancellable
    <2> QED
      BY <2>1, <2>2, ReasonFrame, Zenon
  <1>6. SubscriberInv'
    <2>1. /\ UNCHANGED subscribers
          /\ \A g \in Flights : Subscribed(g)' = Subscribed(g)
      BY SMTT(30) DEF TypeOK, PlaceInv, Subscribed
    <2>2. /\ \A g \in Flights : state'[g] \in {"Owned", "LeaseLost", "Finished"} => state'[g] = state[g]
          /\ \A g \in Flights : reason[g] \in CancelReasons => reason'[g] \in CancelReasons
          /\ \A d \in Callers : pc[d] = "drop" => pc'[d] = "drop"
      BY Zenon DEF TypeOK, PlaceInv
    <2> QED
      BY <2>1, <2>2, SubscriberFrame, Zenon
  <1>7. LeaderInv'
    BY SMTT(30) DEF TypeOK, PlaceInv, LeaderInv
  <1>8. ResultInv'
    BY Zenon DEF TypeOK, PlaceInv, ResultInv
  <1>9. OwnedResultHasOneTaker'
    BY SMTT(30) DEF TypeOK, PlaceInv, ResultInv, OwnedResultHasOneTaker
  <1> QED
    BY <1>1, <1>2, <1>3, <1>4, <1>5, <1>6, <1>7, <1>8, <1>9, Zenon DEF SharedInv

\* Whoever waits is told.
LEMMA CancelNotifyPreserves ==
    ASSUME SharedInv, NEW t \in Tasks, CancelNotify(t)
    PROVE  SharedInv'
  <1> /\ TypeOK /\ PlaceInv /\ WorkInv /\ TableInv /\ ReasonInv
      /\ SubscriberInv /\ LeaderInv /\ ResultInv /\ OwnedResultHasOneTaker
    BY Zenon DEF SharedInv
  <1> USE NoFlightAssumption, DisjointAssumption, ReasonsAssumption
      DEF Tasks, Live, Working, Cancelling,
          Goto, flightVars, CancelNotify, Notify, Return
  <1>1. TypeOK'
    BY OutcomesAssumption, MaxPollsAssumption, Zenon DEF TypeOK, PlaceInv, Terminal, DriverPlaces, CallerPlaces
  <1>2. PlaceInv'
    BY OutcomesAssumption, SMTT(30) DEF TypeOK, PlaceInv, Terminal, DriverPlaces, CallerPlaces
  <1>3. WorkInv'
    <2>1. /\ \A g \in Flights : state'[g] = "Polling" <=> state[g] = "Polling"
          /\ \A g \in Flights, u \in Tasks : Works(u, g)' <=> Works(u, g)
      BY Zenon DEF TypeOK, PlaceInv, Works
    <2> QED
      BY <2>1, WorkFrame, Zenon
  <1>4. TableInv'
    BY SMTT(30) DEF TypeOK, PlaceInv, WorkInv, TableInv, ReasonInv, Computing
  <1>5. ReasonInv'
    <2>1. RecordInv'
      BY SMTT(30) DEF TypeOK, PlaceInv, WorkInv, ReasonInv, RecordInv
    <2>2. ASSUME NEW g \in Flights, Cancellable(g)'
          PROVE  Cancellable(g) /\ \A u \in Tasks : Cancels(u, g) => Cancels(u, g)'
      BY <2>2, Zenon DEF TypeOK, PlaceInv, ReasonInv, Cancels, Cancellable
    <2> QED
      BY <2>1, <2>2, ReasonFrame, Zenon
  <1>6. SubscriberInv'
    <2>1. /\ UNCHANGED subscribers
          /\ \A g \in Flights : Subscribed(g)' = Subscribed(g)
      BY SMTT(30) DEF TypeOK, PlaceInv, Subscribed
    <2>2. /\ \A g \in Flights : state'[g] \in {"Owned", "LeaseLost", "Finished"} => state'[g] = state[g]
          /\ \A g \in Flights : reason[g] \in CancelReasons => reason'[g] \in CancelReasons
          /\ \A d \in Callers : pc[d] = "drop" => pc'[d] = "drop"
      BY Zenon DEF TypeOK, PlaceInv
    <2> QED
      BY <2>1, <2>2, SubscriberFrame, Zenon
  <1>7. LeaderInv'
    BY SMTT(30) DEF TypeOK, PlaceInv, LeaderInv
  <1>8. ResultInv'
    BY Zenon DEF TypeOK, PlaceInv, ResultInv
  <1>9. OwnedResultHasOneTaker'
    BY SMTT(30) DEF TypeOK, PlaceInv, ResultInv, OwnedResultHasOneTaker
  <1> QED
    BY <1>1, <1>2, <1>3, <1>4, <1>5, <1>6, <1>7, <1>8, <1>9, Zenon DEF SharedInv

\* The first reason is recorded before anything else.
LEMMA CancelBeginsPreserves ==
    ASSUME SharedInv, CancelBegins
    PROVE  SharedInv'
  <1> /\ TypeOK /\ PlaceInv /\ WorkInv /\ TableInv /\ ReasonInv
      /\ SubscriberInv /\ LeaderInv /\ ResultInv /\ OwnedResultHasOneTaker
    BY Zenon DEF SharedInv
  <1> USE NoFlightAssumption, DisjointAssumption, ReasonsAssumption
      DEF Tasks, Live, Working, Cancelling,
          Goto, flightVars, CancelBegins, CancelWith
  <1>1. TypeOK'
    BY OutcomesAssumption, MaxPollsAssumption, SMTT(30) DEF TypeOK, PlaceInv, Terminal, DriverPlaces, CallerPlaces
  <1>2. PlaceInv'
    BY OutcomesAssumption, SMTT(30) DEF TypeOK, PlaceInv, Terminal, DriverPlaces, CallerPlaces
  <1>3. WorkInv'
    <2>1. /\ \A g \in Flights : state'[g] = "Polling" <=> state[g] = "Polling"
          /\ \A g \in Flights, u \in Tasks : Works(u, g)' <=> Works(u, g)
      BY Zenon DEF TypeOK, PlaceInv, Works
    <2> QED
      BY <2>1, WorkFrame, Zenon
  <1>4. TableInv'
    BY SMTT(30) DEF TypeOK, PlaceInv, WorkInv, TableInv, ReasonInv, Computing
  <1>5. ReasonInv'
    <2>1. RecordInv'
      BY SMTT(60) DEF TypeOK, PlaceInv, WorkInv, ReasonInv, RecordInv
    <2>2. ASSUME NEW g \in Flights, Cancellable(g)'
          PROVE  \E u \in Tasks : Cancels(u, g)'
      <3>1. CASE Cancellable(g)
        <4>1. PICK u \in Tasks : Cancels(u, g)
          BY <3>1, Zenon DEF ReasonInv, Cancels, Cancellable
        <4>2. Cancels(u, g)'
          BY <4>1, Zenon DEF TypeOK, PlaceInv, Cancels
        <4> QED
          BY <4>2, Zenon
      <3>2. CASE ~Cancellable(g)
        <4>1. Cancels(Canceller, g)'
          BY <2>2, <3>2, SMTT(60) DEF TypeOK, PlaceInv, Cancels, Cancellable, CancelWith
        <4> QED
          BY <4>1, Zenon
      <3> QED
        BY <3>1, <3>2, Zenon
    <2> QED
      BY <2>1, <2>2 DEF ReasonInv, RecordInv, Cancels, Cancellable
  <1>6. SubscriberInv'
    <2>1. /\ UNCHANGED subscribers
          /\ \A g \in Flights : Subscribed(g)' = Subscribed(g)
      BY SMTT(30) DEF TypeOK, PlaceInv, Subscribed
    <2>2. /\ \A g \in Flights : state'[g] \in {"Owned", "LeaseLost", "Finished"} => state'[g] = state[g]
          /\ \A g \in Flights : reason[g] \in CancelReasons => reason'[g] \in CancelReasons
          /\ \A d \in Callers : pc[d] = "drop" => pc'[d] = "drop"
      BY SMTT(30) DEF TypeOK, PlaceInv
    <2> QED
      BY <2>1, <2>2, SubscriberFrame, Zenon
  <1>7. LeaderInv'
    BY SMTT(30) DEF TypeOK, PlaceInv, LeaderInv
  <1>8. ResultInv'
    BY SMTT(30) DEF TypeOK, PlaceInv, ResultInv
  <1>9. OwnedResultHasOneTaker'
    BY SMTT(30) DEF TypeOK, PlaceInv, ResultInv, OwnedResultHasOneTaker
  <1> QED
    BY <1>1, <1>2, <1>3, <1>4, <1>5, <1>6, <1>7, <1>8, <1>9, Zenon DEF SharedInv
=================================================================================
