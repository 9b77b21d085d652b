--------------------------- MODULE SingleFlightProofs ---------------------------
(***************************************************************************)
(* The theorems about the shared computation of SingleFlight, for any      *)
(* number of callers, flights and cancellation reasons.                    *)
(***************************************************************************)
EXTENDS SingleFlightSteps, FiniteSetTheorems

-------------------------------------------------------------------------------
(* The steps of a call: lead or join, prepare, ask for the result, drop. *)

\* The leader puts the work into the cell, or finds the flight cancelled.
LEMMA InstallPreserves ==
    ASSUME SharedInv, NEW c \in Callers, Install(c)
    PROVE  SharedInv'
  <1> /\ TypeOK /\ PlaceInv /\ WorkInv /\ TableInv /\ ReasonInv
      /\ SubscriberInv /\ LeaderInv /\ ResultInv /\ OwnedResultHasOneTaker
    BY Zenon DEF SharedInv
  <1> USE NoFlightAssumption, DisjointAssumption, ReasonsAssumption
      DEF Tasks, Live, Working, Cancelling,
          Goto, flightVars, Install
  <1>1. TypeOK'
    BY OutcomesAssumption, MaxPollsAssumption, SMTT(30) DEF TypeOK, PlaceInv, Terminal, DriverPlaces, CallerPlaces
  <1>2. PlaceInv'
    BY OutcomesAssumption, SMTT(30) DEF TypeOK, PlaceInv, Terminal, DriverPlaces, CallerPlaces
  <1>3. WorkInv'
    <2>1. /\ \A g \in Flights : state'[g] = "Polling" <=> state[g] = "Polling"
          /\ \A g \in Flights, u \in Tasks : Works(u, g)' <=> Works(u, g)
      BY SMTT(30) DEF TypeOK, PlaceInv, Works
    <2> QED
      BY <2>1, WorkFrame, Zenon
  <1>4. TableInv'
    BY SMTT(30) DEF TypeOK, PlaceInv, WorkInv, TableInv, ReasonInv, Computing
  <1>5. ReasonInv'
    <2>1. RecordInv'
      BY SMTT(30) DEF TypeOK, PlaceInv, WorkInv, ReasonInv, RecordInv
    <2>2. ASSUME NEW g \in Flights, Cancellable(g)'
          PROVE  Cancellable(g) /\ \A u \in Tasks : Cancels(u, g) => Cancels(u, g)'
      BY <2>2, SMTT(30) DEF TypeOK, PlaceInv, ReasonInv, Cancels, Cancellable
    <2> QED
      BY <2>1, <2>2, ReasonFrame, Zenon
  <1>6. SubscriberInv'
    <2>1. /\ UNCHANGED subscribers
          /\ \A g \in Flights : Subscribed(g)' = Subscribed(g)
      BY SMTT(30) DEF TypeOK, PlaceInv, Subscribed
    <2>2. /\ \A g \in Flights : state'[g] \in {"Owned", "LeaseLost", "Finished"} => state'[g] = state[g]
          /\ \A g \in Flights : reason[g] \in CancelReasons => reason'[g] \in CancelReasons
          /\ \A d \in Callers : pc[d] = "drop" => pc'[d] = "drop"
      BY SMTT(30) DEF TypeOK, PlaceInv
    <2> QED
      BY <2>1, <2>2, SubscriberFrame, Zenon
  <1>7. LeaderInv'
    BY SMTT(30) DEF TypeOK, PlaceInv, LeaderInv
  <1>8. ResultInv'
    BY SMTT(30) DEF TypeOK, PlaceInv, ResultInv
  <1>9. OwnedResultHasOneTaker'
    BY SMTT(30) DEF TypeOK, PlaceInv, ResultInv, OwnedResultHasOneTaker
  <1> QED
    BY <1>1, <1>2, <1>3, <1>4, <1>5, <1>6, <1>7, <1>8, <1>9, Zenon DEF SharedInv

\* The preparation unwinds.
LEMMA AbandonPreserves ==
    ASSUME SharedInv, NEW c \in Callers, Abandon(c)
    PROVE  SharedInv'
  <1> /\ TypeOK /\ PlaceInv /\ WorkInv /\ TableInv /\ ReasonInv
      /\ SubscriberInv /\ LeaderInv /\ ResultInv /\ OwnedResultHasOneTaker
    BY Zenon DEF SharedInv
  <1> USE NoFlightAssumption, DisjointAssumption, ReasonsAssumption
      DEF Tasks, Live, Working, Cancelling,
          Goto, flightVars, Abandon
  <1>1. TypeOK'
    BY OutcomesAssumption, MaxPollsAssumption, Zenon DEF TypeOK, PlaceInv, Terminal, DriverPlaces, CallerPlaces
  <1>2. PlaceInv'
    BY OutcomesAssumption, SMTT(30) DEF TypeOK, PlaceInv, Terminal, DriverPlaces, CallerPlaces
  <1>3. WorkInv'
    <2>1. /\ \A g \in Flights : state'[g] = "Polling" <=> state[g] = "Polling"
          /\ \A g \in Flights, u \in Tasks : Works(u, g)' <=> Works(u, g)
      BY Zenon DEF TypeOK, PlaceInv, Works
    <2> QED
      BY <2>1, WorkFrame, Zenon
  <1>4. TableInv'
    BY SMTT(30) DEF TypeOK, PlaceInv, WorkInv, TableInv, ReasonInv, Computing
  <1>5. ReasonInv'
    <2>1. RecordInv'
      BY SMTT(30) DEF TypeOK, PlaceInv, WorkInv, ReasonInv, RecordInv
    <2>2. ASSUME NEW g \in Flights, Cancellable(g)'
          PROVE  Cancellable(g) /\ \A u \in Tasks : Cancels(u, g) => Cancels(u, g)'
      BY <2>2, Zenon DEF TypeOK, PlaceInv, ReasonInv, Cancels, Cancellable
    <2> QED
      BY <2>1, <2>2, ReasonFrame, Zenon
  <1>6. SubscriberInv'
    <2>1. /\ UNCHANGED subscribers
          /\ \A g \in Flights : Subscribed(g)' = Subscribed(g)
      BY SMTT(30) DEF TypeOK, PlaceInv, Subscribed
    <2>2. /\ \A g \in Flights : state'[g] \in {"Owned", "LeaseLost", "Finished"} => state'[g] = state[g]
          /\ \A g \in Flights : reason[g] \in CancelReasons => reason'[g] \in CancelReasons
          /\ \A d \in Callers : pc[d] = "drop" => pc'[d] = "drop"
      BY Zenon DEF TypeOK, PlaceInv
    <2> QED
      BY <2>1, <2>2, SubscriberFrame, Zenon
  <1>7. LeaderInv'
    BY SMTT(30) DEF TypeOK, PlaceInv, LeaderInv
  <1>8. ResultInv'
    BY Zenon DEF TypeOK, PlaceInv, ResultInv
  <1>9. OwnedResultHasOneTaker'
    BY SMTT(30) DEF TypeOK, PlaceInv, ResultInv, OwnedResultHasOneTaker
  <1> QED
    BY <1>1, <1>2, <1>3, <1>4, <1>5, <1>6, <1>7, <1>8, <1>9, Zenon DEF SharedInv

\* A call is dropped while it waits.
LEMMA ForgetPreserves ==
    ASSUME SharedInv, NEW c \in Callers, Forget(c)
    PROVE  SharedInv'
  <1> /\ TypeOK /\ PlaceInv /\ WorkInv /\ TableInv /\ ReasonInv
      /\ SubscriberInv /\ LeaderInv /\ ResultInv /\ OwnedResultHasOneTaker
    BY Zenon DEF SharedInv
  <1> USE NoFlightAssumption, DisjointAssumption, ReasonsAssumption
      DEF Tasks, Live, Working, Cancelling,
          Goto, flightVars, Forget
  <1>1. TypeOK'
    BY OutcomesAssumption, MaxPollsAssumption, Zenon DEF TypeOK, PlaceInv, Terminal, DriverPlaces, CallerPlaces
  <1>2. PlaceInv'
    BY OutcomesAssumption, SMTT(30) DEF TypeOK, PlaceInv, Terminal, DriverPlaces, CallerPlaces
  <1>3. WorkInv'
    <2>1. /\ \A g \in Flights : state'[g] = "Polling" <=> state[g] = "Polling"
          /\ \A g \in Flights, u \in Tasks : Works(u, g)' <=> Works(u, g)
      BY Zenon DEF TypeOK, PlaceInv, Works
    <2> QED
      BY <2>1, WorkFrame, Zenon
  <1>4. TableInv'
    BY SMTT(30) DEF TypeOK, PlaceInv, WorkInv, TableInv, ReasonInv, Computing
  <1>5. ReasonInv'
    <2>1. RecordInv'
      BY SMTT(30) DEF TypeOK, PlaceInv, WorkInv, ReasonInv, RecordInv
    <2>2. ASSUME NEW g \in Flights, Cancellable(g)'
          PROVE  Cancellable(g) /\ \A u \in Tasks : Cancels(u, g) => Cancels(u, g)'
      BY <2>2, Zenon DEF TypeOK, PlaceInv, ReasonInv, Cancels, Cancellable
    <2> QED
      BY <2>1, <2>2, ReasonFrame, Zenon
  <1>6. SubscriberInv'
    <2>1. /\ UNCHANGED subscribers
          /\ \A g \in Flights : Subscribed(g)' = Subscribed(g)
      BY SMTT(30) DEF TypeOK, PlaceInv, Subscribed
    <2>2. /\ \A g \in Flights : state'[g] \in {"Owned", "LeaseLost", "Finished"} => state'[g] = state[g]
          /\ \A g \in Flights : reason[g] \in CancelReasons => reason'[g] \in CancelReasons
          /\ \A d \in Callers : pc[d] = "drop" => pc'[d] = "drop"
      BY Zenon DEF TypeOK, PlaceInv
    <2> QED
      BY <2>1, <2>2, SubscriberFrame, Zenon
  <1>7. LeaderInv'
    BY SMTT(30) DEF TypeOK, PlaceInv, LeaderInv
  <1>8. ResultInv'
    BY Zenon DEF TypeOK, PlaceInv, ResultInv
  <1>9. OwnedResultHasOneTaker'
    BY SMTT(30) DEF TypeOK, PlaceInv, ResultInv, OwnedResultHasOneTaker
  <1> QED
    BY <1>1, <1>2, <1>3, <1>4, <1>5, <1>6, <1>7, <1>8, <1>9, Zenon DEF SharedInv

\* The count and the set of subscribers shrink together.
LEMMA DropPreserves ==
    ASSUME Counting, SharedInv, NEW c \in Callers, Drop(c)
    PROVE  SharedInv'
  <1> /\ TypeOK /\ PlaceInv /\ WorkInv /\ TableInv /\ ReasonInv
      /\ SubscriberInv /\ LeaderInv /\ ResultInv /\ OwnedResultHasOneTaker
    BY Zenon DEF SharedInv
  <1> USE NoFlightAssumption, DisjointAssumption, ReasonsAssumption
      DEF Tasks, Live, Working, Cancelling,
          Goto, flightVars, Drop, Terminal
  <1>0. on[c] \in Flights /\ c \in Subscribed(on[c])
    BY SMTT(60) DEF TypeOK, PlaceInv, Subscribed
  <1>a. /\ \A g \in Flights : Subscribed(g)' = IF g = on[c] THEN Subscribed(g) \ {c} ELSE Subscribed(g)
        /\ \A g \in Flights : subscribers'[g] = IF g = on[c] THEN subscribers[g] - 1 ELSE subscribers[g]
    BY <1>0, SMTT(60) DEF TypeOK, PlaceInv, Subscribed
  <1>b. /\ subscribers[on[c]] = Cardinality(Subscribed(on[c]))
        /\ Subscribed(on[c]) \subseteq Callers
    BY <1>0, Zenon DEF SubscriberInv, Subscribed
  <1>c. /\ Cardinality(Subscribed(on[c]) \ {c}) = subscribers[on[c]] - 1
        /\ subscribers[on[c]] \in 1 .. Cardinality(Callers)
        /\ subscribers[on[c]] = 1 => Subscribed(on[c]) = {c}
    <2>1. Subscribed(on[c]) \in SUBSET Callers
      BY <1>b, Zenon
    <2>2. /\ Cardinality(Subscribed(on[c]) \ {c}) = Cardinality(Subscribed(on[c])) - 1
          /\ Cardinality(Subscribed(on[c])) \in 1 .. Cardinality(Callers)
          /\ Cardinality(Subscribed(on[c])) = 1 => Subscribed(on[c]) = {c}
      BY <1>0, <2>1, OneLeaves, Zenon
    <2> QED
      BY <1>b, <2>2, Zenon
  <1>1. TypeOK'
    <2>1. subscribers' \in [Flights -> 0 .. Cardinality(Callers)]
      <3>1. Cardinality(Callers) \in Nat
        BY Zenon DEF Counting
      <3>2. subscribers[on[c]] - 1 \in 0 .. Cardinality(Callers)
        BY <1>c, <3>1
      <3>3. subscribers' = [subscribers EXCEPT ![on[c]] = subscribers[on[c]] - 1]
        BY Zenon
      <3>4. subscribers \in [Flights -> 0 .. Cardinality(Callers)]
        BY Zenon DEF TypeOK
      <3> QED
        BY <3>2, <3>3, <3>4, SetEntry, Zenon
    <2>2. state' \in [Flights -> {"Unborn", "Finished"} \cup Live \cup Terminal]
      BY <1>0, <1>c, MaxPollsAssumption, SMTT(60) DEF TypeOK, PlaceInv, Terminal, DriverPlaces, CallerPlaces
    <2>3. pc' \in [Tasks -> CallerPlaces \cup DriverPlaces]
      BY <1>0, <1>c, MaxPollsAssumption, Zenon DEF TypeOK, PlaceInv, Terminal, DriverPlaces, CallerPlaces
    <2> QED
      BY <2>1, <2>2, <2>3, Zenon DEF TypeOK
  <1>2. PlaceInv'
    BY OutcomesAssumption, SMTT(30) DEF TypeOK, PlaceInv, Terminal, DriverPlaces, CallerPlaces
  <1>3. WorkInv'
    <2>1. /\ \A g \in Flights : state'[g] = "Polling" <=> state[g] = "Polling"
          /\ \A g \in Flights, u \in Tasks : Works(u, g)' <=> Works(u, g)
      BY SMTT(30) DEF TypeOK, PlaceInv, Works
    <2> QED
      BY <2>1, WorkFrame, Zenon
  <1>4. TableInv'
    BY SMTT(30) DEF TypeOK, PlaceInv, WorkInv, TableInv, ReasonInv, Computing
  <1>5. ReasonInv'
    <2>1. RecordInv'
      BY SMTT(30) DEF TypeOK, PlaceInv, WorkInv, ReasonInv, RecordInv
    <2>2. ASSUME NEW g \in Flights, Cancellable(g)'
          PROVE  Cancellable(g) /\ \A u \in Tasks : Cancels(u, g) => Cancels(u, g)'
      BY <2>2, SMTT(30) DEF TypeOK, PlaceInv, ReasonInv, Cancels, Cancellable
    <2> QED
      BY <2>1, <2>2, ReasonFrame, Zenon
  <1>6. SubscriberInv'
    <2>1. ASSUME NEW g \in Flights
          PROVE  subscribers'[g] = Cardinality(Subscribed(g))'
      <3>1. CASE g = on[c]
        <4>1. Subscribed(g)' = Subscribed(on[c]) \ {c} /\ subscribers'[g] = subscribers[on[c]] - 1
          BY <3>1, <1>a, Zenon
        <4> QED
          BY <4>1, <1>c, Zenon
      <3>2. CASE g # on[c]
        <4>1. Subscribed(g)' = Subscribed(g) /\ subscribers'[g] = subscribers[g]
          BY <3>2, <1>a, Zenon
        <4> QED
          BY <4>1, Zenon DEF SubscriberInv
      <3> QED
        BY <3>1, <3>2, Zenon
    <2>2. \A g \in Flights : state'[g] \in {"Owned", "LeaseLost"} => subscribers'[g] <= 1
      BY <1>0, <1>a, <1>c, SMTT(60) DEF TypeOK, SubscriberInv
    <2>3. ASSUME NEW g \in Flights, state'[g] = "Finished", reason'[g] \notin CancelReasons,
                 NEW d \in Subscribed(g)'
          PROVE  pc'[d] = "drop"
      <3>1. d \in Callers /\ d \in Subscribed(g) /\ d # c
        BY <2>3, <1>0, <1>a, SMTT(60) DEF Subscribed
      <3>2. state[g] = "Finished"
        BY <2>3, <3>1, <1>0, <1>c, SMTT(60) DEF TypeOK
      <3>3. pc[d] = "drop"
        BY <2>3, <3>1, <3>2, Zenon DEF SubscriberInv
      <3> QED
        BY <3>1, <3>3, Zenon DEF TypeOK
    <2> QED
      BY <2>1, <2>2, <2>3, Zenon DEF SubscriberInv
  <1>7. LeaderInv'
    <2>1. ASSUME subscribers[on[c]] = 1, NEW d \in Callers, on[d] = on[c]
          PROVE  pc[d] # "prepare"
      BY <2>1, <1>0, <1>c, Zenon DEF Subscribed
    <2> QED
      BY <1>0, <2>1, SMTT(60) DEF TypeOK, PlaceInv, LeaderInv
  <1>8. ResultInv'
    BY SMTT(60) DEF TypeOK, PlaceInv, ResultInv
  <1>9. OwnedResultHasOneTaker'
    BY SMTT(60) DEF TypeOK, PlaceInv, ResultInv, OwnedResultHasOneTaker
  <1> QED
    BY <1>1, <1>2, <1>3, <1>4, <1>5, <1>6, <1>7, <1>8, <1>9, Zenon DEF SharedInv

\* The last subscriber of a flight that never got its work unlists it.
LEMMA AbandonStartPreserves ==
    ASSUME Counting, SharedInv, NEW c \in Callers, AbandonStart(c)
    PROVE  SharedInv'
  <1> /\ TypeOK /\ PlaceInv /\ WorkInv /\ TableInv /\ ReasonInv
      /\ SubscriberInv /\ LeaderInv /\ ResultInv /\ OwnedResultHasOneTaker
    BY Zenon DEF SharedInv
  <1> USE NoFlightAssumption, DisjointAssumption, ReasonsAssumption
      DEF Tasks, Live, Working, Cancelling,
          Goto, flightVars, AbandonStart, Notify, CancelWith
  <1>1. TypeOK'
    <2>1. state' \in [Flights -> {"Unborn", "Finished"} \cup Live \cup Terminal]
      BY MaxPollsAssumption, SMTT(60) DEF TypeOK, PlaceInv, Terminal, DriverPlaces, CallerPlaces
    <2>2. runnable' \in [Flights -> BOOLEAN]
      <3>1. runnable' = runnable \/ runnable' = [runnable EXCEPT ![on[c]] = FALSE]
        BY Zenon DEF Notify
      <3>2. runnable \in [Flights -> BOOLEAN]
        BY Zenon DEF TypeOK
      <3> QED
        BY <3>1, <3>2, SetFlag, Zenon
    <2>3. table' \in Flights \cup {NoFlight}
      BY MaxPollsAssumption, SMTT(60) DEF TypeOK, PlaceInv, Terminal, DriverPlaces, CallerPlaces
    <2>4. reason' \in [Flights -> CancelReasons \cup {"none", "ScopeFinished"}]
      BY MaxPollsAssumption, SMTT(60) DEF TypeOK, PlaceInv, Terminal, DriverPlaces, CallerPlaces
    <2>5. notified' \in [Callers \cup Flights -> BOOLEAN]
      <3>1. \/ notified' = notified
            \/ notified' = [t \in Callers \cup Flights |-> notified[t] \/ (t \in wakers[on[c]] /\ pc[t] # "done")]
        BY Zenon DEF Notify
      <3>2. notified \in [Callers \cup Flights -> BOOLEAN]
        BY Zenon DEF TypeOK
      <3>3. [t \in Callers \cup Flights |-> notified[t] \/ (t \in wakers[on[c]] /\ pc[t] # "done")]
                \in [Callers \cup Flights -> BOOLEAN]
        BY Zenon
      <3> QED
        BY <3>1, <3>2, <3>3, Zenon
    <2>6. wakers' \in [Flights -> SUBSET (Callers \cup Flights)]
      BY MaxPollsAssumption, SMTT(60) DEF TypeOK, PlaceInv, Terminal, DriverPlaces, CallerPlaces
    <2>7. pc' \in [Tasks -> CallerPlaces \cup DriverPlaces]
      BY MaxPollsAssumption, Zenon DEF TypeOK, PlaceInv, Terminal, DriverPlaces, CallerPlaces
    <2> QED
      BY <2>1, <2>2, <2>3, <2>4, <2>5, <2>6, <2>7, Zenon DEF TypeOK
  <1>2. PlaceInv'
    BY OutcomesAssumption, SMTT(30) DEF TypeOK, PlaceInv, Terminal, DriverPlaces, CallerPlaces
  <1>3. WorkInv'
    <2>1. /\ \A g \in Flights : state'[g] = "Polling" <=> state[g] = "Polling"
          /\ \A g \in Flights, u \in Tasks : Works(u, g)' <=> Works(u, g)
      BY SMTT(30) DEF TypeOK, PlaceInv, Works
    <2> QED
      BY <2>1, WorkFrame, Zenon
  <1>4. TableInv'
    BY SMTT(30) DEF TypeOK, PlaceInv, WorkInv, TableInv, ReasonInv, Computing
  <1>5. ReasonInv'
    <2>1. RecordInv'
      BY SMTT(30) DEF TypeOK, PlaceInv, WorkInv, ReasonInv, RecordInv
    <2>2. ASSUME NEW g \in Flights, Cancellable(g)'
          PROVE  Cancellable(g) /\ \A u \in Tasks : Cancels(u, g) => Cancels(u, g)'
      BY <2>2, SMTT(30) DEF TypeOK, PlaceInv, ReasonInv, Cancels, Cancellable
    <2> QED
      BY <2>1, <2>2, ReasonFrame, Zenon
  <1>6. SubscriberInv'
    <2>0. on[c] \in Flights
      BY SMTT(60) DEF TypeOK, PlaceInv
    <2>1. /\ UNCHANGED subscribers
          /\ \A g \in Flights : Subscribed(g)' = Subscribed(g)
      BY SMTT(60) DEF TypeOK, PlaceInv, Subscribed
    <2>2. /\ \A g \in Flights : g # on[c] => state'[g] = state[g]
          /\ \A g \in Flights : \A d \in Subscribed(g) : pc[d] = "drop" => pc'[d] = "drop"
          /\ \A g \in Flights : reason[g] \in CancelReasons => reason'[g] \in CancelReasons
      BY SMTT(60) DEF TypeOK, PlaceInv, Subscribed
    <2>3. \/ state'[on[c]] = state[on[c]]
          \/ state'[on[c]] = "Finished" /\ subscribers[on[c]] = 0
      BY <2>0, SMTT(60) DEF TypeOK
    <2>4. subscribers[on[c]] = 0 => Subscribed(on[c]) = {}
      BY <2>0, NobodySubscribed, Zenon DEF SubscriberInv
    <2> QED
      BY <2>0, <2>1, <2>2, <2>3, <2>4, SMTT(60) DEF SubscriberInv
  <1>7. LeaderInv'
    BY SMTT(30) DEF TypeOK, PlaceInv, LeaderInv
  <1>8. ResultInv'
    BY SMTT(30) DEF TypeOK, PlaceInv, ResultInv
  <1>9. OwnedResultHasOneTaker'
    BY SMTT(30) DEF TypeOK, PlaceInv, ResultInv, OwnedResultHasOneTaker
  <1> QED
    BY <1>1, <1>2, <1>3, <1>4, <1>5, <1>6, <1>7, <1>8, <1>9, Zenon DEF SharedInv

\* Whoever remains is told to poll.
LEMMA DropNotifyPreserves ==
    ASSUME SharedInv, NEW c \in Callers, DropNotify(c)
    PROVE  SharedInv'
  <1> /\ TypeOK /\ PlaceInv /\ WorkInv /\ TableInv /\ ReasonInv
      /\ SubscriberInv /\ LeaderInv /\ ResultInv /\ OwnedResultHasOneTaker
    BY Zenon DEF SharedInv
  <1> USE NoFlightAssumption, DisjointAssumption, ReasonsAssumption
      DEF Tasks, Live, Working, Cancelling,
          Goto, flightVars, DropNotify, Notify
  <1>1. TypeOK'
    BY OutcomesAssumption, MaxPollsAssumption, SMTT(30) DEF TypeOK, PlaceInv, Terminal, DriverPlaces, CallerPlaces
  <1>2. PlaceInv'
    BY OutcomesAssumption, SMTT(30) DEF TypeOK, PlaceInv, Terminal, DriverPlaces, CallerPlaces
  <1>3. WorkInv'
    <2>1. /\ \A g \in Flights : state'[g] = "Polling" <=> state[g] = "Polling"
          /\ \A g \in Flights, u \in Tasks : Works(u, g)' <=> Works(u, g)
      BY Zenon DEF TypeOK, PlaceInv, Works
    <2> QED
      BY <2>1, WorkFrame, Zenon
  <1>4. TableInv'
    BY SMTT(30) DEF TypeOK, PlaceInv, WorkInv, TableInv, ReasonInv, Computing
  <1>5. ReasonInv'
    <2>1. RecordInv'
      BY SMTT(30) DEF TypeOK, PlaceInv, WorkInv, ReasonInv, RecordInv
    <2>2. ASSUME NEW g \in Flights, Cancellable(g)'
          PROVE  Cancellable(g) /\ \A u \in Tasks : Cancels(u, g) => Cancels(u, g)'
      BY <2>2, Zenon DEF TypeOK, PlaceInv, ReasonInv, Cancels, Cancellable
    <2> QED
      BY <2>1, <2>2, ReasonFrame, Zenon
  <1>6. SubscriberInv'
    <2>1. /\ UNCHANGED subscribers
          /\ \A g \in Flights : Subscribed(g)' = Subscribed(g)
      BY SMTT(30) DEF TypeOK, PlaceInv, Subscribed
    <2>2. /\ \A g \in Flights : state'[g] \in {"Owned", "LeaseLost", "Finished"} => state'[g] = state[g]
          /\ \A g \in Flights : reason[g] \in CancelReasons => reason'[g] \in CancelReasons
          /\ \A d \in Callers : pc[d] = "drop" => pc'[d] = "drop"
      BY Zenon DEF TypeOK, PlaceInv
    <2> QED
      BY <2>1, <2>2, SubscriberFrame, Zenon
  <1>7. LeaderInv'
    BY SMTT(30) DEF TypeOK, PlaceInv, LeaderInv
  <1>8. ResultInv'
    BY Zenon DEF TypeOK, PlaceInv, ResultInv
  <1>9. OwnedResultHasOneTaker'
    BY SMTT(30) DEF TypeOK, PlaceInv, ResultInv, OwnedResultHasOneTaker
  <1> QED
    BY <1>1, <1>2, <1>3, <1>4, <1>5, <1>6, <1>7, <1>8, <1>9, Zenon DEF SharedInv

\* No result yet: the caller waits.
LEMMA TryPendsPreserves ==
    ASSUME SharedInv, NEW c \in Callers, pc[c] = "try", TryPends(c),
           UNCHANGED <<table, subscribers, runnable, reason, wakers, polls, armed,
                       leader, polled, term, notified>>
    PROVE  SharedInv'
  <1> /\ TypeOK /\ PlaceInv /\ WorkInv /\ TableInv /\ ReasonInv
      /\ SubscriberInv /\ LeaderInv /\ ResultInv /\ OwnedResultHasOneTaker
    BY Zenon DEF SharedInv
  <1> USE NoFlightAssumption, DisjointAssumption, ReasonsAssumption
      DEF Tasks, Live, Working, Cancelling,
          Goto, flightVars, TryPends
  <1>0. on[c] \in Flights /\ c \in Subscribed(on[c]) /\ c \in Tasks
    BY SMTT(60) DEF TypeOK, PlaceInv, Subscribed
  <1>1. TypeOK'
    BY OutcomesAssumption, MaxPollsAssumption, Zenon DEF TypeOK, PlaceInv, Terminal, DriverPlaces, CallerPlaces
  <1>2. PlaceInv'
    BY OutcomesAssumption, SMTT(60) DEF TypeOK, PlaceInv, Terminal, DriverPlaces, CallerPlaces
  <1>3. WorkInv'
    <2>1. /\ \A g \in Flights : state'[g] = "Polling" <=> state[g] = "Polling"
          /\ \A g \in Flights, u \in Tasks : Works(u, g)' <=> Works(u, g)
      BY <1>0, Zenon DEF TypeOK, PlaceInv, Works
    <2> QED
      BY <2>1, WorkFrame, Zenon
  <1>4. TableInv'
    BY <1>0, SMTT(60) DEF TypeOK, PlaceInv, WorkInv, TableInv, ReasonInv, Computing
  <1>5. ReasonInv'
    <2>1. RecordInv'
      BY <1>0, SMTT(60) DEF TypeOK, PlaceInv, WorkInv, ReasonInv, RecordInv
    <2>2. ASSUME NEW g \in Flights, Cancellable(g)'
          PROVE  Cancellable(g) /\ \A u \in Tasks : Cancels(u, g) => Cancels(u, g)'
      BY <2>2, Zenon DEF TypeOK, PlaceInv, ReasonInv, Cancels, Cancellable
    <2> QED
      BY <2>1, <2>2, ReasonFrame, Zenon
  <1>6. SubscriberInv'
    <2>1. /\ UNCHANGED subscribers
          /\ \A g \in Flights : Subscribed(g)' = Subscribed(g)
      BY <1>0, SMTT(60) DEF TypeOK, PlaceInv, Subscribed
    <2>2. /\ \A g \in Flights : state'[g] \in {"Owned", "LeaseLost", "Finished"} => state'[g] = state[g]
          /\ \A g \in Flights : reason[g] \in CancelReasons => reason'[g] \in CancelReasons
          /\ \A d \in Callers : pc[d] = "drop" => pc'[d] = "drop"
      BY <1>0, Zenon DEF TypeOK, PlaceInv
    <2> QED
      BY <2>1, <2>2, SubscriberFrame, Zenon
  <1>7. LeaderInv'
    BY <1>0, SMTT(60) DEF TypeOK, PlaceInv, LeaderInv
  <1>8. ResultInv'
    BY <1>0, Zenon DEF TypeOK, PlaceInv, ResultInv
  <1>9. OwnedResultHasOneTaker'
    BY <1>0, SMTT(60) DEF TypeOK, PlaceInv, ResultInv, OwnedResultHasOneTaker
  <1> QED
    BY <1>1, <1>2, <1>3, <1>4, <1>5, <1>6, <1>7, <1>8, <1>9, Zenon DEF SharedInv

\* No result yet: the leader spawns the driver, which had not been spawned before.
LEMMA TrySpawnsPreserves ==
    ASSUME SharedInv, NEW c \in Callers, pc[c] = "try", TrySpawns(c),
           UNCHANGED <<table, subscribers, runnable, reason, wakers, polls, armed,
                       leader, polled, term, notified>>
    PROVE  SharedInv'
  <1> /\ TypeOK /\ PlaceInv /\ WorkInv /\ TableInv /\ ReasonInv
      /\ SubscriberInv /\ LeaderInv /\ ResultInv /\ OwnedResultHasOneTaker
    BY Zenon DEF SharedInv
  <1> USE NoFlightAssumption, DisjointAssumption, ReasonsAssumption
      DEF Tasks, Live, Working, Cancelling,
          Goto, flightVars, TrySpawns
  <1>0. on[c] \in Flights /\ c \in Subscribed(on[c]) /\ c \in Tasks
    BY SMTT(60) DEF TypeOK, PlaceInv, Subscribed
  <1>a. pc[on[c]] = "idle"
    BY <1>0, Zenon DEF TypeOK, LeaderInv
  <1>b. \A u \in Tasks :
            \/ u \in {c, on[c]} /\ pc[u] \in {"try", "idle"} /\ pc'[u] = "await"
            \/ pc'[u] = pc[u] /\ on'[u] = on[u]
    BY <1>0, <1>a, Zenon DEF TypeOK
  <1>1. TypeOK'
    <2>1. on' \in [Tasks -> Flights \cup {NoFlight}]
      BY <1>0, MaxPollsAssumption, Zenon DEF TypeOK, PlaceInv, Terminal, DriverPlaces, CallerPlaces
    <2>2. pc' \in [Tasks -> CallerPlaces \cup DriverPlaces]
      BY <1>0, MaxPollsAssumption, Zenon DEF TypeOK, PlaceInv, Terminal, DriverPlaces, CallerPlaces
    <2> QED
      BY <2>1, <2>2, Zenon DEF TypeOK
  <1>2. PlaceInv'
    BY OutcomesAssumption, SMTT(60) DEF TypeOK, PlaceInv, Terminal, DriverPlaces, CallerPlaces
  <1>3. WorkInv'
    <2>1. /\ \A g \in Flights : state'[g] = "Polling" <=> state[g] = "Polling"
          /\ \A g \in Flights, u \in Tasks : Works(u, g)' <=> Works(u, g)
      BY <1>0, <1>a, Zenon DEF TypeOK, PlaceInv, Works
    <2> QED
      BY <2>1, WorkFrame, Zenon
  <1>4. TableInv'
    <2>0. UNCHANGED <<table, state, reason>>
      BY Zenon
    <2> HIDE DEF TrySpawns
    <2>1. \A g \in Flights : Computing(g)' <=> Computing(g)
      BY <1>b, <2>0, Zenon DEF Computing
    <2>2. \A u \in Tasks : pc'[u] = "publish" => pc[u] = "publish" /\ on'[u] = on[u]
      BY <1>b, Zenon
    <2> QED
      BY <2>0, <2>1, <2>2, SMTT(30) DEF TableInv
  <1>5. ReasonInv'
    <2>1. RecordInv'
      <3>1. UNCHANGED <<state, reason>>
        BY Zenon
      <3> HIDE DEF TrySpawns
      <3>2. \A u \in Tasks : pc'[u] \in Cancelling \cup {"finish"} => pc'[u] = pc[u] /\ on'[u] = on[u]
        BY <1>b, Zenon
      <3> QED
        BY <3>1, <3>2, SMTT(30) DEF ReasonInv, RecordInv
    <2>2. ASSUME NEW g \in Flights, Cancellable(g)'
          PROVE  Cancellable(g) /\ \A u \in Tasks : Cancels(u, g) => Cancels(u, g)'
      <3>1. Cancellable(g)
        BY <2>2, Zenon DEF Cancellable
      <3>2. \A u \in Tasks : Cancels(u, g) => u # c /\ u # on[c]
        BY <1>0, <1>a, Zenon DEF Cancels
      <3>3. \A u \in Tasks : u # c /\ u # on[c] => pc'[u] = pc[u] /\ on'[u] = on[u]
        BY <1>0, Zenon DEF TypeOK
      <3> QED
        BY <3>1, <3>2, <3>3, Zenon DEF Cancels
    <2> QED
      BY <2>1, <2>2, ReasonFrame, Zenon
  <1>6. SubscriberInv'
    <2>1. /\ UNCHANGED subscribers
          /\ \A g \in Flights : Subscribed(g)' = Subscribed(g)
      BY <1>0, <1>a, SMTT(60) DEF TypeOK, PlaceInv, Subscribed
    <2>2. /\ \A g \in Flights : state'[g] \in {"Owned", "LeaseLost", "Finished"} => state'[g] = state[g]
          /\ \A g \in Flights : reason[g] \in CancelReasons => reason'[g] \in CancelReasons
          /\ \A d \in Callers : pc[d] = "drop" => pc'[d] = "drop"
      BY <1>0, <1>a, Zenon DEF TypeOK, PlaceInv
    <2> QED
      BY <2>1, <2>2, SubscriberFrame, Zenon
  <1>7. LeaderInv'
    BY <1>0, <1>a, SMTT(60) DEF TypeOK, PlaceInv, LeaderInv
  <1>8. ResultInv'
    BY <1>0, <1>a, Zenon DEF TypeOK, PlaceInv, ResultInv
  <1>9. OwnedResultHasOneTaker'
    BY <1>0, SMTT(60) DEF TypeOK, PlaceInv, ResultInv, OwnedResultHasOneTaker
  <1> QED
    BY <1>1, <1>2, <1>3, <1>4, <1>5, <1>6, <1>7, <1>8, <1>9, Zenon DEF SharedInv

\* An owned result is moved out: its one subscriber takes it.
LEMMA TryOwnedPreserves ==
    ASSUME Counting, SharedInv, NEW c \in Callers, pc[c] = "try", TryOwned(c),
           UNCHANGED <<table, subscribers, runnable, reason, wakers, polls, armed,
                       leader, polled, term, notified>>
    PROVE  SharedInv'
  <1> /\ TypeOK /\ PlaceInv /\ WorkInv /\ TableInv /\ ReasonInv
      /\ SubscriberInv /\ LeaderInv /\ ResultInv /\ OwnedResultHasOneTaker
    BY Zenon DEF SharedInv
  <1> USE NoFlightAssumption, DisjointAssumption, ReasonsAssumption
      DEF Tasks, Live, Working, Cancelling,
          Goto, flightVars, TryOwned
  <1>0. on[c] \in Flights /\ c \in Subscribed(on[c]) /\ c \in Tasks
    BY SMTT(60) DEF TypeOK, PlaceInv, Subscribed
  <1>a. /\ subscribers[on[c]] = Cardinality(Subscribed(on[c])) /\ subscribers[on[c]] <= 1
        /\ Subscribed(on[c]) \subseteq Callers
    BY <1>0, Zenon DEF SubscriberInv, Subscribed
  <1>b. Subscribed(on[c]) = {c}
    <2>1. Subscribed(on[c]) \in SUBSET Callers
      BY <1>a, Zenon
    <2>2. /\ Cardinality(Subscribed(on[c])) \in 1 .. Cardinality(Callers)
          /\ Cardinality(Subscribed(on[c])) = 1 => Subscribed(on[c]) = {c}
      BY <1>0, <2>1, OneLeaves, Zenon
    <2> QED
      BY <1>a, <2>2
  <1>c. \A d \in Callers : on[d] = on[c] /\ d # c => pc[d] \in {"abandon", "drop_notify", "done"}
    BY <1>b, Zenon DEF Subscribed
  <1>d. \A d \in Callers : on[d] = on[c] => pc[d] # "abandon"
    BY <1>0, Zenon DEF LeaderInv
  <1>1. TypeOK'
    <2>1. got' \in [Callers -> {"none", "Owned", "Shared", "Panicked", "FollowerPanicked",
                             "Cancelled", "Unwound"}]
      BY <1>0, MaxPollsAssumption, Zenon DEF TypeOK, PlaceInv, Terminal, DriverPlaces, CallerPlaces
    <2>2. state' \in [Flights -> {"Unborn", "Finished"} \cup Live \cup Terminal]
      BY <1>0, MaxPollsAssumption, Zenon DEF TypeOK, PlaceInv, Terminal, DriverPlaces, CallerPlaces
    <2>3. pc' \in [Tasks -> CallerPlaces \cup DriverPlaces]
      BY <1>0, MaxPollsAssumption, Zenon DEF TypeOK, PlaceInv, Terminal, DriverPlaces, CallerPlaces
    <2> QED
      BY <2>1, <2>2, <2>3, Zenon DEF TypeOK
  <1>2. PlaceInv'
    BY OutcomesAssumption, SMTT(60) DEF TypeOK, PlaceInv, Terminal, DriverPlaces, CallerPlaces
  <1>3. WorkInv'
    <2>1. /\ \A g \in Flights : state'[g] = "Polling" <=> state[g] = "Polling"
          /\ \A g \in Flights, u \in Tasks : Works(u, g)' <=> Works(u, g)
      BY <1>0, SMTT(60) DEF TypeOK, PlaceInv, Works
    <2> QED
      BY <2>1, WorkFrame, Zenon
  <1>4. TableInv'
    BY <1>0, SMTT(60) DEF TypeOK, PlaceInv, WorkInv, TableInv, ReasonInv, Computing
  <1>5. ReasonInv'
    <2>1. RecordInv'
      BY <1>0, SMTT(60) DEF TypeOK, PlaceInv, WorkInv, ReasonInv, RecordInv
    <2>2. ASSUME NEW g \in Flights, Cancellable(g)'
          PROVE  Cancellable(g) /\ \A u \in Tasks : Cancels(u, g) => Cancels(u, g)'
      BY <2>2, SMTT(60) DEF TypeOK, PlaceInv, ReasonInv, Cancels, Cancellable
    <2> QED
      BY <2>1, <2>2, ReasonFrame, Zenon
  <1>6. SubscriberInv'
    <2>1. /\ UNCHANGED subscribers
          /\ \A g \in Flights : Subscribed(g)' = Subscribed(g)
      BY <1>0, SMTT(60) DEF TypeOK, PlaceInv, Subscribed
    <2>2. /\ UNCHANGED reason
          /\ \A g \in Flights : g # on[c] => state'[g] = state[g]
          /\ state'[on[c]] = "Finished" /\ pc'[c] = "drop"
          /\ \A g \in Flights : \A d \in Subscribed(g) : pc[d] = "drop" => pc'[d] = "drop"
      BY <1>0, SMTT(60) DEF TypeOK, PlaceInv, Subscribed
    <2>3. ASSUME NEW g \in Flights
          PROVE  /\ subscribers'[g] = Cardinality(Subscribed(g))'
                 /\ state'[g] \in {"Owned", "LeaseLost"} => subscribers'[g] <= 1
                 /\ state'[g] = "Finished" /\ reason'[g] \notin CancelReasons
                     => \A d \in Subscribed(g)' : pc'[d] = "drop"
      <3>1. CASE g = on[c]
        BY <3>1, <1>b, <2>1, <2>2 DEF SubscriberInv
      <3>2. CASE g # on[c]
        BY <3>2, <2>1, <2>2 DEF SubscriberInv
      <3> QED
        BY <3>1, <3>2, Zenon
    <2> QED
      BY <2>3, Zenon DEF SubscriberInv
  <1>7. LeaderInv'
    BY <1>0, <1>c, <1>d, SMTT(60) DEF TypeOK, PlaceInv, LeaderInv
  <1>8. ResultInv'
    BY <1>0, <1>c, <1>d, SMTT(60) DEF TypeOK, PlaceInv, TableInv, ResultInv
  <1>9. OwnedResultHasOneTaker'
    BY <1>0, <1>c, <1>d, SMTT(60) DEF TypeOK, PlaceInv, ResultInv, OwnedResultHasOneTaker
  <1> QED
    BY <1>1, <1>2, <1>3, <1>4, <1>5, <1>6, <1>7, <1>8, <1>9, Zenon DEF SharedInv

\* The leader takes the payload of a panic.
LEMMA TryPanickedPreserves ==
    ASSUME SharedInv, NEW c \in Callers, pc[c] = "try", TryPanicked(c),
           UNCHANGED <<table, subscribers, runnable, reason, wakers, polls, armed,
                       leader, polled, term, notified>>
    PROVE  SharedInv'
  <1> /\ TypeOK /\ PlaceInv /\ WorkInv /\ TableInv /\ ReasonInv
      /\ SubscriberInv /\ LeaderInv /\ ResultInv /\ OwnedResultHasOneTaker
    BY Zenon DEF SharedInv
  <1> USE NoFlightAssumption, DisjointAssumption, ReasonsAssumption
      DEF Tasks, Live, Working, Cancelling,
          Goto, flightVars, TryPanicked, TakesPayload
  <1>0. on[c] \in Flights /\ c \in Subscribed(on[c]) /\ c \in Tasks
    BY SMTT(60) DEF TypeOK, PlaceInv, Subscribed
  <1>1. TypeOK'
    <2>1. got' \in [Callers -> {"none", "Owned", "Shared", "Panicked", "FollowerPanicked",
                             "Cancelled", "Unwound"}]
      BY <1>0, MaxPollsAssumption, Zenon DEF TypeOK, PlaceInv, Terminal, DriverPlaces, CallerPlaces
    <2>2. state' \in [Flights -> {"Unborn", "Finished"} \cup Live \cup Terminal]
      BY <1>0, MaxPollsAssumption, Zenon DEF TypeOK, PlaceInv, Terminal, DriverPlaces, CallerPlaces
    <2>3. pc' \in [Tasks -> CallerPlaces \cup DriverPlaces]
      BY <1>0, MaxPollsAssumption, Zenon DEF TypeOK, PlaceInv, Terminal, DriverPlaces, CallerPlaces
    <2> QED
      BY <2>1, <2>2, <2>3, Zenon DEF TypeOK
  <1>2. PlaceInv'
    BY OutcomesAssumption, SMTT(60) DEF TypeOK, PlaceInv, Terminal, DriverPlaces, CallerPlaces
  <1>3. WorkInv'
    <2>1. /\ \A g \in Flights : state'[g] = "Polling" <=> state[g] = "Polling"
          /\ \A g \in Flights, u \in Tasks : Works(u, g)' <=> Works(u, g)
      BY <1>0, SMTT(60) DEF TypeOK, PlaceInv, Works
    <2> QED
      BY <2>1, WorkFrame, Zenon
  <1>4. TableInv'
    BY <1>0, SMTT(60) DEF TypeOK, PlaceInv, WorkInv, TableInv, ReasonInv, Computing
  <1>5. ReasonInv'
    <2>1. RecordInv'
      BY <1>0, SMTT(60) DEF TypeOK, PlaceInv, WorkInv, ReasonInv, RecordInv
    <2>2. ASSUME NEW g \in Flights, Cancellable(g)'
          PROVE  Cancellable(g) /\ \A u \in Tasks : Cancels(u, g) => Cancels(u, g)'
      BY <2>2, SMTT(60) DEF TypeOK, PlaceInv, ReasonInv, Cancels, Cancellable
    <2> QED
      BY <2>1, <2>2, ReasonFrame, Zenon
  <1>6. SubscriberInv'
    <2>1. /\ UNCHANGED subscribers
          /\ \A g \in Flights : Subscribed(g)' = Subscribed(g)
      BY <1>0, SMTT(60) DEF TypeOK, PlaceInv, Subscribed
    <2>2. /\ \A g \in Flights : state'[g] \in {"Owned", "LeaseLost", "Finished"} => state'[g] = state[g]
          /\ \A g \in Flights : reason[g] \in CancelReasons => reason'[g] \in CancelReasons
          /\ \A d \in Callers : pc[d] = "drop" => pc'[d] = "drop"
      BY <1>0, SMTT(60) DEF TypeOK, PlaceInv
    <2> QED
      BY <2>1, <2>2, SubscriberFrame, Zenon
  <1>7. LeaderInv'
    BY <1>0, SMTT(60) DEF TypeOK, PlaceInv, LeaderInv
  <1>8. ResultInv'
    BY <1>0, SMTT(60) DEF TypeOK, PlaceInv, ResultInv
  <1>9. OwnedResultHasOneTaker'
    BY <1>0, SMTT(60) DEF TypeOK, PlaceInv, ResultInv, OwnedResultHasOneTaker
  <1> QED
    BY <1>1, <1>2, <1>3, <1>4, <1>5, <1>6, <1>7, <1>8, <1>9, Zenon DEF SharedInv

\* A shared or cancelled result is copied, a consumed one panics.
LEMMA TryCopiedPreserves ==
    ASSUME SharedInv, NEW c \in Callers, pc[c] = "try", TryCopied(c),
           UNCHANGED <<table, subscribers, runnable, reason, wakers, polls, armed,
                       leader, polled, term, notified>>
    PROVE  SharedInv'
  <1> /\ TypeOK /\ PlaceInv /\ WorkInv /\ TableInv /\ ReasonInv
      /\ SubscriberInv /\ LeaderInv /\ ResultInv /\ OwnedResultHasOneTaker
    BY Zenon DEF SharedInv
  <1> USE NoFlightAssumption, DisjointAssumption, ReasonsAssumption
      DEF Tasks, Live, Working, Cancelling,
          Goto, flightVars, TryCopied
  <1>0. on[c] \in Flights /\ c \in Subscribed(on[c]) /\ c \in Tasks
    BY SMTT(60) DEF TypeOK, PlaceInv, Subscribed
  <1>1. TypeOK'
    <2>1. got' \in [Callers -> {"none", "Owned", "Shared", "Panicked", "FollowerPanicked",
                             "Cancelled", "Unwound"}]
      BY <1>0, MaxPollsAssumption, Zenon DEF TypeOK, PlaceInv, Terminal, DriverPlaces, CallerPlaces
    <2>2. pc' \in [Tasks -> CallerPlaces \cup DriverPlaces]
      BY <1>0, MaxPollsAssumption, Zenon DEF TypeOK, PlaceInv, Terminal, DriverPlaces, CallerPlaces
    <2> QED
      BY <2>1, <2>2, Zenon DEF TypeOK
  <1>2. PlaceInv'
    BY OutcomesAssumption, SMTT(60) DEF TypeOK, PlaceInv, Terminal, DriverPlaces, CallerPlaces
  <1>3. WorkInv'
    <2>1. /\ \A g \in Flights : state'[g] = "Polling" <=> state[g] = "Polling"
          /\ \A g \in Flights, u \in Tasks : Works(u, g)' <=> Works(u, g)
      BY <1>0, Zenon DEF TypeOK, PlaceInv, Works
    <2> QED
      BY <2>1, WorkFrame, Zenon
  <1>4. TableInv'
    BY <1>0, SMTT(60) DEF TypeOK, PlaceInv, WorkInv, TableInv, ReasonInv, Computing
  <1>5. ReasonInv'
    <2>1. RecordInv'
      BY <1>0, SMTT(60) DEF TypeOK, PlaceInv, WorkInv, ReasonInv, RecordInv
    <2>2. ASSUME NEW g \in Flights, Cancellable(g)'
          PROVE  Cancellable(g) /\ \A u \in Tasks : Cancels(u, g) => Cancels(u, g)'
      BY <2>2, Zenon DEF TypeOK, PlaceInv, ReasonInv, Cancels, Cancellable
    <2> QED
      BY <2>1, <2>2, ReasonFrame, Zenon
  <1>6. SubscriberInv'
    <2>1. /\ UNCHANGED subscribers
          /\ \A g \in Flights : Subscribed(g)' = Subscribed(g)
      BY <1>0, SMTT(60) DEF TypeOK, PlaceInv, Subscribed
    <2>2. /\ \A g \in Flights : state'[g] \in {"Owned", "LeaseLost", "Finished"} => state'[g] = state[g]
          /\ \A g \in Flights : reason[g] \in CancelReasons => reason'[g] \in CancelReasons
          /\ \A d \in Callers : pc[d] = "drop" => pc'[d] = "drop"
      BY <1>0, Zenon DEF TypeOK, PlaceInv
    <2> QED
      BY <2>1, <2>2, SubscriberFrame, Zenon
  <1>7. LeaderInv'
    BY <1>0, SMTT(60) DEF TypeOK, PlaceInv, LeaderInv
  <1>8. ResultInv'
    BY <1>0, SMTT(60) DEF TypeOK, PlaceInv, ResultInv
  <1>9. OwnedResultHasOneTaker'
    BY <1>0, SMTT(60) DEF TypeOK, PlaceInv, ResultInv, OwnedResultHasOneTaker
  <1> QED
    BY <1>1, <1>2, <1>3, <1>4, <1>5, <1>6, <1>7, <1>8, <1>9, Zenon DEF SharedInv

\* A caller is counted in the listed flight, which still has something to hand out or was cancelled.
LEMMA JoinPreserves ==
    ASSUME Counting, SharedInv, NEW c \in Callers, pc[c] = "idle", Join(c),
           UNCHANGED <<reason, wakers, polls, armed, polled, term, got, notified>>
    PROVE  SharedInv'
  <1> /\ TypeOK /\ PlaceInv /\ WorkInv /\ TableInv /\ ReasonInv
      /\ SubscriberInv /\ LeaderInv /\ ResultInv /\ OwnedResultHasOneTaker
    BY Zenon DEF SharedInv
  <1> USE NoFlightAssumption, DisjointAssumption, ReasonsAssumption
      DEF Tasks, Live, Working, Cancelling,
          Goto, flightVars, Join
  <1>0. /\ table \in Flights /\ c \in Tasks
        /\ c \notin Subscribed(table) /\ Subscribed(table) \subseteq Callers
    BY Zenon DEF TypeOK, PlaceInv, Subscribed
  <1>a. /\ Cardinality(Subscribed(table) \cup {c}) = subscribers[table] + 1
        /\ subscribers[table] + 1 \in 0 .. Cardinality(Callers)
    BY <1>0, OneJoins, Zenon DEF SubscriberInv
  <1>b. /\ \A g \in Flights : Subscribed(g)' = IF g = table THEN Subscribed(g) \cup {c} ELSE Subscribed(g)
        /\ \A g \in Flights : subscribers'[g] = IF g = table THEN subscribers[g] + 1 ELSE subscribers[g]
    BY <1>0, SMTT(60) DEF TypeOK, PlaceInv, Subscribed
  <1>1. TypeOK'
    <2>1. subscribers' \in [Flights -> 0 .. Cardinality(Callers)]
      BY <1>0, <1>a, MaxPollsAssumption, Zenon DEF TypeOK, PlaceInv, Terminal, DriverPlaces, CallerPlaces
    <2>2. on' \in [Tasks -> Flights \cup {NoFlight}]
      BY <1>0, <1>a, MaxPollsAssumption, Zenon DEF TypeOK, PlaceInv, Terminal, DriverPlaces, CallerPlaces
    <2>3. pc' \in [Tasks -> CallerPlaces \cup DriverPlaces]
      BY <1>0, <1>a, MaxPollsAssumption, Zenon DEF TypeOK, PlaceInv, Terminal, DriverPlaces, CallerPlaces
    <2> QED
      BY <2>1, <2>2, <2>3, Zenon DEF TypeOK
  <1>2. PlaceInv'
    BY OutcomesAssumption, SMTT(60) DEF TypeOK, PlaceInv, Terminal, DriverPlaces, CallerPlaces
  <1>3. WorkInv'
    <2>1. /\ \A g \in Flights : state'[g] = "Polling" <=> state[g] = "Polling"
          /\ \A g \in Flights, u \in Tasks : Works(u, g)' <=> Works(u, g)
      BY <1>0, Zenon DEF TypeOK, PlaceInv, Works
    <2> QED
      BY <2>1, WorkFrame, Zenon
  <1>4. TableInv'
    BY <1>0, SMTT(60) DEF TypeOK, PlaceInv, WorkInv, TableInv, ReasonInv, Computing
  <1>5. ReasonInv'
    <2>1. RecordInv'
      BY <1>0, SMTT(60) DEF TypeOK, PlaceInv, WorkInv, ReasonInv, RecordInv
    <2>2. ASSUME NEW g \in Flights, Cancellable(g)'
          PROVE  Cancellable(g) /\ \A u \in Tasks : Cancels(u, g) => Cancels(u, g)'
      BY <2>2, Zenon DEF TypeOK, PlaceInv, ReasonInv, Cancels, Cancellable
    <2> QED
      BY <2>1, <2>2, ReasonFrame, Zenon
  <1>6. SubscriberInv'
    <2>1. ASSUME NEW g \in Flights
          PROVE  subscribers'[g] = Cardinality(Subscribed(g))'
      <3>1. CASE g = table
        <4>1. Subscribed(g)' = Subscribed(table) \cup {c} /\ subscribers'[g] = subscribers[table] + 1
          BY <3>1, <1>b, Zenon
        <4> QED
          BY <4>1, <1>a, Zenon
      <3>2. CASE g # table
        <4>1. Subscribed(g)' = Subscribed(g) /\ subscribers'[g] = subscribers[g]
          BY <3>2, <1>b, Zenon
        <4> QED
          BY <4>1, Zenon DEF SubscriberInv
      <3> QED
        BY <3>1, <3>2, Zenon
    <2>2. /\ state[table] \notin {"Owned", "LeaseLost"}
          /\ state[table] = "Finished" => reason[table] \in CancelReasons
      BY <1>0, Zenon DEF TableInv
    <2>3. \A d \in Callers : pc[d] = "drop" => pc'[d] = "drop"
      BY <1>0, Zenon DEF TypeOK
    <2>4. \A g \in Flights : \A d \in Subscribed(g) : d \in Callers
      BY Zenon DEF Subscribed
    <2> QED
      BY <1>0, <1>b, <2>1, <2>2, <2>3, <2>4, Zenon DEF SubscriberInv
  <1>7. LeaderInv'
    BY <1>0, SMTT(60) DEF TypeOK, PlaceInv, TableInv, LeaderInv
  <1>8. ResultInv'
    BY <1>0, Zenon DEF TypeOK, PlaceInv, TableInv, ResultInv
  <1>9. OwnedResultHasOneTaker'
    BY <1>0, SMTT(60) DEF TypeOK, PlaceInv, TableInv, ResultInv, OwnedResultHasOneTaker
  <1> QED
    BY <1>1, <1>2, <1>3, <1>4, <1>5, <1>6, <1>7, <1>8, <1>9, Zenon DEF SharedInv

\* A caller leads a flight nobody has seen.
LEMMA LeadPreserves ==
    ASSUME Counting, SharedInv, NEW c \in Callers, NEW f \in Flights, pc[c] = "idle",
           table = NoFlight, state[f] = "Unborn",
           table' = f, state' = [state EXCEPT ![f] = "Starting"],
           subscribers' = [subscribers EXCEPT ![f] = 1], runnable' = [runnable EXCEPT ![f] = TRUE],
           leader' = [leader EXCEPT ![c] = TRUE], on' = [on EXCEPT ![c] = f], Goto(c, "prepare"),
           UNCHANGED <<reason, wakers, polls, armed, polled, term, got, notified>>
    PROVE  SharedInv'
  <1> /\ TypeOK /\ PlaceInv /\ WorkInv /\ TableInv /\ ReasonInv
      /\ SubscriberInv /\ LeaderInv /\ ResultInv /\ OwnedResultHasOneTaker
    BY Zenon DEF SharedInv
  <1> USE NoFlightAssumption, DisjointAssumption, ReasonsAssumption
      DEF Tasks, Live, Working, Cancelling,
          Goto, flightVars
  <1>0. c \in Tasks /\ f \in Tasks /\ pc[f] = "idle" /\ reason[f] = "none" /\ (\A t \in Tasks : on[t] # f)
    BY Zenon DEF TypeOK, PlaceInv
  <1>a. /\ \A g \in Flights : Subscribed(g)' = IF g = f THEN {c} ELSE Subscribed(g)
        /\ \A g \in Flights : subscribers'[g] = IF g = f THEN 1 ELSE subscribers[g]
    BY <1>0, SMTT(60) DEF TypeOK, PlaceInv, Subscribed
  <1>b. Cardinality({c}) = 1 /\ 1 \in 0 .. Cardinality(Callers)
    <2>1. {c} \in SUBSET Callers /\ c \in {c}
      BY Zenon
    <2>2. Cardinality({c}) = 1
      BY <2>1, OneLeaves, Zenon
    <2>3. Cardinality({c}) \in 1 .. Cardinality(Callers)
      BY <2>1, OneLeaves, Zenon
    <2>4. Cardinality(Callers) \in Nat
      BY Zenon DEF Counting
    <2> QED
      BY <2>2, <2>3, <2>4
  <1>1. TypeOK'
    <2>1. table' \in Flights \cup {NoFlight}
      BY <1>0, <1>b, MaxPollsAssumption, Zenon DEF TypeOK, PlaceInv, Terminal, DriverPlaces, CallerPlaces
    <2>2. state' \in [Flights -> {"Unborn", "Finished"} \cup Live \cup Terminal]
      BY <1>0, <1>b, MaxPollsAssumption, Zenon DEF TypeOK, PlaceInv, Terminal, DriverPlaces, CallerPlaces
    <2>3. subscribers' \in [Flights -> 0 .. Cardinality(Callers)]
      BY <1>0, <1>b, MaxPollsAssumption, Zenon DEF TypeOK, PlaceInv, Terminal, DriverPlaces, CallerPlaces
    <2>4. runnable' \in [Flights -> BOOLEAN]
      BY <1>0, <1>b, MaxPollsAssumption, Zenon DEF TypeOK, PlaceInv, Terminal, DriverPlaces, CallerPlaces
    <2>5. leader' \in [Callers -> BOOLEAN]
      BY <1>0, <1>b, MaxPollsAssumption, Zenon DEF TypeOK, PlaceInv, Terminal, DriverPlaces, CallerPlaces
    <2>6. on' \in [Tasks -> Flights \cup {NoFlight}]
      BY <1>0, <1>b, MaxPollsAssumption, Zenon DEF TypeOK, PlaceInv, Terminal, DriverPlaces, CallerPlaces
    <2>7. pc' \in [Tasks -> CallerPlaces \cup DriverPlaces]
      BY <1>0, <1>b, MaxPollsAssumption, Zenon DEF TypeOK, PlaceInv, Terminal, DriverPlaces, CallerPlaces
    <2> QED
      BY <2>1, <2>2, <2>3, <2>4, <2>5, <2>6, <2>7, Zenon DEF TypeOK
  <1>2. PlaceInv'
    BY OutcomesAssumption, SMTT(60) DEF TypeOK, PlaceInv, Terminal, DriverPlaces, CallerPlaces
  <1>3. WorkInv'
    <2>1. /\ \A g \in Flights : state'[g] = "Polling" <=> state[g] = "Polling"
          /\ \A g \in Flights, u \in Tasks : Works(u, g)' <=> Works(u, g)
      BY <1>0, SMTT(60) DEF TypeOK, PlaceInv, Works
    <2> QED
      BY <2>1, WorkFrame, Zenon
  <1>4. TableInv'
    BY <1>0, SMTT(60) DEF TypeOK, PlaceInv, WorkInv, TableInv, ReasonInv, Computing
  <1>5. ReasonInv'
    <2>1. RecordInv'
      BY <1>0, SMTT(60) DEF TypeOK, PlaceInv, WorkInv, ReasonInv, RecordInv
    <2>2. ASSUME NEW g \in Flights, Cancellable(g)'
          PROVE  Cancellable(g) /\ \A u \in Tasks : Cancels(u, g) => Cancels(u, g)'
      BY <2>2, SMTT(60) DEF TypeOK, PlaceInv, ReasonInv, Cancels, Cancellable
    <2> QED
      BY <2>1, <2>2, ReasonFrame, Zenon
  <1>6. SubscriberInv'
    <2>1. ASSUME NEW g \in Flights
          PROVE  subscribers'[g] = Cardinality(Subscribed(g))'
      <3>1. CASE g = f
        BY <3>1, <1>a, <1>b, Zenon
      <3>2. CASE g # f
        BY <3>2, <1>a, Zenon DEF SubscriberInv
      <3> QED
        BY <3>1, <3>2, Zenon
    <2>2. state'[f] = "Starting" /\ \A g \in Flights : g # f => state'[g] = state[g]
      BY Zenon DEF TypeOK
    <2>3. \A d \in Callers : pc[d] = "drop" => pc'[d] = "drop"
      BY <1>0, Zenon DEF TypeOK
    <2>4. \A g \in Flights : \A d \in Subscribed(g) : d \in Callers
      BY Zenon DEF Subscribed
    <2>5. ASSUME NEW g \in Flights
          PROVE  /\ state'[g] \in {"Owned", "LeaseLost"} => subscribers'[g] <= 1
                 /\ state'[g] = "Finished" /\ reason'[g] \notin CancelReasons
                     => \A d \in Subscribed(g)' : pc'[d] = "drop"
      <3>1. CASE g = f
        BY <3>1, <2>2, Zenon
      <3>2. CASE g # f
        BY <3>2, <1>a, <2>2, <2>3, <2>4, Zenon DEF SubscriberInv
      <3> QED
        BY <3>1, <3>2, Zenon
    <2> QED
      BY <2>1, <2>5, Zenon DEF SubscriberInv
  <1>7. LeaderInv'
    BY <1>0, SMTT(60) DEF TypeOK, PlaceInv, LeaderInv
  <1>8. ResultInv'
    BY <1>0, SMTT(60) DEF TypeOK, PlaceInv, ResultInv
  <1>9. OwnedResultHasOneTaker'
    BY <1>0, SMTT(60) DEF TypeOK, PlaceInv, ResultInv, OwnedResultHasOneTaker
  <1> QED
    BY <1>1, <1>2, <1>3, <1>4, <1>5, <1>6, <1>7, <1>8, <1>9, Zenon DEF SharedInv

-------------------------------------------------------------------------------
(* Counting. *)

\* Callers are finitely many, so their sets can be counted.
LEMMA CountingHolds == Counting
  <1>1. Cardinality(Callers) \in Nat
    BY CallersAssumption, FS_CardinalityType, Zenon
  <1>2. ASSUME NEW S \in SUBSET Callers
        PROVE  /\ IsFiniteSet(S) /\ Cardinality(S) \in Nat
               /\ Cardinality(S) <= Cardinality(Callers)
               /\ Cardinality(S) = 0 <=> S = {}
    BY CallersAssumption, FS_Subset, FS_CardinalityType, FS_EmptySet, Zenon
  <1>3. ASSUME NEW S \in SUBSET Callers, NEW c \in S
        PROVE  /\ Cardinality(S \ {c}) = Cardinality(S) - 1
               /\ Cardinality(S) \in 1 .. Cardinality(Callers)
               /\ Cardinality(S) = 1 <=> S = {c}
    <2>1. S \ {c} \in SUBSET Callers
      BY Zenon
    <2>2. /\ Cardinality(S \ {c}) \in Nat
          /\ Cardinality(S \ {c}) = 0 <=> S \ {c} = {}
      BY <2>1, <1>2, Zenon
    <2>3. /\ IsFiniteSet(S) /\ Cardinality(S) \in Nat
          /\ Cardinality(S) <= Cardinality(Callers)
      BY <1>2, Zenon
    <2>4. Cardinality(S \ {c}) = Cardinality(S) - 1
      BY <2>3, FS_RemoveElement, Zenon
    <2>5. S \ {c} = {} <=> S = {c}
      BY Zenon
    <2> QED
      BY <1>1, <2>2, <2>3, <2>4, <2>5
  <1>4. ASSUME NEW S \in SUBSET Callers, NEW c \in Callers \ S
        PROVE  /\ Cardinality(S \cup {c}) = Cardinality(S) + 1
               /\ Cardinality(S) + 1 \in 0 .. Cardinality(Callers)
    <2>1. S \cup {c} \in SUBSET Callers
      BY Zenon
    <2>2. Cardinality(S \cup {c}) <= Cardinality(Callers)
      BY <2>1, <1>2, Zenon
    <2>3. IsFiniteSet(S) /\ Cardinality(S) \in Nat
      BY <1>2, Zenon
    <2>4. Cardinality(S \cup {c}) = Cardinality(S) + 1
      BY <2>3, FS_AddElement, Zenon
    <2> QED
      BY <1>1, <2>2, <2>3, <2>4
  <1> QED
    BY <1>1, <1>2, <1>3, <1>4, Zenon DEF Counting

-------------------------------------------------------------------------------
(* The theorems *)

\* Nobody has called yet.
LEMMA InitShared == Init => SharedInv
  <1> SUFFICES ASSUME Init PROVE SharedInv
    BY Zenon
  <1> USE NoFlightAssumption, DisjointAssumption, ReasonsAssumption
      DEF Init, Tasks, Live, Terminal, Working, Cancelling, DriverPlaces, CallerPlaces
  <1>1. TypeOK
    <2>1. Cardinality(Callers) \in Nat
      BY CallersAssumption, FS_CardinalityType, Zenon
    <2> QED
      BY <2>1, MaxPollsAssumption DEF TypeOK
  <1>2. PlaceInv
    BY Zenon DEF PlaceInv
  <1>3. WorkInv
    BY Zenon DEF WorkInv
  <1>4. TableInv
    BY Zenon DEF TableInv, Computing
  <1>5. ReasonInv
    BY Zenon DEF ReasonInv
  <1>6. SubscriberInv
    <2>1. \A f \in Flights : Subscribed(f) = {}
      BY Zenon DEF Subscribed
    <2>2. Cardinality({}) = 0
      BY FS_EmptySet, Zenon
    <2> QED
      BY <2>1, <2>2, Zenon DEF SubscriberInv
  <1>7. LeaderInv
    BY Zenon DEF LeaderInv
  <1>8. ResultInv
    BY Zenon DEF ResultInv
  <1>9. OwnedResultHasOneTaker
    BY Zenon DEF OwnedResultHasOneTaker
  <1> QED
    BY <1>1, <1>2, <1>3, <1>4, <1>5, <1>6, <1>7, <1>8, <1>9, Zenon DEF SharedInv

LEMMA AcquirePreserves ==
    ASSUME SharedInv, NEW c \in Callers, Acquire(c)
    PROVE  SharedInv'
  <1>1. CASE Lead(c)
    BY <1>1, CountingHolds, LeadPreserves, Zenon DEF Acquire, Lead
  <1>2. CASE Join(c)
    BY <1>2, CountingHolds, JoinPreserves, Zenon DEF Acquire
  <1> QED
    BY <1>1, <1>2, Zenon DEF Acquire

LEMMA TryCompletePreserves ==
    ASSUME SharedInv, NEW c \in Callers, TryComplete(c)
    PROVE  SharedInv'
  <1>1. /\ pc[c] = "try"
        /\ UNCHANGED <<table, subscribers, runnable, reason, wakers, polls, armed,
                       leader, polled, term, notified>>
    BY Zenon DEF TryComplete
  <1>2. CASE TryPends(c)
    BY <1>1, <1>2, TryPendsPreserves, Zenon
  <1>3. CASE TrySpawns(c)
    BY <1>1, <1>3, TrySpawnsPreserves, Zenon
  <1>4. CASE TryOwned(c)
    BY <1>1, <1>4, CountingHolds, TryOwnedPreserves, Zenon
  <1>5. CASE TryPanicked(c)
    BY <1>1, <1>5, TryPanickedPreserves, Zenon
  <1>6. CASE TryCopied(c)
    BY <1>1, <1>6, TryCopiedPreserves, Zenon
  <1> QED
    BY <1>2, <1>3, <1>4, <1>5, <1>6, Zenon DEF TryComplete

\* A step that changes nothing.
LEMMA StutterPreserves == SharedInv /\ UNCHANGED vars => SharedInv'
  <1> SUFFICES ASSUME SharedInv, UNCHANGED vars PROVE SharedInv'
    BY Zenon
  <1>1. /\ UNCHANGED <<table, state, subscribers, runnable, reason, wakers, polls, armed>>
        /\ UNCHANGED <<pc, on, leader, polled, term, got, notified>>
    BY Zenon DEF vars, flightVars, taskVars
  <1>2. TypeOK' /\ PlaceInv' /\ WorkInv'
    BY <1>1, Zenon DEF SharedInv, TypeOK, PlaceInv, WorkInv
  <1>3. TableInv' /\ ReasonInv'
    BY <1>1 DEF SharedInv, TableInv, Computing, ReasonInv
  <1>4. SubscriberInv'
    BY <1>1, Zenon DEF SharedInv, SubscriberInv, Subscribed
  <1>5. LeaderInv' /\ ResultInv' /\ OwnedResultHasOneTaker'
    BY <1>1 DEF SharedInv, LeaderInv, ResultInv, OwnedResultHasOneTaker
  <1> QED
    BY <1>2, <1>3, <1>4, <1>5, Zenon DEF SharedInv

LEMMA NextPreserves == SharedInv /\ [Next]_vars => SharedInv'
  <1> SUFFICES ASSUME SharedInv, [Next]_vars PROVE SharedInv'
    BY Zenon
  <1>1. ASSUME NEW t \in Callers \cup Flights, Driven(t)
        PROVE  SharedInv'
    <2>1. t \in Tasks
      BY Zenon DEF Tasks
    <2> QED
      BY <1>1, <2>1, CountingHolds, AwaitPreserves, PollWorkPreserves, UserEndsPreserves, UserPendsPreserves,
         RequeuePreserves, RecheckPreserves, PublishPreserves, FinishPreserves,
         CancelStatePreserves, CancelUnlistPreserves, CancelNotifyPreserves, Zenon DEF Driven
  <1>2. ASSUME NEW c \in Callers, Acquire(c) \/ Abandon(c) \/ Forget(c) \/ Called(c)
        PROVE  SharedInv'
    BY <1>2, CountingHolds, AcquirePreserves, AbandonPreserves, ForgetPreserves, InstallPreserves,
       TryCompletePreserves, DropPreserves, AbandonStartPreserves, DropNotifyPreserves, Zenon DEF Called
  <1>3. ASSUME NEW f \in Flights, UserWakes(f) \/ DriverChecks(f)
        PROVE  SharedInv'
    BY <1>3, UserWakesPreserves, DriverChecksPreserves, Zenon
  <1>4. ASSUME \/ CancelBegins
               \/ CancelState(Canceller) \/ CancelUnlist(Canceller) \/ CancelNotify(Canceller)
        PROVE  SharedInv'
    <2>1. Canceller \in Tasks
      BY Zenon DEF Tasks
    <2> QED
      BY <1>4, <2>1, CancelBeginsPreserves, CancelStatePreserves, CancelUnlistPreserves,
         CancelNotifyPreserves, Zenon
  <1>5. CASE UNCHANGED vars
    BY <1>5, StutterPreserves, Zenon
  <1> QED
    BY <1>1, <1>2, <1>3, <1>4, <1>5, Zenon DEF Next

\* What the inductive invariant says about the computation of a key.
LEMMA SharedImplies ==
    SharedInv => FlightInv /\ PanicPayloadHasOneTaker
  <1> SUFFICES ASSUME SharedInv PROVE FlightInv /\ PanicPayloadHasOneTaker
    BY Zenon
  <1>1. OneComputation
    BY NoFlightAssumption, Zenon DEF SharedInv, TableInv, OneComputation
  <1>2. FinishedOnlyIfCancelled
    <2> SUFFICES ASSUME NEW c \in Callers, pc[c] = "try", state[on[c]] = "Finished",
                        reason[on[c]] \notin CancelReasons
                 PROVE  FALSE
      BY Zenon DEF FinishedOnlyIfCancelled
    <2>1. on[c] \in Flights /\ c \in Subscribed(on[c])
      BY DEF SharedInv, TypeOK, PlaceInv, Tasks, Subscribed
    <2> QED
      BY <2>1, Zenon DEF SharedInv, SubscriberInv
  <1>3. CancellationSticks
    <2> SUFFICES ASSUME NEW f \in Flights, reason[f] \in CancelReasons, state[f] \in Live,
                        \A t \in Tasks : on[t] # f \/ pc[t] \in {"idle", "prepare", "try", "await", "poll",
                                                    "drop", "abandon", "drop_notify", "done"}
                 PROVE  FALSE
      BY Zenon DEF CancellationSticks
    <2>1. CASE state[f] = "Polling"
      BY <2>1, Zenon DEF SharedInv, WorkInv, Working
    <2>2. CASE state[f] \in {"Starting", "Pending"}
      BY <2>2, Zenon DEF SharedInv, ReasonInv
    <2> QED
      BY <2>1, <2>2, Zenon DEF Live
  <1>4. PanicPayloadHasOneTaker
    BY Zenon DEF SharedInv, ResultInv, LeaderInv, PanicPayloadHasOneTaker
  <1> QED
    BY <1>1, <1>2, <1>3, <1>4, Zenon DEF FlightInv, SharedInv

\* For any number of callers and flights: two factories of a key run at once only if one
\* was cancelled, a subscription that was not consumed panics ("completed subscription
\* polled again") only on a cancelled flight, and no cancellation is lost in poll_work.
THEOREM FlightSafe == Spec => []FlightInv
  <1>1. Init => SharedInv
    BY InitShared, Zenon
  <1>2. SharedInv /\ [Next]_vars => SharedInv'
    BY NextPreserves, Zenon
  <1>3. SharedInv => FlightInv
    BY SharedImplies, Zenon
  <1> QED
    BY <1>1, <1>2, <1>3, PTL DEF Spec

\* For any number of callers: an owned result reaches one caller, and so does the payload
\* of a panic, the leader's (try_complete).
THEOREM OneTaker == Spec => []ResultsHaveOneTaker
  <1>1. Init => SharedInv
    BY InitShared, Zenon
  <1>2. SharedInv /\ [Next]_vars => SharedInv'
    BY NextPreserves, Zenon
  <1>3. SharedInv => ResultsHaveOneTaker
    BY SharedImplies, Zenon DEF SharedInv, ResultsHaveOneTaker
  <1> QED
    BY <1>1, <1>2, <1>3, PTL DEF Spec

=================================================================================
