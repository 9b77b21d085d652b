SPECIFICATION FairSpec
CONSTANTS
    Callers = {c1, c2}
    Flights = {f1, f2}
    Canceller = canceller
    NoFlight = NoFlight
    CancelReasons = {"LeaseLost"}
    CanExecute = {c1}
    Outcomes = {"LeaseLost", "Panicked"}
    MaxPolls = 1
CHECK_DEADLOCK FALSE
INVARIANTS FlightInv ResultsHaveOneTaker
PROPERTIES EveryCallerIsAnswered
