---------------------------- MODULE MCSingleFlight ----------------------------
(* Two callers, one with an executor, and two flights: joining, sharing, and a *)
(* successor flight.                                                           *)
EXTENDS SingleFlight
===============================================================================
