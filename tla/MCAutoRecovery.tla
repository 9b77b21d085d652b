--------------------------- MODULE MCAutoRecovery -----------------------------
(* Small instances of AutoRecovery for TLC. *)
EXTENDS AutoRecovery, TLC

CONSTANTS d1, d2, m1, p1, p2, owned, user, c1, c2, s1, s2

===============================================================================
