----------------------------- MODULE MCReaderSlots -----------------------------
(* Three threads, two of which collide on a slot; two bitmap words. *)
EXTENDS ReaderSlots, TLC

CONSTANTS t1, t2, t3, s1, s2, g1, g2

MCThreads == {t1, t2, t3}
MCSlots == {s1, s2}
MCGroups == {g1, g2}
MCSlotOf == (t1 :> s1) @@ (t2 :> s1) @@ (t3 :> s2)
MCGroupOf == (s1 :> g1) @@ (s2 :> g2)
================================================================================
