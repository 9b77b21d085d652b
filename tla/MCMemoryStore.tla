---------------------------- MODULE MCMemoryStore ----------------------------
(***************************************************************************)
(* Small instances of MemoryStore.                                         *)
(***************************************************************************)
EXTENDS MemoryStore, TLC

CONSTANTS k1, k2, o1, o2

\* Only a capacity-limited store tells ranks apart.
MCShapes ==
    LET light    == [weight |-> 1, rank |-> 1, dies |-> 2, hydrated |-> FALSE]
        heavy    == [weight |-> 2, rank |-> 3, dies |-> 1, hydrated |-> FALSE]
        hydrated == [weight |-> 1, rank |-> 2, dies |-> 2, hydrated |-> TRUE]
    IN  [b \in Backends |-> IF b = "retained" THEN {light, heavy, hydrated} ELSE {heavy, hydrated}]

MCSymmetry == Permutations(Keys)

=============================================================================
