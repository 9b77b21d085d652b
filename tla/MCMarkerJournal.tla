--------------------------- MODULE MCMarkerJournal ---------------------------
(* MarkerJournal on a node that invalidates and a peer that listens.  The     *)
(* journal has room for one tag, so invalidating the other promotes a clear,  *)
(* and already holds one the two nodes have not heard of.                     *)
EXTENDS MarkerJournal

CONSTANTS a, b, n1, n2, c1

MCHome == c1 :> n1

MCKindLists == {<<a>>, <<a, ClearExpire>>}

MCJournals == {[Default EXCEPT !.tags[b] = 1]}
==============================================================================
