------------------------------ MODULE MCChordRing ------------------------------
(* The instance of ChordRing for TLC: four servers, three if a datagram is repeated. *)
EXTENDS ChordRing

MCNode == {1, 3, 4, 6}

FewWhenCopied == copied > 0 => Cardinality(started) <= 3
===============================================================================
