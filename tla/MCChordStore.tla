------------------------------ MODULE MCChordStore ------------------------------
(* Instances of ChordStore for TLC: three servers, two keys with different homes. *)
EXTENDS ChordStore, TLC

CONSTANTS c1, c2

MCNode    == {1, 3, 4, 6}
MCMember  == {1, 4, 6}
MCClient  == {c1, c2}
MCSymmetry == Permutations(MCClient)
MCTids    == (c1 :> 0) @@ (c2 :> 0)  \* both run client.c
MCOwnTids == (c1 :> 0) @@ (c2 :> 1)  \* clients that number their requests
MCKey     == {"k3", "k4"}
MCHash    == ("k3" :> 3) @@ ("k4" :> 4) @@ ("" :> 7)
MCValue   == {"", "v", "long"}
MCSize    == ("" :> 0) @@ ("v" :> 1) @@ ("long" :> 4) @@ ("cut" :> 0)
MCRequest ==
    {[op |-> {"set"}, key |-> k, val |-> "long"] : k \in MCKey}
    \cup {[op |-> {"get"}, key |-> "k4", val |-> v] : v \in {"v", "long"}}
    \cup {[op |-> {"del"}, key |-> "k4", val |-> ""]}
===============================================================================
