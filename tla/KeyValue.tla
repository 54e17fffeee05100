-------------------------------- MODULE KeyValue --------------------------------
(***************************************************************************)
(* What a store of keys promises to its clients: each client asks once,    *)
(* and some time later its request is applied to the one store, at once    *)
(* and only once; the answer says what the request found there.            *)
(***************************************************************************)
CONSTANTS Client, Key, Value, Request, NoReply,
          Result(_, _),  \* the answer to a request that finds a value under its key
          Effect(_, _)   \* what the request leaves there

VARIABLES store,  \* the value of each key
          asked,  \* the request of each client
          answer  \* the answer to each client

kvVars == <<store, asked, answer>>

KVInit ==
    /\ store \in [Key -> Value]
    /\ asked = [c \in Client |-> NoReply]
    /\ answer = [c \in Client |-> NoReply]

Ask(c, r) ==
    /\ asked[c] = NoReply
    /\ asked' = [asked EXCEPT ![c] = r]
    /\ UNCHANGED <<store, answer>>

Apply(c) ==
    /\ asked[c] # NoReply /\ answer[c] = NoReply
    /\ answer' = [answer EXCEPT ![c] = Result(asked[c], store[asked[c].key])]
    /\ store' = [store EXCEPT ![asked[c].key] = Effect(asked[c], @)]
    /\ UNCHANGED asked

KVNext == \E c \in Client : Apply(c) \/ \E r \in Request : Ask(c, r)

KVSpec == KVInit /\ [][KVNext]_kvVars
===============================================================================
