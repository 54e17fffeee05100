----------------------------- MODULE MCRemoteTable -----------------------------
(***************************************************************************)
(* A film client with a film that comes again in its list, as the list is  *)
(* repeated when it is short (client.c:356).                               *)
(***************************************************************************)
EXTENDS RemoteTable

CONSTANTS c1, s1, a, b

MCFilms == c1 :> <<a, b, a>>

\* A program that connects and sends nothing, or a part of a header; and one that sets
\* the empty key, as test_server.c:31 does.
Strangers ==
    {[action |-> {}, key |-> NoKey, value |-> s1, whole |-> "nothing"],
     [action |-> {"set"}, key |-> NoKey, value |-> s1, whole |-> "all"]}
===============================================================================
