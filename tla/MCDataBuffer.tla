----------------------------- MODULE MCDataBuffer -----------------------------
(* Instance of DataBufferUse for TLC. *)
EXTENDS DataBufferUse

MCPayload == {<<"a">>, <<"b">>}
===============================================================================
