------------------------------- MODULE MCGoBackN -------------------------------
(* Instances of GoBackN for TLC: files of a few distinct chunks. *)
EXTENDS GoBackN

MCChunk   == {"c1", "c2", "c3", "c4", "c5"}
MCPayload == {<<>>} \cup {<<c>> : c \in MCChunk}
MCFile5   == <<"c1", "c2", "c3", "c4", "c5">>
MCFile3   == <<"c1", "c2", "c3">>
===============================================================================
