---------------------------- MODULE MCFilmDatabase ----------------------------
(* Instances of FilmDatabase for TLC: three of four titles share a list of the *)
(* smallest table, and two share it in the next.                               *)
EXTENDS FilmDatabase, TLC

MCNoValue == -1
MCOne   == {1}
MCTwo   == {1, 2}
MCBlock == 1 .. 11
MCKey  == {"a", "b", "c", "d"}
MCHash == ("a" :> 0) @@ ("b" :> 3) @@ ("c" :> 6) @@ ("d" :> 1)
MCBody == {"x", "y"}
MCFilm == [title : MCKey, body : MCBody]

MCRequest ==
    {[method |-> "list"], [method |-> "reset"]}
    \cup {[method |-> "post", film |-> m] : m \in {n \in MCFilm : n.body = "x"} \cup {NoFilm}}
    \cup {[method |-> "get", id |-> i] : i \in {1, 4}}
    \cup {[method |-> "delete", id |-> i] : i \in {0, 3}}
    \cup {[method |-> "put", id |-> 1, film |-> m] :
             m \in {n \in MCFilm : n.body = "y"} \cup {NoFilm, NoData}}
===============================================================================
