----------------------------- MODULE FilmCatalogue -----------------------------
(***************************************************************************)
(* What the film database promises to its clients: a collection of films,  *)
(* each under a number of its own, and requests that are applied to it one *)
(* at a time, each between its arrival and its answer.                     *)
(***************************************************************************)
EXTENDS Naturals

CONSTANTS Worker, Request, Idle, NoAnswer, Film, NoFilm, NoData, MAX_FILMS

VARIABLES catalogue,  \* the film under each number
          added,      \* how many numbers are given away
          req,        \* what each worker works on
          answer      \* the answer it will give, once its request was applied

catVars == <<catalogue, added, req, answer>>

NoFilms == [i \in 0 .. MAX_FILMS - 1 |-> NoFilm]

CatInit ==
    /\ catalogue = NoFilms /\ added = 0
    /\ req = [w \in Worker |-> Idle]
    /\ answer = [w \in Worker |-> NoAnswer]

Arrive(w, r) ==
    /\ req[w] = Idle
    /\ req' = [req EXCEPT ![w] = r]
    /\ UNCHANGED <<catalogue, added, answer>>

Titles == {catalogue[i].title : i \in {j \in DOMAIN catalogue : catalogue[j] # NoFilm}}

\* The request adds a film (NoFilm: its data makes no sense).
New(r) == r.method = "post" /\ r.film # NoFilm /\ r.film.title \notin Titles

FilmAt(i) == IF i \in DOMAIN catalogue THEN catalogue[i] ELSE NoFilm

\* The answer to a request, the films that it leaves, and the numbers given away.
Outcome(r, a, films, n) ==
    \/ /\ r.method = "list"
       /\ a = [code |-> 200, items |-> {<<i, catalogue[i].title>> :
                                   i \in {j \in DOMAIN catalogue : catalogue[j] # NoFilm}}]
       /\ films = catalogue /\ n = added
    \/ /\ r.method = "post" /\ New(r)
       /\ a = [code |-> 201, id |-> added]
       /\ films = [catalogue EXCEPT ![added] = r.film] /\ n = added + 1
    \/ /\ r.method = "post" /\ ~ New(r)
       /\ a = [code |-> 404] /\ films = catalogue /\ n = added
    \/ /\ r.method = "reset"
       /\ a = [code |-> 200] /\ films = NoFilms /\ n = 0
    \/ /\ r.method \in {"get", "put", "delete"}
       /\ FilmAt(r.id) = NoFilm \/ (r.method = "put" /\ r.film = NoData)
       /\ a = [code |-> 404] /\ films = catalogue /\ n = added
    \/ /\ r.method = "get" /\ FilmAt(r.id) # NoFilm
       /\ a = [code |-> 200, film |-> FilmAt(r.id)] /\ films = catalogue /\ n = added
    \/ /\ r.method = "put" /\ FilmAt(r.id) # NoFilm /\ r.film # NoData
       /\ a = [code |-> 200] /\ films = [catalogue EXCEPT ![r.id] = r.film] /\ n = added
    \/ /\ r.method = "delete" /\ FilmAt(r.id) # NoFilm
       /\ a = [code |-> 200] /\ films = [catalogue EXCEPT ![r.id] = NoFilm] /\ n = added

Apply(w) ==
    /\ req[w] # Idle /\ answer[w] = NoAnswer
    /\ Outcome(req[w], answer'[w], catalogue', added')
    /\ \A v \in Worker \ {w} : answer'[v] = answer[v]
    /\ UNCHANGED req

Reply(w) ==
    /\ answer[w] # NoAnswer
    /\ req' = [req EXCEPT ![w] = Idle]
    /\ answer' = [answer EXCEPT ![w] = NoAnswer]
    /\ UNCHANGED <<catalogue, added>>

CatNext == \E w \in Worker : Apply(w) \/ Reply(w) \/ \E r \in Request : Arrive(w, r)

CatSpec == CatInit /\ [][CatNext]_catVars
===============================================================================
