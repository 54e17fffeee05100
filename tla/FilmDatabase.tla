------------------------------ MODULE FilmDatabase ------------------------------
(***************************************************************************)
(* The film database of "Onion Movie Hash Table Databse": block5.c serves  *)
(* HTTP requests in a pool of threads, on the array of films and the table *)
(* of titles of database.c, which no lock protects.  The steps of a        *)
(* request are its accesses to what the threads share.                     *)
(*                                                                         *)
(* A film is its title, the rest, and the block of memory it lives in.     *)
(* malloc takes a block that no pointer points at any more, so that every  *)
(* use of a freed film is seen.                                            *)
(***************************************************************************)
EXTENDS HashTable, FiniteSets

CONSTANTS Worker,    \* the threads of the pool
          Request,   \* the requests that clients send
          MAX_FILMS,
          Block,     \* memory for films: more than films and threads need
          Body,      \* the fields of a film other than its title
          Idle, NoFilm, NoData, NoAnswer

FilmData == [title : Key, body : Body]
Film     == [block : Block, title : Key, body : Body]

ASSUME FilmDatabaseAssumption ==
    /\ MAX_FILMS \in Nat \ {0}
    /\ IsFiniteSet(Worker) /\ IsFiniteSet(Block)
    /\ Cardinality(Block) > MAX_FILMS + 3 * Cardinality(Worker)

\* A request names its method, a film by its number (a negative number is none of a
\* film, like one that is too large), and brings the data of a film, if it makes sense -
\* a PUT may bring none at all.
ASSUME RequestAssumption ==
    Request \subseteq [method : {"list", "reset"}]
                     \cup [method : {"post"}, film : FilmData \cup {NoFilm}]
                     \cup [method : {"get", "delete"}, id : Nat]
                     \cup [method : {"put"}, id : Nat, film : FilmData \cup {NoFilm, NoData}]

ASSUME DistinctAssumption ==
    /\ Idle \notin Request /\ NoValue \notin Nat /\ NoFilm \notin Film \cup FilmData
    /\ NoData \notin FilmData \cup {NoFilm}
    /\ NoAnswer \notin [code : Nat] \cup [code : Nat, id : Nat] \cup [code : Nat, film : FilmData]
                       \cup [code : Nat, items : SUBSET (Nat \X Key)]

VARIABLES films, id_map, cur_films,  \* the fields of struct database
          db,         \* "live", or "freed" while reset_db replaces it
          allocated,  \* the blocks that hold a film
          req,        \* what each thread works on
          th,         \* its local variables, and pc, its next access
          answer,     \* its answer
          undefined   \* memory was used that is not there (any more)

shared == <<films, id_map, cur_films, db, allocated>>
vars   == <<shared, req, th, answer, undefined>>

-------------------------------------------------------------------------------
(* The local variables of a thread: the films it looked up, the film it parsed, a *)
(* number that it read, and what list_films collected so far.                     *)

Resting == [pc |-> "idle", f |-> NoFilm, prev |-> NoFilm, new |-> NoFilm,
            id |-> 0, items |-> {}]

At(w, label) == th[w].pc = label /\ ~ undefined

\* The thread goes on with these local variables.
Goto(w, locals) == th' = [th EXCEPT ![w] = locals] /\ UNCHANGED <<req, answer>>

\* The thread has its answer and forgets what it looked up.
Answer(w, a) ==
    /\ answer' = [answer EXCEPT ![w] = a]
    /\ th' = [th EXCEPT ![w] = [Resting EXCEPT !.pc = "reply"]]
    /\ UNCHANGED req

\* A step that uses memory: if it is not there, the C program has no defined
\* behaviour from here on, and the model stops.
Using(there, step) ==
    IF there THEN step /\ UNCHANGED undefined
    ELSE undefined' = TRUE /\ UNCHANGED <<shared, req, th, answer>>

Live       == db = "live"
Held(film) == film # NoFilm /\ film.block \in allocated
Data(film) == IF film = NoFilm THEN NoFilm ELSE [title |-> film.title, body |-> film.body]

Pointers == {films[i] : i \in DOMAIN films} \cup
            UNION {{th[w].f, th[w].prev, th[w].new} : w \in Worker}

\* The film that the request's data describes, NULL if it cannot be parsed, and
\* what malloc leaves allocated.
parse_film(w) ==
    IF req[w].film = NoFilm THEN NoFilm
    ELSE [block |-> CHOOSE b \in Block \ allocated :
                       \A p \in Pointers \ {NoFilm} : p.block # b,
          title |-> req[w].film.title, body |-> req[w].film.body]
Allocating(film) == allocated' = allocated \cup (IF film = NoFilm THEN {} ELSE {film.block})

-------------------------------------------------------------------------------
(* A request arrives at a thread, and is answered. *)

Entry(method) == CASE method = "list"  -> "list"
                   [] method = "post"  -> "contains"
                   [] method = "reset" -> "destroy"
                   [] OTHER            -> "lookup"

Accept(w, r) ==
    /\ At(w, "idle")
    /\ req' = [req EXCEPT ![w] = r]
    /\ th' = [th EXCEPT ![w].pc = Entry(r.method)]
    /\ UNCHANGED <<shared, answer, undefined>>

Reply(w) ==
    /\ At(w, "reply")
    /\ req' = [req EXCEPT ![w] = Idle]
    /\ th' = [th EXCEPT ![w] = Resting]
    /\ answer' = [answer EXCEPT ![w] = NoAnswer]
    /\ UNCHANGED <<shared, undefined>>

-------------------------------------------------------------------------------
(* list_films: the film under the next number, and a look at its title. *)

\* Mutant: a missing film is skipped twice.
ListNextTwice(w) ==
    LET i == th[w].id
    IN  /\ At(w, "list")
        /\ Using(Live /\ (i < cur_films => i \in DOMAIN films),
                 IF i >= cur_films THEN Answer(w, [code |-> 200, items |-> th[w].items])
                 ELSE IF films[i] = NoFilm THEN Goto(w, [th[w] EXCEPT !.id = i + 2])
                 ELSE Goto(w, [th[w] EXCEPT !.pc = "view", !.f = films[i]]))
        /\ UNCHANGED shared

ListNext(w) ==
    LET i == th[w].id
    IN  /\ At(w, "list")
        /\ Using(Live /\ (i < cur_films => i \in DOMAIN films),
                 IF i >= cur_films THEN Answer(w, [code |-> 200, items |-> th[w].items])
                 ELSE IF films[i] = NoFilm THEN Goto(w, [th[w] EXCEPT !.id = i + 1])
                 ELSE Goto(w, [th[w] EXCEPT !.pc = "view", !.f = films[i]]))
        /\ UNCHANGED shared

ListView(w) ==
    LET i == th[w].id
    IN  /\ At(w, "view")
        /\ Using(Held(th[w].f),
                 Goto(w, [th[w] EXCEPT !.pc = "list", !.id = i + 1,
                                       !.items = @ \cup {<<i, th[w].f.title>>}]))
        /\ UNCHANGED shared

-------------------------------------------------------------------------------
(* add_film and db_add.  The film of a refused request is never freed; as nobody *)
(* can use it, the model does not allocate it.                                   *)

AddCheck(w) ==
    /\ At(w, "contains")
    /\ Using(req[w].film = NoFilm \/ Live,
             IF req[w].film = NoFilm \/ ht_get_value(id_map, req[w].film.title) # NoValue
             THEN Answer(w, [code |-> 404]) /\ UNCHANGED allocated
             ELSE /\ Goto(w, [th[w] EXCEPT !.pc = "map", !.new = parse_film(w)])
                  /\ Allocating(parse_film(w)))
    /\ UNCHANGED <<films, id_map, cur_films, db>>

AddMap(w) ==
    /\ At(w, "map")
    /\ Using(Live, /\ id_map' = ht_set_value(id_map, th[w].new.title, cur_films)
                   /\ Goto(w, [th[w] EXCEPT !.pc = "store"]))
    /\ UNCHANGED <<films, cur_films, db, allocated>>

AddStore(w) ==
    /\ At(w, "store")
    /\ Using(Live /\ cur_films < MAX_FILMS,
             /\ films' = [films EXCEPT ![cur_films] = th[w].new]
             /\ Goto(w, [th[w] EXCEPT !.pc = "load"]))
    /\ UNCHANGED <<id_map, cur_films, db, allocated>>

\* cur_films++ is a load and a store.
AddLoad(w) ==
    /\ At(w, "load")
    /\ Using(Live, Goto(w, [th[w] EXCEPT !.pc = "count", !.id = cur_films]))
    /\ UNCHANGED shared

AddCount(w) ==
    /\ At(w, "count")
    /\ Using(Live, cur_films' = th[w].id + 1 /\ Goto(w, [th[w] EXCEPT !.pc = "location"]))
    /\ UNCHANGED <<films, id_map, db, allocated>>

AddLocation(w) ==
    /\ At(w, "location")
    /\ Using(Live /\ Held(th[w].new),
             Answer(w, [code |-> 201, id |-> ht_get_value(id_map, th[w].new.title)]))
    /\ UNCHANGED shared

-------------------------------------------------------------------------------
(* reset_db: everything is freed, then db is set to a new database.  (What the new *)
(* one holds is written one step early: nothing may read it in between.)           *)

\* Mutant: the films are freed, but still counted.
DestroyKeepsCount(w) ==
    LET stored == {films[i] : i \in {j \in DOMAIN films : j < cur_films}} \ {NoFilm}
    IN  /\ At(w, "destroy") /\ Live
        /\ db' = "freed"
        /\ allocated' = allocated \ {film.block : film \in stored}
        /\ films' = [i \in 0 .. MAX_FILMS - 1 |-> NoFilm]
        /\ id_map' = ht_create
        /\ Goto(w, [th[w] EXCEPT !.pc = "create"]) /\ UNCHANGED <<cur_films, undefined>>

Destroy(w) ==
    LET stored == {films[i] : i \in {j \in DOMAIN films : j < cur_films}} \ {NoFilm}
    IN  /\ At(w, "destroy")
        /\ Using(Live /\ \A film \in stored : Held(film),
                 /\ db' = "freed"
                 /\ allocated' = allocated \ {film.block : film \in stored}
                 /\ films' = [i \in 0 .. MAX_FILMS - 1 |-> NoFilm]
                 /\ id_map' = ht_create /\ cur_films' = 0
                 /\ Goto(w, [th[w] EXCEPT !.pc = "create"]))

Create(w) ==
    /\ At(w, "create")
    /\ db' = "live"
    /\ Answer(w, [code |-> 200])
    /\ UNCHANGED <<films, id_map, cur_films, allocated, undefined>>

-------------------------------------------------------------------------------
(* film_resource: db_get, then one of the three. *)

InArray(i) == i < cur_films => i \in DOMAIN films
db_get(i)  == IF i < cur_films THEN films[i] ELSE NoFilm

Lookup(w) ==
    /\ At(w, "lookup")
    /\ Using(Live /\ InArray(req[w].id),
             IF db_get(req[w].id) = NoFilm THEN Answer(w, [code |-> 404])
             ELSE Goto(w, [th[w] EXCEPT !.pc = req[w].method, !.f = db_get(req[w].id)]))
    /\ UNCHANGED shared

Get(w) ==
    /\ At(w, "get")
    /\ Using(Held(th[w].f), Answer(w, [code |-> 200, film |-> Data(th[w].f)]))
    /\ UNCHANGED shared

\* A PUT without data is not processed, which the server answers with 404.
PutNothing(w) ==
    /\ At(w, "put") /\ req[w].film = NoData
    /\ Answer(w, [code |-> 404])
    /\ UNCHANGED <<shared, undefined>>

\* Mutant: the old film is freed before its title was used.
PutFreesFirst(w) ==
    LET i == ht_get_value(id_map, th[w].f.title)
    IN  /\ At(w, "put") /\ req[w].film # NoData /\ Live /\ Held(films[i])
        /\ Goto(w, [th[w] EXCEPT !.pc = "putmap", !.id = i, !.prev = films[i],
                                 !.new = parse_film(w)])
        /\ allocated' = allocated \ {films[i].block}
        /\ UNCHANGED <<films, id_map, cur_films, db, undefined>>

\* film_resource_update looks the film up again by its title.  The new film is NULL
\* when the data could not be parsed (block5.c:189 tests f instead of updated_film).
Put(w) ==
    LET i == ht_get_value(id_map, th[w].f.title)
    IN  /\ At(w, "put") /\ req[w].film # NoData
        /\ Using(Live /\ Held(th[w].f) /\ i \in DOMAIN films /\ Held(films[i]),
                 /\ Goto(w, [th[w] EXCEPT !.pc = "putmap", !.id = i, !.prev = films[i],
                                          !.new = parse_film(w)])
                 /\ Allocating(parse_film(w)))
        /\ UNCHANGED <<films, id_map, cur_films, db>>

PutMap(w) ==
    /\ At(w, "putmap")
    /\ Using(Live /\ Held(th[w].prev) /\ Held(th[w].f),
             /\ id_map' = ht_set_value(ht_delete_key(id_map, th[w].prev.title),
                                       th[w].f.title, th[w].id)
             /\ Goto(w, [th[w] EXCEPT !.pc = "putfree"]))
    /\ UNCHANGED <<films, cur_films, db, allocated>>

PutFree(w) ==
    /\ At(w, "putfree")
    /\ Using(Held(th[w].prev),
             /\ allocated' = allocated \ {th[w].prev.block}
             /\ Goto(w, [th[w] EXCEPT !.pc = "putstore"]))
    /\ UNCHANGED <<films, id_map, cur_films, db>>

PutStore(w) ==
    /\ At(w, "putstore")
    /\ Using(Live, /\ films' = [films EXCEPT ![th[w].id] = th[w].new]
                   /\ Answer(w, [code |-> 200]))
    /\ UNCHANGED <<id_map, cur_films, db, allocated>>

\* db_delete looks at the array once more.
Delete(w) ==
    LET film == db_get(req[w].id)
    IN  /\ At(w, "delete")
        /\ Using(Live /\ InArray(req[w].id),
                 IF film = NoFilm THEN Answer(w, [code |-> 200]) /\ UNCHANGED films
                 ELSE /\ films' = [films EXCEPT ![req[w].id] = NoFilm]
                      /\ Goto(w, [th[w] EXCEPT !.pc = "unmap", !.f = film]))
        /\ UNCHANGED <<id_map, cur_films, db, allocated>>

DeleteUnmap(w) ==
    /\ At(w, "unmap")
    /\ Using(Live /\ Held(th[w].f),
             /\ id_map' = ht_delete_key(id_map, th[w].f.title)
             /\ allocated' = allocated \ {th[w].f.block}
             /\ Answer(w, [code |-> 200]))
    /\ UNCHANGED <<films, cur_films, db>>

-------------------------------------------------------------------------------
Init ==
    /\ films = [i \in 0 .. MAX_FILMS - 1 |-> NoFilm]
    /\ id_map = ht_create /\ cur_films = 0 /\ db = "live" /\ allocated = {}
    /\ req = [w \in Worker |-> Idle]
    /\ th = [w \in Worker |-> Resting]
    /\ answer = [w \in Worker |-> NoAnswer]
    /\ undefined = FALSE

Step(w) ==
    \/ ListNext(w) \/ ListView(w)
    \/ AddCheck(w) \/ AddMap(w) \/ AddStore(w) \/ AddLoad(w) \/ AddCount(w) \/ AddLocation(w)
    \/ Destroy(w) \/ Create(w)
    \/ Lookup(w) \/ Get(w)
    \/ PutNothing(w) \/ Put(w) \/ PutMap(w) \/ PutFree(w) \/ PutStore(w)
    \/ Delete(w) \/ DeleteUnmap(w)
    \/ Reply(w)

Next == \E w \in Worker : Step(w) \/ \E r \in Request : Accept(w, r)

Spec == Init /\ [][Next]_vars

\* Clients that are careful: only a film is added while others read, no more than
\* MAX_FILMS are, and the data of a PUT is well-formed and keeps the film's title.
Reading(r) == r.method \in {"list", "get"}

Careful(r) ==
    /\ \A w \in Worker : req[w] # Idle =>
          /\ {r.method, req[w].method} \subseteq {"list", "get", "post"}
          /\ Reading(r) \/ Reading(req[w])
    /\ r.method = "post" => cur_films < MAX_FILMS
    /\ r.method = "put" /\ db_get(r.id) # NoFilm /\ r.film # NoData =>
          r.film # NoFilm /\ r.film.title = films[r.id].title

CarefulNext ==
    \E w \in Worker : Step(w) \/ \E r \in Request : Careful(r) /\ Accept(w, r)

CarefulSpec == Init /\ [][CarefulNext]_vars

-------------------------------------------------------------------------------
(* Properties *)

Number == 0 .. MAX_FILMS
Thread == [pc : {"idle", "reply", "list", "view", "contains", "map", "store", "load", "count",
                 "location", "destroy", "create", "lookup", "get", "put", "putmap",
                 "putfree", "putstore", "delete", "unmap"},
           f : Film \cup {NoFilm}, prev : Film \cup {NoFilm}, new : Film \cup {NoFilm},
           id : Number, items : SUBSET (Number \X Key)]

\* The type invariant.
TypeOK ==
    /\ films \in [0 .. MAX_FILMS - 1 -> Film \cup {NoFilm}]
    /\ cur_films \in Number /\ db \in {"live", "freed"} /\ allocated \subseteq Block
    /\ req \in [Worker -> Request \cup {Idle}] /\ th \in [Worker -> Thread]
    /\ undefined \in BOOLEAN

\* The title table of careful clients is consistent, while it grows and with
\* titles in one list (hash_table.c).
TableStaysConsistent == TableConsistent(id_map)

\* When nobody changes the database, its table finds a title if a film has it, and
\* it finds that film, and it is the only one: "check if the database contains a
\* film (by title)" (database.c:21).
TitlesIndexed ==
    (\A w \in Worker : th[w].pc = "reply" \/ req[w] = Idle \/ Reading(req[w])) =>
        \A t \in Key :
            LET found == ht_get_value(id_map, t)
            IN  {i \in DOMAIN films : films[i] # NoFilm /\ films[i].title = t}
                    = IF found = NoValue THEN {} ELSE {found}

\* No thread uses a film or a database that is freed, or a place outside of the
\* array (db_add and db_update of database.c, list_films and film_resource).
NothingUndefined == ~ undefined

\* A request is applied when the answer is determined: the film is counted, taken out
\* or replaced, or the database freed.
Applied(w) ==
    CASE th[w].pc = "location"           -> [code |-> 201, id |-> th[w].id]
      [] th[w].pc \in {"create", "unmap"} -> [code |-> 200]
      [] OTHER                           -> answer[w]

Catalogue ==
    INSTANCE FilmCatalogue
        WITH Film      <- FilmData,
             catalogue <- [i \in 0 .. MAX_FILMS - 1 |->
                              IF i < cur_films THEN Data(films[i]) ELSE NoFilm],
             added     <- cur_films,
             answer    <- [w \in Worker |-> Applied(w)]

\* For careful clients the database is one collection: each request is applied at
\* once, and every answer - also a list that was collected while a film was added -
\* is true of the collection at one moment between request and answer.
IsCatalogue == Catalogue!CatSpec
===============================================================================
