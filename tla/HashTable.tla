------------------------------- MODULE HashTable -------------------------------
(***************************************************************************)
(* The chained hash table of hash_table.c ("Distributed Hash Table", "Hash *)
(* Table" and "Onion Movie Hash Table Databse" hold the same file; the     *)
(* width of string_hash differs).  A table is a record with the fields of  *)
(* struct hash_table; a linked list is a sequence from its head.           *)
(***************************************************************************)
EXTENDS Integers, Sequences, SequencesExt

CONSTANTS Key,
          Hash,         \* string_hash of each key
          INITIAL_SIZE,
          NoValue       \* what a failing ht_get_value leaves in *res

ASSUME HashTableAssumption == INITIAL_SIZE \in Nat \ {0} /\ Hash \in [Key -> Nat]

Buckets(tbl) == 0 .. tbl.size - 1

ht_create == [size    |-> INITIAL_SIZE,
              n_elems |-> 0,
              elems   |-> [i \in 0 .. INITIAL_SIZE - 1 |-> <<>>]]

get_hash(tbl, key) == Hash[key] % tbl.size

\* The list that a key belongs to, and the key's first place in it, or 0.
ListOf(tbl, key)  == tbl.elems[get_hash(tbl, key)]
PlaceOf(tbl, key) == SelectInSeq(ListOf(tbl, key), LAMBDA e : e.key = key)

ht_get_value(tbl, key) ==
    IF PlaceOf(tbl, key) = 0 THEN NoValue ELSE ListOf(tbl, key)[PlaceOf(tbl, key)].value

\* Mutant: the element stays in the bucket of the old size.
ResizeInPlace(tbl) ==
    [tbl EXCEPT !.size = 2 * @,
                !.elems = [i \in 0 .. 2 * tbl.size - 1 |->
                              IF i < tbl.size THEN tbl.elems[i] ELSE <<>>]]

\* The elements of a list that belong to bucket i of a table of this size, pushed onto
\* an empty list, head first.
Pushed(list, size, i) ==
    LET after[n \in 0 .. Len(list)] ==
            IF n = 0 THEN <<>>
            ELSE IF Hash[list[n].key] % size = i THEN <<list[n]>> \o after[n - 1]
            ELSE after[n - 1]
    IN  after[Len(list)]

\* The size is doubled, and each list is distributed: an element moves to the bucket
\* with the same index or to the one tbl.size further.
resize(tbl) ==
    LET size == 2 * tbl.size
    IN  [tbl EXCEPT !.size = size,
                    !.elems = [i \in 0 .. size - 1 |->
                                  Pushed(tbl.elems[i % tbl.size], size, i)]]

\* More than 3/4 of the elements are in use.
MustGrow(tbl) == 4 * tbl.n_elems > 3 * tbl.size

\* A value is replaced where it is; a new element becomes the head of its list.
ht_set_value(tbl, key, value) ==
    LET t == IF MustGrow(tbl) THEN resize(tbl) ELSE tbl
        i == get_hash(t, key)
        p == PlaceOf(t, key)
    IN  IF p # 0 THEN [t EXCEPT !.elems[i][p].value = value]
        ELSE [t EXCEPT !.elems[i] = <<[key |-> key, value |-> value]>> \o @,
                       !.n_elems = @ + 1]

\* Mutant: the number of elements is not counted down.
DeleteUncounted(tbl, key) ==
    IF PlaceOf(tbl, key) = 0 THEN tbl
    ELSE [tbl EXCEPT !.elems[get_hash(tbl, key)] = RemoveAt(@, PlaceOf(tbl, key))]

ht_delete_key(tbl, key) ==
    IF PlaceOf(tbl, key) = 0 THEN tbl
    ELSE [tbl EXCEPT !.elems[get_hash(tbl, key)] = RemoveAt(@, PlaceOf(tbl, key)),
                     !.n_elems = @ - 1]

-------------------------------------------------------------------------------
\* Every element is where get_hash looks for it.
InPlace(tbl) ==
    \A i \in Buckets(tbl) : \A p \in 1 .. Len(tbl.elems[i]) :
        get_hash(tbl, tbl.elems[i][p].key) = i

\* No key is twice in a list.
KeysOnce(list) == \A p, q \in 1 .. Len(list) : list[p].key = list[q].key => p = q

Elements(tbl) == UNION {ToSet(tbl.elems[i]) : i \in Buckets(tbl)}

\* Every element is in its place and no key is there twice, the elements are counted,
\* and the table is not fuller than one element above 3/4.
TableConsistent(tbl) ==
    /\ InPlace(tbl)
    /\ \A i \in Buckets(tbl) : KeysOnce(tbl.elems[i])
    /\ tbl.n_elems = Cardinality(Elements(tbl))
    /\ 4 * (tbl.n_elems - 1) <= 3 * tbl.size
===============================================================================
