------------------------------- MODULE RipDb -------------------------------
(***************************************************************************)
(* The routing database of librip/rip_db.c: two hash tables, one of usable *)
(* routes and one of routes that wait for garbage collection, and a flag   *)
(* that says that some route has changed since the last advertisement.     *)
(* A database is a record; the operations return the new one.              *)
(***************************************************************************)
EXTENDS RipCommon

\* The hash tables, as functions that are NULL where no item is stored.
HashmapNew == [k \in Key |-> NULL]
HashmapSet(map, k, desc) == [map EXCEPT ![k] = desc]
HashmapDelete(map, k) == [map EXCEPT ![k] = NULL]
Items(map) == {k \in Key : map[k] # NULL}

Db == [ok : [Key -> Desc \cup {NULL}],
       garbage : [Key -> Desc \cup {NULL}],
       any_route_changed : BOOLEAN]

rip_db_init ==
    [ok |-> HashmapNew, garbage |-> HashmapNew, any_route_changed |-> FALSE]

----------------------------------------------------------------------------
(***************************************************************************)
(* rip_db_add replaces an item with the same key and then fails, without   *)
(* raising any_route_changed.                                              *)
(***************************************************************************)
rip_db_add_fails(db, k) == db.ok[k] # NULL

rip_db_add_unflagged(db, k, desc) ==
    [ok |-> HashmapSet(db.ok, k, [desc EXCEPT !.changed = TRUE]),
     garbage |-> db.garbage,
     any_route_changed |-> db.any_route_changed]
rip_db_add(db, k, desc) ==
    [ok |-> HashmapSet(db.ok, k, [desc EXCEPT !.changed = TRUE]),
     garbage |-> db.garbage,
     any_route_changed |-> db.any_route_changed \/ ~rip_db_add_fails(db, k)]

\* The usable routes are tried first, the garbage only when that finds nothing.
rip_db_remove_ok_only(db, k) ==
    [ok |-> HashmapDelete(db.ok, k),
     garbage |-> db.garbage,
     any_route_changed |-> db.any_route_changed]
rip_db_remove(db, k) ==
    [ok |-> HashmapDelete(db.ok, k),
     garbage |-> IF db.ok[k] # NULL THEN db.garbage
                                    ELSE HashmapDelete(db.garbage, k),
     any_route_changed |-> db.any_route_changed]

(***************************************************************************)
(* desc is the route as the caller has updated it in place.  The move      *)
(* fails, after it was made, when the garbage had an item with this key.   *)
(***************************************************************************)
rip_db_move_to_garbage_fails(db, k) == db.garbage[k] # NULL

rip_db_move_to_garbage_copy(db, k, desc) ==
    [ok |-> db.ok,
     garbage |-> HashmapSet(db.garbage, k, desc),
     any_route_changed |-> db.any_route_changed \/ desc.changed]
rip_db_move_to_garbage(db, k, desc) ==
    [ok |-> HashmapDelete(db.ok, k),
     garbage |-> HashmapSet(db.garbage, k, desc),
     any_route_changed |-> db.any_route_changed \/ desc.changed]

\* The garbage table cannot grow: the route is lost and nobody is told.
rip_db_move_to_garbage_oom(db, k, desc) ==
    [ok |-> HashmapDelete(db.ok, k),
     garbage |-> db.garbage,
     any_route_changed |-> db.any_route_changed \/ desc.changed]

----------------------------------------------------------------------------
\* Iterating over rip_db_all: the usable routes, then the garbage.
rip_db_iter_all(db) == Items(db.ok) \cup Items(db.garbage)
Route(db, k) == IF db.ok[k] # NULL THEN db.ok[k] ELSE db.garbage[k]

\* The usable routes that were learned from a neighbour.
Learned(db) == {k \in Key : db.ok[k] # NULL /\ ~db.ok[k].is_local}

\* A loop that assigns one field of every item of a table.
ForEach(map, Upd(_)) ==
    [k \in Key |-> IF map[k] = NULL THEN NULL ELSE Upd(map[k])]

mark_all_keeps_flag(db) ==
    LET unchanged(desc) == [desc EXCEPT !.changed = FALSE]
    IN  [db EXCEPT !.ok = ForEach(@, unchanged), !.garbage = ForEach(@, unchanged)]
rip_db_mark_all_routes_as_unchanged(db) ==
    IF db.any_route_changed
    THEN LET unchanged(desc) == [desc EXCEPT !.changed = FALSE]
         IN  [ok |-> ForEach(db.ok, unchanged),
              garbage |-> ForEach(db.garbage, unchanged),
              any_route_changed |-> FALSE]
    ELSE db
============================================================================
