------------------------------ MODULE Hashmap ------------------------------
(***************************************************************************)
(* librip/utils/hashmap.c: open addressing with robin hood hashing.  An    *)
(* item lies dib - 1 buckets after the one its hash points to; an          *)
(* insertion takes the bucket of any item that is nearer to its own; a     *)
(* deletion shifts the items that follow back by one.  The table doubles   *)
(* when it is loaded, and halves when it is nearly empty.                  *)
(*                                                                         *)
(* A step is one round of one of the loops, so that what a loop keeps true *)
(* is an invariant, and can be proved.                                     *)
(***************************************************************************)
EXTENDS PowersOfTwo, FiniteSets

CONSTANTS
    Key, Val, Due,
    HashValues,   \* the values of the clipped hash
    MinCap,       \* the smallest number of buckets, 16 in the code
    GROW_AT,      \* in percent
    SHRINK_AT,    \* in percent
    OutOfMemory,  \* malloc may fail
    NULL

ASSUME HashmapAssumption ==
    /\ MinCap \in Nat /\ \E k \in 1..MinCap : MinCap = Pow2[k]
    /\ GROW_AT \in 1..99 /\ SHRINK_AT \in 0..49
    /\ Due \in Val
    /\ HashValues \subseteq Nat
    /\ OutOfMemory \in BOOLEAN
    /\ NULL \notin Val /\ NULL \notin Key

VARIABLES
    hash,        \* what the hash function makes of each key: any values
    buckets, nbuckets, count, oom,  \* struct hashmap
    ret,         \* the item returned by the last call
    collecting,  \* the caller iterates over the table and deletes what is due
    iter,        \* its struct rip_db_iter
    op, pc,      \* the call that is running, and its loop
    key, val,    \* the item it is about
    entry,       \* the item in hand: edata, or the bucket that resize0 moves
    i, j,        \* the indices of the loops
    buckets2, nbuckets2  \* map2, the new table of resize0

mapVars == <<buckets, nbuckets, count, oom>>
callerVars == <<collecting, iter>>
newVars == <<j, buckets2, nbuckets2>>
vars == <<hash, mapVars, ret, callerVars, op, pc, key, val, entry, i, newVars>>

(***************************************************************************)
(* A bucket is NULL when its dib is 0.  mask, growat and shrinkat are      *)
(* functions of the number of buckets, which is a power of two, so that    *)
(* the mask gives the remainder.                                           *)
(***************************************************************************)
Item == [dib : Nat \ {0}, key : Key, val : Val]
ASSUME NullAssumption == NULL \notin Item
Table(n) == [0 .. n - 1 -> Item \cup {NULL}]
growat_full(n) == n
growat(n) == (n * GROW_AT) \div 100
shrinkat(n) == (n * SHRINK_AT) \div 100
Mask(x, n) == x % n

\* The smallest capacity that is a doubling of MinCap and holds cap.
Sizes(n) == {MinCap * Pow2[k] : k \in 0..n}
Capacity(cap) ==
    CHOOSE c \in Sizes(cap) : c >= cap /\ (c = MinCap \/ c \div 2 < cap)
EmptyTable(n) == [x \in 0 .. n - 1 |-> NULL]

Farther(e) == [e EXCEPT !.dib = @ + 1]

Init ==
    /\ hash \in [Key -> HashValues]
    /\ nbuckets = Capacity(0) /\ buckets = EmptyTable(Capacity(0))
    /\ count = 0 /\ oom = FALSE
    /\ ret = NULL
    /\ collecting = FALSE /\ iter = 0
    /\ op = "none" /\ pc = "idle"
    /\ key = NULL /\ val = NULL /\ entry = NULL
    /\ i = 0 /\ j = 0
    /\ buckets2 = EmptyTable(0) /\ nbuckets2 = 0

\* The call ends, and its local variables are gone.
Return ==
    /\ op' = "none" /\ pc' = IF collecting THEN "iter" ELSE "idle"
    /\ key' = NULL /\ val' = NULL /\ entry' = NULL
    /\ i' = 0 /\ j' = 0
    /\ buckets2' = EmptyTable(0) /\ nbuckets2' = 0

----------------------------------------------------------------------------
\* The loop of hashmap_set starts, in a table of n buckets.
Probe(k, v, n) ==
    /\ pc' = "probe"
    /\ entry' = [dib |-> 1, key |-> k, val |-> v]
    /\ i' = Mask(hash[k], n)

\* The table grows before the loop knows whether the item is new.
hashmap_set(k, v) ==
    /\ pc = "idle"
    /\ op' = "set" /\ key' = k /\ val' = v
    /\ oom' = FALSE
    /\ IF count >= growat(nbuckets)
       THEN pc' = "alloc" /\ UNCHANGED <<entry, i>>
       ELSE Probe(k, v, nbuckets)
    /\ UNCHANGED <<hash, buckets, nbuckets, count, ret, callerVars, newVars>>

SetInsert ==
    /\ pc = "probe"
    /\ buckets[i] = NULL
    /\ buckets' = [buckets EXCEPT ![i] = entry]
    /\ count' = count + 1
    /\ ret' = NULL
    /\ Return
    /\ UNCHANGED <<hash, nbuckets, oom, callerVars>>

SetReplace ==
    /\ pc = "probe"
    /\ buckets[i] # NULL /\ buckets[i].key = entry.key
    /\ buckets' = [buckets EXCEPT ![i].val = entry.val]
    /\ ret' = buckets[i].val
    /\ Return
    /\ UNCHANGED <<hash, nbuckets, count, oom, callerVars>>

\* An item nearer to its first bucket gives way, and is taken in hand.
SetFarther ==
    /\ pc = "probe"
    /\ buckets[i] # NULL /\ buckets[i].key # entry.key
    /\ IF buckets[i].dib < entry.dib
       THEN buckets' = [buckets EXCEPT ![i] = entry] /\ entry' = Farther(buckets[i])
       ELSE entry' = Farther(entry) /\ UNCHANGED buckets
    /\ i' = Mask(i + 1, nbuckets)
    /\ UNCHANGED <<hash, nbuckets, count, oom, ret, callerVars, op, pc, key, val, newVars>>

----------------------------------------------------------------------------
\* hashmap_get and hashmap_delete search alike, up to an empty bucket.
Find(what, k) ==
    /\ op' = what /\ pc' = "find"
    /\ key' = k
    /\ i' = Mask(hash[k], nbuckets)
    /\ UNCHANGED <<hash, buckets, nbuckets, count, ret, collecting, val, entry, newVars>>

hashmap_get(k) ==
    /\ pc = "idle"
    /\ Find("get", k)
    /\ UNCHANGED <<oom, iter>>

hashmap_delete(k) ==
    /\ pc = "idle"
    /\ Find("delete", k)
    /\ oom' = FALSE
    /\ UNCHANGED iter

FindNothing ==
    /\ pc = "find"
    /\ buckets[i] = NULL
    /\ ret' = NULL
    /\ Return
    /\ UNCHANGED <<hash, mapVars, callerVars>>

FindNext ==
    /\ pc = "find"
    /\ buckets[i] # NULL /\ buckets[i].key # key
    /\ i' = Mask(i + 1, nbuckets)
    /\ UNCHANGED <<hash, mapVars, ret, callerVars, op, pc, key, val, entry, newVars>>

GetFound ==
    /\ pc = "find" /\ op = "get"
    /\ buckets[i] # NULL /\ buckets[i].key = key
    /\ ret' = buckets[i].val
    /\ Return
    /\ UNCHANGED <<hash, mapVars, callerVars>>

DeleteFound ==
    /\ pc = "find" /\ op = "delete"
    /\ buckets[i] # NULL /\ buckets[i].key = key
    /\ ret' = buckets[i].val
    /\ buckets' = [buckets EXCEPT ![i] = NULL]
    /\ pc' = "shift"
    /\ UNCHANGED <<hash, nbuckets, count, oom, callerVars, op, key, val, entry, i, newVars>>

\* Bucket i is free: an item that is not in its first bucket moves back.
DeleteShift_same_dib ==
    LET next == Mask(i + 1, nbuckets)
    IN  /\ pc = "shift"
        /\ buckets[next] # NULL /\ buckets[next].dib > 1
        /\ buckets' = [buckets EXCEPT ![i] = buckets[next]]
        /\ i' = next
        /\ UNCHANGED <<hash, nbuckets, count, oom, ret, callerVars, op, pc, key, val,
                       entry, newVars>>
DeleteShift ==
    LET next == Mask(i + 1, nbuckets)
    IN  /\ pc = "shift"
        /\ buckets[next] # NULL /\ buckets[next].dib > 1
        /\ buckets' = [buckets EXCEPT ![i] = [buckets[next] EXCEPT !.dib = @ - 1]]
        /\ i' = next
        /\ UNCHANGED <<hash, nbuckets, count, oom, ret, callerVars, op, pc, key, val,
                       entry, newVars>>

DeleteLast_not_cleared ==
    LET next == Mask(i + 1, nbuckets)
    IN  /\ pc = "shift"
        /\ buckets[next] # NULL => buckets[next].dib <= 1
        /\ count' = count - 1
        /\ IF nbuckets > MinCap /\ count - 1 <= shrinkat(nbuckets)
           THEN pc' = "alloc" /\ UNCHANGED <<op, key, val, entry, i, newVars>>
           ELSE Return
        /\ UNCHANGED <<hash, buckets, nbuckets, oom, ret, callerVars>>
DeleteLast ==
    LET next == Mask(i + 1, nbuckets)
    IN  /\ pc = "shift"
        /\ buckets[next] # NULL => buckets[next].dib <= 1
        /\ buckets' = [buckets EXCEPT ![i] = NULL]
        /\ count' = count - 1
        /\ IF nbuckets > MinCap /\ count - 1 <= shrinkat(nbuckets)
           THEN pc' = "alloc" /\ UNCHANGED <<op, key, val, entry, i, newVars>>
           ELSE Return
        /\ UNCHANGED <<hash, nbuckets, oom, ret, callerVars>>

----------------------------------------------------------------------------
new_cap == IF op = "set" THEN nbuckets * 2 ELSE nbuckets \div 2

\* The new table of resize0 is allocated, or not; a shrinking may fail.
ResizeFails ==
    /\ pc = "alloc"
    /\ OutOfMemory
    /\ IF op = "set" THEN oom' = TRUE /\ ret' = NULL ELSE UNCHANGED <<oom, ret>>
    /\ Return
    /\ UNCHANGED <<hash, buckets, nbuckets, count, callerVars>>

ResizeStart ==
    /\ pc = "alloc"
    /\ pc' = "move"
    /\ nbuckets2' = Capacity(new_cap)
    /\ buckets2' = EmptyTable(Capacity(new_cap))
    /\ i' = 0
    /\ UNCHANGED <<hash, mapVars, ret, callerVars, op, key, val, entry, j>>

\* The outer loop takes the next item of the old table in hand.
ResizeSkip ==
    /\ pc = "move" /\ entry = NULL /\ i < nbuckets
    /\ buckets[i] = NULL
    /\ i' = i + 1
    /\ UNCHANGED <<hash, mapVars, ret, callerVars, op, pc, key, val, entry, newVars>>

ResizeTake ==
    /\ pc = "move" /\ entry = NULL /\ i < nbuckets
    /\ buckets[i] # NULL
    /\ entry' = [buckets[i] EXCEPT !.dib = 1]
    /\ j' = Mask(hash[buckets[i].key], nbuckets2)
    /\ UNCHANGED <<hash, mapVars, ret, callerVars, op, pc, key, val, i, buckets2, nbuckets2>>

\* The inner loop puts the item in hand into the new table.
ResizePut ==
    /\ pc = "move" /\ entry # NULL
    /\ buckets2[j] = NULL
    /\ buckets2' = [buckets2 EXCEPT ![j] = entry]
    /\ entry' = NULL
    /\ i' = i + 1
    /\ UNCHANGED <<hash, mapVars, ret, callerVars, op, pc, key, val, j, nbuckets2>>

ResizeFarther ==
    /\ pc = "move" /\ entry # NULL
    /\ buckets2[j] # NULL
    /\ IF buckets2[j].dib < entry.dib
       THEN buckets2' = [buckets2 EXCEPT ![j] = entry] /\ entry' = Farther(buckets2[j])
       ELSE entry' = Farther(entry) /\ UNCHANGED buckets2
    /\ j' = Mask(j + 1, nbuckets2)
    /\ UNCHANGED <<hash, mapVars, ret, callerVars, op, pc, key, val, i, nbuckets2>>

\* The new table replaces the old one; hashmap_set goes on, hashmap_delete ends.
ResizeDone ==
    /\ pc = "move" /\ entry = NULL /\ i = nbuckets
    /\ buckets' = buckets2 /\ nbuckets' = nbuckets2
    /\ IF op = "set"
       THEN /\ Probe(key, val, nbuckets2)
            /\ j' = 0 /\ buckets2' = EmptyTable(0) /\ nbuckets2' = 0
            /\ UNCHANGED <<op, key, val>>
       ELSE Return
    /\ UNCHANGED <<hash, count, oom, ret, callerVars>>

----------------------------------------------------------------------------
(***************************************************************************)
(* A loop over hashmap_iter that deletes what is due, and then starts from *)
(* the first bucket again, as rip_t_gc_expired does.                       *)
(***************************************************************************)
IterStart ==
    /\ pc = "idle"
    /\ pc' = "iter"
    /\ collecting' = TRUE /\ iter' = 0
    /\ UNCHANGED <<hash, mapVars, ret, op, key, val, entry, i, newVars>>

IterNext ==
    /\ pc = "iter" /\ iter < nbuckets
    /\ buckets[iter] # NULL => buckets[iter].val # Due
    /\ iter' = iter + 1
    /\ UNCHANGED <<hash, mapVars, ret, collecting, op, pc, key, val, entry, i, newVars>>

IterDelete_no_reset ==
    /\ pc = "iter" /\ iter < nbuckets
    /\ buckets[iter] # NULL /\ buckets[iter].val = Due
    /\ Find("delete", buckets[iter].key)
    /\ oom' = FALSE
    /\ iter' = iter + 1
IterDelete ==
    /\ pc = "iter" /\ iter < nbuckets
    /\ buckets[iter] # NULL /\ buckets[iter].val = Due
    /\ Find("delete", buckets[iter].key)
    /\ oom' = FALSE
    /\ iter' = 0

IterEnd ==
    /\ pc = "iter" /\ iter >= nbuckets
    /\ pc' = "idle"
    /\ collecting' = FALSE /\ iter' = 0
    /\ UNCHANGED <<hash, mapVars, ret, op, key, val, entry, i, newVars>>

----------------------------------------------------------------------------
Set == SetInsert \/ SetReplace \/ SetFarther
Search == FindNothing \/ FindNext \/ GetFound \/ DeleteFound
Shift == DeleteShift \/ DeleteLast
Resize ==
    \/ ResizeFails \/ ResizeStart \/ ResizeSkip \/ ResizeTake
    \/ ResizePut \/ ResizeFarther \/ ResizeDone
Iterate == IterNext \/ IterDelete \/ IterEnd

Next ==
    \/ \E k \in Key : (\E v \in Val : hashmap_set(k, v)) \/ hashmap_get(k) \/ hashmap_delete(k)
    \/ IterStart
    \/ Set \/ Search \/ Shift \/ Resize \/ Iterate

Spec == Init /\ [][Next]_vars

----------------------------------------------------------------------------
MapType ==
    /\ hash \in [Key -> HashValues]
    /\ nbuckets \in Sizes(nbuckets)
    /\ buckets \in Table(nbuckets)
    /\ count \in Nat
    /\ oom \in BOOLEAN
    /\ ret \in Val \cup {NULL}

CallType ==
    /\ collecting \in BOOLEAN
    /\ op \in {"none", "set", "get", "delete"}
    /\ pc \in {"idle", "iter", "probe", "find", "shift", "alloc", "move"}
    /\ key \in Key \cup {NULL} /\ val \in Val \cup {NULL}
    /\ entry \in Item \cup {NULL}

LoopType ==
    /\ iter \in 0..nbuckets
    /\ i \in 0..nbuckets
    /\ pc \in {"probe", "find", "shift"} => i < nbuckets
    /\ pc = "move" /\ entry # NULL => i < nbuckets
    /\ nbuckets2 \in Nat
    /\ buckets2 \in Table(nbuckets2)
    /\ j \in Nat
    /\ pc = "move" => nbuckets2 \in Sizes(nbuckets2)
    /\ pc = "move" /\ entry # NULL => j < nbuckets2

\* Types; the number of buckets is a power of two; each loop stays in its table.
TypeOK == MapType /\ CallType /\ LoopType

\* The buckets that hold an item of the table: not those already moved or freed.
Used(b, n) == {x \in 0 .. n - 1 : b[x] # NULL}
Live ==
    {x \in Used(buckets, nbuckets) :
        /\ pc = "shift" => x # i
        /\ pc = "move" => IF entry = NULL THEN x >= i ELSE x > i}

\* The number of buckets from h to x, around the end of a table of n.
Dist(h, x, n) == IF h <= x THEN x - h ELSE x + n - h
Home(hs, k, n) == Mask(hs[k], n)

\* A search for key k passes the buckets before x: each holds an item at
\* least as far from its own first bucket.  Those of free do not count.
Reaches(hs, b, n, k, x, free) ==
    \A y \in (0 .. n - 1) \ free :
        Dist(Home(hs, k, n), y, n) < Dist(Home(hs, k, n), x, n) =>
          b[y] # NULL /\ b[y].dib > Dist(Home(hs, k, n), y, n)

Placed(hs, b, n, e, x, free) ==
    /\ e.dib = Dist(Home(hs, e.key, n), x, n) + 1
    /\ Reaches(hs, b, n, e.key, x, free)

(***************************************************************************)
(* What lets hashmap_get stop at the first empty bucket, and hashmap_set   *)
(* at the first nearer item: every item lies dib - 1 buckets after its     *)
(* first one, with no empty bucket and no nearer item in between.  It      *)
(* holds in the table, in the new one of resize0 while that is filled, for *)
(* the item in hand, and around the bucket a deletion has freed.           *)
(***************************************************************************)
RobinHood ==
    /\ pc \notin {"move", "shift"} =>
         \A x \in Live : Placed(hash, buckets, nbuckets, buckets[x], x, {})
    /\ pc = "shift" => \A x \in Live : Placed(hash, buckets, nbuckets, buckets[x], x, {i})
    /\ pc = "probe" => Placed(hash, buckets, nbuckets, entry, i, {})
    /\ pc = "move" => \A x \in Used(buckets2, nbuckets2) :
                        Placed(hash, buckets2, nbuckets2, buckets2[x], x, {})
    /\ pc = "move" /\ entry # NULL => Placed(hash, buckets2, nbuckets2, entry, j, {})

(***************************************************************************)
(* The loops of hashmap_get, hashmap_set, hashmap_delete and resize0 end:  *)
(* some bucket is empty, because count, by which the table is grown, is    *)
(* the number of items.                                                    *)
(***************************************************************************)
EmptyBucket ==
    /\ count = Cardinality(Live) + Cardinality(Used(buckets2, nbuckets2))
               + (IF pc = "move" /\ entry # NULL THEN 1 ELSE 0)
               + (IF pc = "shift" THEN 1 ELSE 0)
    /\ count < nbuckets
    /\ pc = "probe" => count + 1 < nbuckets
    /\ pc = "move" => count + (IF op = "set" THEN 1 ELSE 0) < nbuckets2

\* An item of the table, wherever it lies: hashmap_set has not yet returned.
New(k) == op = "set" /\ pc = "probe" /\ k = key
Has(k, v) ==
    \/ \E x \in Live : /\ buckets[x].key = k /\ buckets[x].val = v
                       /\ New(k) => entry.key = k
    \/ entry # NULL /\ entry.key = k /\ entry.val = v /\ ~New(k)
    \/ \E x \in Used(buckets2, nbuckets2) : buckets2[x].key = k /\ buckets2[x].val = v

(***************************************************************************)
(* The hash map implements the table rip_db.c relies on: no item is lost,  *)
(* doubled or changed when the table grows, shrinks, fails to do so, or is *)
(* iterated over with deletions.                                           *)
(***************************************************************************)
Contents ==
    [k \in Key |-> IF \E v \in Val : Has(k, v) THEN CHOOSE v \in Val : Has(k, v) ELSE NULL]
Abstract == INSTANCE RouteTable WITH
              table <- Contents, running <- op = "set" \/ (op = "delete" /\ pc = "find")
ImplementsTable == Abstract!Spec

----------------------------------------------------------------------------
\* The variables of the calls that are not running.
Frames ==
    /\ op = "none" <=> pc \in {"idle", "iter"}
    /\ pc = "probe" => op = "set"
    /\ pc = "find" => op \in {"get", "delete"}
    /\ pc = "shift" => op = "delete"
    /\ pc \in {"alloc", "move"} => op \in {"set", "delete"}
    /\ entry # NULL => pc \in {"probe", "move"}
    /\ pc = "probe" => entry # NULL
    /\ pc # "move" => nbuckets2 = 0
    /\ op # "none" => key \in Key
    /\ op = "set" => val \in Val
    /\ collecting => op \in {"none", "delete"} /\ pc # "idle"
    /\ pc = "iter" => collecting
    /\ pc # "iter" => iter = 0
    /\ pc = "alloc" /\ op = "delete" => nbuckets > MinCap /\ count <= shrinkat(nbuckets)

\* No key lies in two buckets, or in a bucket and in hand.
OneOfEach ==
    /\ \A x, y \in Live : buckets[x].key = buckets[y].key => x = y
    /\ \A x, y \in Used(buckets2, nbuckets2) : buckets2[x].key = buckets2[y].key => x = y
    /\ \A x \in Live, y \in Used(buckets2, nbuckets2) : buckets[x].key # buckets2[y].key
    /\ pc = "move" /\ entry # NULL =>
         /\ \A x \in Live : buckets[x].key # entry.key
         /\ \A y \in Used(buckets2, nbuckets2) : buckets2[y].key # entry.key
    /\ pc = "probe" => \A x \in Live : buckets[x].key = entry.key =>
         /\ entry.key = key
         /\ Dist(Home(hash, key, nbuckets), x, nbuckets) >= Dist(Home(hash, key, nbuckets), i, nbuckets)

\* What the searches have passed, and what they will find.
Searched ==
    /\ pc = "probe" /\ entry.key = key => entry.val = val
    /\ pc = "probe" /\ entry.key # key =>
         \E x \in Live : buckets[x].key = key /\ buckets[x].val = val
    /\ pc = "find" => \A y \in 0 .. nbuckets - 1 :
         Dist(Home(hash, key, nbuckets), y, nbuckets) < Dist(Home(hash, key, nbuckets), i, nbuckets)
           => buckets[y] # NULL /\ buckets[y].key # key
    /\ pc = "find" /\ collecting =>
         \E x \in Live : buckets[x].key = key /\ buckets[x].val = Due
    /\ pc = "iter" => \A x \in Live : x < iter => buckets[x].val # Due

(***************************************************************************)
(* What every round of every loop of hashmap.c keeps true.                 *)
(***************************************************************************)
HInv == TypeOK /\ Frames /\ RobinHood /\ EmptyBucket /\ OneOfEach /\ Searched
=============================================================================
