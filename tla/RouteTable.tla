----------------------------- MODULE RouteTable -----------------------------
(***************************************************************************)
(* What the hash map of librip/utils/hashmap.h promises to rip_db.c: a     *)
(* table with one item per key, the item an operation replaced, removed or *)
(* found as its result, and an insertion that may fail for want of memory, *)
(* and then changes nothing.  RipDb is written in terms of this contract.  *)
(***************************************************************************)
CONSTANTS Key, Val, Due, NULL

VARIABLES
    table,      \* the item of each key, or NULL
    ret,        \* the result of the last operation
    oom,        \* hashmap_oom
    running,    \* a call that may change the table has not done so yet
    collecting  \* the caller iterates over the table and deletes what is due

vars == <<table, ret, oom, running, collecting>>

Init ==
    /\ table = [k \in Key |-> NULL]
    /\ ret = NULL
    /\ oom = FALSE
    /\ running = FALSE
    /\ collecting = FALSE

\* hashmap_set or hashmap_delete is called.
Call ==
    /\ ~running /\ running' = TRUE
    /\ oom' = FALSE
    /\ UNCHANGED <<table, ret, collecting>>

Set(k, v) ==
    /\ running /\ running' = FALSE
    /\ ~collecting
    /\ ret' = table[k]
    /\ table' = [table EXCEPT ![k] = v]
    /\ UNCHANGED <<oom, collecting>>

Fail ==
    /\ running /\ running' = FALSE
    /\ ~collecting
    /\ oom' = TRUE
    /\ ret' = NULL
    /\ UNCHANGED <<table, collecting>>

Get(k) ==
    /\ ~running /\ ~collecting
    /\ ret' = table[k]
    /\ UNCHANGED <<table, oom, running, collecting>>

\* While the caller collects, only what is due is deleted.
Delete(k) ==
    /\ running /\ running' = FALSE
    /\ collecting => table[k] = Due
    /\ ret' = table[k]
    /\ table' = [table EXCEPT ![k] = NULL]
    /\ UNCHANGED <<oom, collecting>>

Collect ==
    /\ ~running /\ ~collecting
    /\ collecting' = TRUE
    /\ UNCHANGED <<table, ret, oom, running>>

\* The loop has ended: nothing that is due is left.
Collected ==
    /\ ~running /\ collecting
    /\ \A k \in Key : table[k] # Due
    /\ collecting' = FALSE
    /\ UNCHANGED <<table, ret, oom, running>>

Next ==
    \/ Call \/ Fail \/ Collect \/ Collected
    \/ \E k \in Key : (\E v \in Val : Set(k, v)) \/ Get(k) \/ Delete(k)

Spec == Init /\ [][Next]_vars
=============================================================================
