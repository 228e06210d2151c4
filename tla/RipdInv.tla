------------------------------ MODULE RipdInv ------------------------------
(***************************************************************************)
(* The inductive invariant of the daemon: what has to hold at every        *)
(* control point, not only when the daemon waits in poll, for the          *)
(* properties of Ripd to be preserved by every step.                       *)
(***************************************************************************)
EXTENDS Ripd

\* The daemon has armed its timers and has not begun to leave.
Running == {"poll", "dispatch", "entry", "db_add", "timeout", "check"}

\* A route under a learned key is a learned route; garbage is learned and
\* unreachable.
RouteShape ==
    \A k \in Key :
        /\ db.ok[k] # NULL => (db.ok[k].is_local <=> k \notin LearnedKeys)
        /\ db.garbage[k] # NULL => /\ k \in LearnedKeys
                                   /\ ~db.garbage[k].is_local
                                   /\ db.garbage[k].metric = Htonl(INFINITY_METRIC)

\* Between the two halves of handle_non_existing_route the route is in
\* neither table; only a signal or the second half ends this.
PendingInv ==
    pending # NULL =>
        /\ pc \in {"db_add", "exit"}
        /\ db.ok[pending.key] = NULL
        /\ db.garbage[pending.key] = NULL
        /\ ~pending.desc.is_local

\* Until the event loop starts there is no garbage and nothing was advertised.
StartInv ==
    /\ pc = "exited" => db = rip_db_init
    /\ pc = "begin" => /\ db.garbage = HashmapNew
                       /\ \A k \in Key : db.ok[k] # NULL => db.ok[k].changed

DbInv == TablesDisjoint /\ RouteShape /\ PendingInv /\ StartInv

\* The kernel holds one route per network and priority.
KernelUnique ==
    \A r1, r2 \in kernel : r1.dst = r2.dst /\ r1.prio = r2.prio => r1 = r2

KernelInv ==
    /\ KernelUnique
    /\ ~ExternalDrop => Installed \cup InFlight \subseteq kernel

\* is_ticking says whether the timerfd is armed, and a timer that poll
\* reported stays readable until its own handler has read it.
TimerInv ==
    /\ \A t \in Timer : timers[t].ticking <=> timers[t].left >= 0
    /\ pc \in Running => \A t \in t_ready : timers[t].left = 0
    /\ pc \in {"begin", "poll", "check", "exited"} => t_ready = {} /\ rx_ready = {}
    /\ pc = "timeout" => "t_timeout" \notin t_ready
    /\ NoPanic

\* What keeps waking the daemon, at every control point of the loop.
WakeInv ==
    /\ pc \in Running \ {"timeout"} /\ ~ExternalDrop => timers["t_timeout"].ticking
    /\ pc \in Running \ {"timeout"} /\ ~ExternalDrop /\ Items(db.garbage) # {} =>
          timers["t_gc"].ticking
    /\ pc = "timeout" /\ ~ExternalDrop /\ Items(db.garbage) # {} =>
          timers["t_gc"].ticking \/ sweep.start_gc
    /\ pc \in Running /\ SendFails = {} => timers["t_update"].ticking
    /\ pc = "poll" /\ db.any_route_changed =>
          timers["t_triggered_lock"].ticking \/ timers["t_request_warmup"].ticking

\* Until a route has expired, the loop over the routes has counted only
\* those it has passed.
SweepInv == pc = "timeout" /\ ~sweep.start_gc => sweep.aged \subseteq sweep.visited

\* Time passes only while the daemon waits in poll: handlers take no time.
PromptHandlers == TickPcs \subseteq {"poll"}

\* What a dead route has waited and what t_gc has left never add up to more
\* than the time a route may stay; before t_gc is armed it has not waited.
GcInv ==
    PromptHandlers /\ ~ExternalDrop /\ pc \in Running =>
        /\ timers["t_gc"].left <= GC_PERIOD_TIMER
        /\ \A k \in Items(db.garbage) :
              IF timers["t_gc"].ticking
              THEN db.garbage[k].gc_age + timers["t_gc"].left < GC_PERIOD_RFC + GC_PERIOD_TIMER
              ELSE db.garbage[k].gc_age = 0

\* The triggered-update lock is shorter than the garbage collection period.
ShortLocks == \A lock \in LockTimes : lock < GC_PERIOD_RFC

\* A dead route that is not yet advertised is not due for collection, nor
\* will it be when the lock that holds it back expires.
LockInv ==
    PromptHandlers /\ ShortLocks /\ pc \in Running =>
        /\ timers["t_triggered_lock"].left < GC_PERIOD_RFC
        /\ \A k \in Items(db.garbage) : db.garbage[k].changed =>
              /\ db.garbage[k].gc_age < GC_PERIOD_RFC
              /\ pc = "poll" => timers["t_triggered_lock"].ticking
              /\ timers["t_triggered_lock"].ticking =>
                    db.garbage[k].gc_age + timers["t_triggered_lock"].left < GC_PERIOD_RFC

\* What was last advertised is current for every route not marked changed.
ToldInv ==
    SendFails = {} =>
        \A i \in Ifc, k \in rip_db_iter_all(db) :
            k.ifi # i /\ ~Route(db, k).changed => told[i][k] = Route(db, k).metric

(***************************************************************************)
(* The conjunction that every step of Ripd preserves (no code of its own:  *)
(* the strengthening of the properties of rip.c and rip_db.c above).       *)
(***************************************************************************)
IInv ==
    /\ TypeOK
    /\ DbInv
    /\ ChangedIsFlagged
    /\ KernelInv
    /\ TimerInv
    /\ WakeInv
    /\ SweepInv
    /\ GcInv
    /\ LockInv
    /\ ToldInv
============================================================================
