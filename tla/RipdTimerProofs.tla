-------------------------- MODULE RipdTimerProofs --------------------------
(***************************************************************************)
(* Proofs about the daemon's timers and about the end of a route: a        *)
(* reported timer can be read, and whatever is left to do has a timer      *)
(* armed for it; a dead route is collected in time, and not before it was  *)
(* advertised as dead; what the neighbours were last told of a route is    *)
(* current unless the route is marked changed.  These are the last of the  *)
(* invariants, so the theorem about all of them together is here too.      *)
(***************************************************************************)
EXTENDS RipdProofs

\* Most leaves need no arithmetic; those that do cite SMT.
USE Zenon

(***************************************************************************)
(* The timers: a reported timer can be read, and whatever is left to do    *)
(* has a timer armed for it.                                               *)
(***************************************************************************)
\* A handler is called for a timer that poll has reported and, since nothing
\* has read or armed it in the meantime, can still be read: it does not panic.
LEMMA NotPanicking ==
    ASSUME TypeOK, TimerInv, NEW t \in Timer, Serving(t)
    PROVE  ~timer_clear_fails(timers, t)
BY DEF TimerInv, Serving, timer_clear_fails, Running

\* is_ticking agrees with the timerfd after a timer was armed or cleared.
LEMMA TickingOps ==
    ASSUME NEW ts \in [Timer -> [ticking : BOOLEAN, left : Int]], NEW t \in Timer,
           NEW value \in Nat, \A u \in Timer : ts[u].ticking <=> ts[u].left >= 0
    PROVE  /\ \A u \in Timer : timer_start_oneshot(ts, t, value)[u].ticking
                                 <=> timer_start_oneshot(ts, t, value)[u].left >= 0
           /\ \A u \in Timer : timer_clear(ts, t)[u].ticking
                                 <=> timer_clear(ts, t)[u].left >= 0
<1>1. ASSUME NEW u \in Timer
      PROVE  /\ timer_start_oneshot(ts, t, value)[u].ticking
                   <=> timer_start_oneshot(ts, t, value)[u].left >= 0
             /\ timer_clear(ts, t)[u].ticking <=> timer_clear(ts, t)[u].left >= 0
  <2>1. CASE u = t
    BY <2>1, SMT DEF timer_start_oneshot, timer_clear, Disarmed
  <2>2. CASE u # t
    BY <2>2 DEF timer_start_oneshot, timer_clear, Disarmed
  <2> QED
    BY <2>1, <2>2
<1> QED
  BY <1>1

\* A handler that has cleared or armed only its own timer keeps the invariant.
LEMMA TimerInvHandler ==
    ASSUME TypeOK, TimerInv, NEW t \in Timer, Serving(t), t_ready' = t_ready \ {t},
           NEW value \in Nat,
           \/ timers' = timer_clear(timers, t)
           \/ timers' = timer_start_oneshot(timers, t, value),
           \/ pc' = pc
           \/ pc' = "timeout" /\ t = "t_timeout"
    PROVE  TimerInv'
<1>1. timers \in [Timer -> [ticking : BOOLEAN, left : Int]]
      /\ \A u \in Timer : timers[u].ticking <=> timers[u].left >= 0
  BY DEF TypeOK, TimerInv
<1>2. \A u \in Timer : timers'[u].ticking <=> timers'[u].left >= 0
  BY <1>1, TickingOps
<1>3. \A u \in t_ready' : timers'[u].left = 0
  <2>1. \A u \in t_ready' : u \in Timer /\ u # t /\ timers[u].left = 0
    BY DEF TimerInv, Serving, Running, TypeOK
  <2> QED
    BY <1>1, <2>1 DEF timer_start_oneshot, timer_clear, Disarmed
<1>4. pc = "dispatch"
  BY DEF Serving
<1> QED
  BY <1>2, <1>3, <1>4 DEF TimerInv, NoPanic

\* A step that leaves the timers alone and reports no new one.
LEMMA TimerInvQuiet ==
    ASSUME TypeOK, TimerInv, timers' = timers, t_ready' = t_ready,
           \/ pc' = pc /\ rx_ready' \subseteq rx_ready
           \/ pc' \in {"begin", "dispatch", "entry", "db_add", "check", "returned", "exit"}
              /\ (pc' \in Running => pc \in Running)
              /\ (pc' \in {"begin", "check"} => t_ready = {} /\ rx_ready' = {})
    PROVE  TimerInv'
BY DEF TimerInv, Running, NoPanic

(***************************************************************************)
(* Every step keeps TimerInv.  The delicate ones are rip_t_timeout_done,   *)
(* which arms t_gc only when it is not ticking, hence not waiting to be    *)
(* served, and check_route_changed, which runs when nothing waits.         *)
(***************************************************************************)
LEMMA TimerStep == TypeOK /\ TimerInv /\ [Next]_vars => TimerInv'
<1> SUFFICES ASSUME TypeOK, TimerInv, [Next]_vars PROVE TimerInv'
  OBVIOUS
<1> DEFINE Quiet ==
      \/ add_advertised_network_to_db \/ rip_begin_fails \/ dispatch_done
      \/ \E i \in Ifc : rip_handle_response(i) \/ rip_handle_other_message(i)
      \/ rip_handle_response_done \/ handle_non_existing_route_db_add
      \/ sig_handler \/ Restart \/ KernelDrop \/ UNCHANGED vars
<1>0. timers \in [Timer -> [ticking : BOOLEAN, left : Int]]
      /\ \A u \in Timer : timers[u].ticking <=> timers[u].left >= 0
  BY DEF TypeOK, TimerInv
<1>1. CASE Quiet
  <2>1. timers' = timers /\ t_ready' = t_ready
    BY <1>1, ZenonT(30) DEF add_advertised_network_to_db, rip_begin_fails, dispatch_done,
       rip_handle_response, rip_handle_other_message, rip_handle_response_done,
       handle_non_existing_route_db_add, sig_handler, Restart, KernelDrop, vars, local
  <2>2. \/ pc' = pc /\ rx_ready' \subseteq rx_ready
        \/ /\ pc' \in {"begin", "dispatch", "entry", "db_add", "check", "returned", "exit"}
           /\ pc' \in Running => pc \in Running
           /\ pc' \in {"begin", "check"} => t_ready = {} /\ rx_ready' = {}
    BY <1>1 DEF add_advertised_network_to_db, rip_begin_fails, dispatch_done,
       rip_handle_response, rip_handle_other_message, rip_handle_response_done,
       handle_non_existing_route_db_add, sig_handler, Restart, KernelDrop, vars, local,
       TimerInv, Running
  <2> QED
    BY <2>1, <2>2, TimerInvQuiet, ZenonT(30)
<1>2. CASE handle_ripv2_entry
  <2>1. timers' = timers /\ t_ready' = t_ready /\ rx_ready' = rx_ready /\ pc = "entry"
    BY <1>2, ZenonT(30) DEF handle_ripv2_entry
  <2>2. pc' \in {"entry", "db_add"}
    BY <1>2, <2>1 DEF handle_ripv2_entry, handle_ok_route_update, handle_non_existing_route
  <2> QED
    BY <2>1, <2>2, TimerInvQuiet DEF Running
<1>3. CASE rip_init_timers
  <2>1. \A u \in Timer : timers'[u].ticking <=> timers'[u].left >= 0
    <3>1. PICK update \in UpdateTimes, warmup \in WarmupTimes :
            timers' = [t \in Timer |->
               CASE t = "t_update" -> [ticking |-> TRUE, left |-> update]
                 [] t = "t_request_warmup" -> [ticking |-> TRUE, left |-> warmup]
                 [] t = "t_timeout" -> [ticking |-> TRUE, left |-> TIMEOUT_PERIOD_TIMER]
                 [] OTHER -> Disarmed]
      BY <1>3, ZenonT(30) DEF rip_init_timers
    <3>2. update >= 0 /\ warmup >= 0 /\ TIMEOUT_PERIOD_TIMER >= 0
      BY PeriodAssumption, SMT
    <3>3. ~(-1 >= 0)
      BY SMT
    <3> QED
      BY <3>1, <3>2, <3>3 DEF Timer, Disarmed
  <2>2. t_ready' = {} /\ rx_ready' = {} /\ pc' = "poll"
    BY <1>3 DEF rip_init_timers, local, TimerInv
  <2> QED
    BY <2>1, <2>2 DEF TimerInv, NoPanic
<1>4. CASE event_dispatcher_poll
  BY <1>4 DEF event_dispatcher_poll, Expired, TimerInv, NoPanic
<1>5. CASE check_route_changed
  <2>1. t_ready' = {} /\ rx_ready' = {} /\ pc' \in {"poll", "returned"}
    BY <1>5, ZenonT(30) DEF check_route_changed, local, TimerInv
  <2>2. ASSUME NEW lock \in LockTimes,
               timers' = timer_start_oneshot(timers, "t_triggered_lock", lock)
        PROVE  \A u \in Timer : timers'[u].ticking <=> timers'[u].left >= 0
    <3>1. lock \in Nat /\ "t_triggered_lock" \in Timer
      BY PeriodAssumption DEF Timer
    <3> QED
      BY <1>0, <2>2, <3>1, TickingOps
  <2>3. \A u \in Timer : timers'[u].ticking <=> timers'[u].left >= 0
    BY <1>0, <1>5, <2>2, ZenonT(30) DEF check_route_changed
  <2> QED
    BY <2>1, <2>3 DEF TimerInv, NoPanic
<1>6. CASE rip_t_timeout_route
  <2>1. pc = "timeout" /\ pc' \in {"timeout", "dispatch"}
        /\ UNCHANGED <<timers, rx_ready, t_ready>>
    BY <1>6 DEF rip_t_timeout_route, timeout_count, rip_route_timeout_expired
  <2> QED
    BY <2>1 DEF TimerInv, Running, NoPanic
<1>7. CASE rip_t_timeout_done
  <2> DEFINE gc == IF sweep.start_gc /\ ~timer_is_ticking(timers, "t_gc")
                   THEN timer_start_oneshot(timers, "t_gc", GC_PERIOD_TIMER) ELSE timers
  <2>1. /\ pc = "timeout" /\ pc' = "dispatch"
        /\ rx_ready' = rx_ready /\ t_ready' = t_ready
        /\ timers' = timer_start_oneshot(gc, "t_timeout", TIMEOUT_PERIOD_TIMER)
    BY <1>7 DEF rip_t_timeout_done
  <2>2. "t_gc" \in Timer /\ "t_timeout" \in Timer
        /\ GC_PERIOD_TIMER \in Nat /\ TIMEOUT_PERIOD_TIMER \in Nat
    BY PeriodAssumption DEF Timer
  <2>3. gc \in [Timer -> [ticking : BOOLEAN, left : Int]]
        /\ \A u \in Timer : gc[u].ticking <=> gc[u].left >= 0
    BY <1>0, <2>2, TimerTypes, TickingOps, ZenonT(30)
  <2>4. \A u \in t_ready : gc[u].left = 0
    <3>1. \A u \in t_ready : timers[u].left = 0 /\ u \in Timer
      BY <2>1 DEF TimerInv, Running, TypeOK
    <3>2. ~timer_is_ticking(timers, "t_gc") => "t_gc" \notin t_ready
      BY <1>0, <2>2, <3>1, SMT DEF timer_is_ticking
    <3> QED
      BY <1>0, <3>1, <3>2 DEF timer_start_oneshot
  <2> HIDE DEF gc
  <2>5. \A u \in Timer : timers'[u].ticking <=> timers'[u].left >= 0
    BY <2>1, <2>2, <2>3, TickingOps
  <2>6. \A u \in t_ready' : timers'[u].left = 0
    <3>1. "t_timeout" \notin t_ready /\ t_ready \subseteq Timer
      BY <2>1 DEF TimerInv, TypeOK
    <3> QED
      BY <2>1, <2>3, <2>4, <3>1, SMTT(30) DEF timer_start_oneshot
  <2> QED
    BY <2>1, <2>5, <2>6 DEF TimerInv, NoPanic
<1>8. CASE rip_t_update_expired
  <2>1. Serving("t_update") /\ "t_update" \in Timer /\ t_ready' = t_ready \ {"t_update"}
    BY <1>8 DEF rip_t_update_expired, TimerCallback, Timer
  <2>2. PICK value \in Nat : \/ timers' = timer_clear(timers, "t_update")
                             \/ timers' = timer_start_oneshot(timers, "t_update", value)
    BY <1>8, <2>1, NotPanicking, PeriodAssumption, ZenonT(30) DEF rip_t_update_expired, TimerCallback
  <2>3. pc' = pc
    BY <1>8, <2>1, NotPanicking, ZenonT(30) DEF rip_t_update_expired, TimerCallback
  <2> QED
    BY <2>1, <2>2, <2>3, TimerInvHandler
<1>9. ASSUME NEW t \in Timer, rip_t_oneshot_expired(t) PROVE TimerInv'
  BY <1>9, NotPanicking, TimerInvHandler, 0 \in Nat DEF rip_t_oneshot_expired, TimerCallback
<1>10. CASE rip_t_timeout_expired
  <2>1. Serving("t_timeout") /\ "t_timeout" \in Timer /\ t_ready' = t_ready \ {"t_timeout"}
    BY <1>10 DEF rip_t_timeout_expired, TimerCallback, Timer
  <2>2. timers' = timer_clear(timers, "t_timeout") /\ pc' = "timeout"
    BY <1>10, <2>1, NotPanicking DEF rip_t_timeout_expired, TimerCallback
  <2> QED
    BY <2>1, <2>2, TimerInvHandler, 0 \in Nat
<1>11. CASE rip_t_gc_expired
  <2>1. Serving("t_gc") /\ "t_gc" \in Timer /\ t_ready' = t_ready \ {"t_gc"}
    BY <1>11 DEF rip_t_gc_expired, TimerCallback, Timer
  <2>2. /\ pc' = pc
        /\ \/ timers' = timer_clear(timers, "t_gc")
           \/ timers' = timer_start_oneshot(timers, "t_gc", GC_PERIOD_TIMER)
    BY <1>11, <2>1, NotPanicking DEF rip_t_gc_expired, TimerCallback
  <2>3. GC_PERIOD_TIMER \in Nat
    BY PeriodAssumption
  <2> QED
    BY <2>1, <2>2, <2>3, TimerInvHandler
<1>12. CASE Gone
  BY <1>12, SMT DEF Gone, TimerInv, Disarmed, Running, NoPanic
<1>13. CASE Tick
  <2>1. ASSUME NEW u \in Timer
        PROVE  /\ timers'[u].ticking <=> timers'[u].left >= 0
               /\ timers[u].left = 0 => timers'[u].left = 0
    BY <1>0, <1>13, SMT DEF Tick
  <2> QED
    BY <1>13, <2>1, ZenonT(30) DEF Tick, local, TimerInv, NoPanic, TypeOK
<1> QED
  BY <1>1, <1>2, <1>3, <1>4, <1>5, <1>6, <1>7, <1>8, <1>9, <1>10, <1>11, <1>12, <1>13, SMTT(30)
  DEF Next, Startup, Handlers, Exit, rip_t_triggered_lock_expired,
      rip_t_request_warmup_expired, Timer, atexit_handler, rip_cleanup,
      exit_without_cleanup

\* The invariant of the timers holds in every reachable state.
THEOREM TimersCorrect == Spec => []TimerInv
<1>1. Init => TimerInv
  BY SMT DEF Init, Fresh, TimerInv, Disarmed, Running, NoPanic
<1> QED
  BY <1>1, TypeCorrect, TimerStep, PTL DEF Spec

(***************************************************************************)
(* No handler of a timer panics: whatever the handlers served earlier in   *)
(* the same round of the dispatcher did, a reported timer is readable.     *)
(***************************************************************************)
THEOREM NeverPanics == Spec => []NoPanic
<1>1. TimerInv => NoPanic
  BY DEF TimerInv
<1> QED
  BY <1>1, TimersCorrect, PTL

----------------------------------------------------------------------------
Ticking(t) == timers[t].ticking

\* A step inside the loop that adds no garbage and touches no timer's flag.
LEMMA WakeLoop ==
    ASSUME WakeInv, pc \in Running \ {"timeout"},
           pc' \in {"dispatch", "entry", "db_add", "check"},
           Items(db'.garbage) \subseteq Items(db.garbage),
           \A t \in {"t_timeout", "t_gc", "t_update"} : Ticking(t) => Ticking(t)'
    PROVE  WakeInv'
<1>1. /\ Ticking("t_timeout") => Ticking("t_timeout")'
      /\ Ticking("t_gc") => Ticking("t_gc")'
      /\ Ticking("t_update") => Ticking("t_update")'
  OBVIOUS
<1> QED
  BY <1>1 DEF WakeInv, Ticking, Running

\* Outside the loop nothing has to wake the daemon.
LEMMA WakeOutside == ASSUME pc' \notin Running PROVE WakeInv'
BY DEF WakeInv, Running

\* A step that changes nothing the invariant speaks of.
LEMMA WakeSame ==
    ASSUME WakeInv, pc' = pc, sweep' = sweep,
           Items(db'.garbage) = Items(db.garbage),
           db'.any_route_changed = db.any_route_changed,
           \A t \in Timer : Ticking(t) <=> Ticking(t)'
    PROVE  WakeInv'
<1>1. /\ Ticking("t_timeout") <=> Ticking("t_timeout")'
      /\ Ticking("t_gc") <=> Ticking("t_gc")'
      /\ Ticking("t_update") <=> Ticking("t_update")'
      /\ Ticking("t_triggered_lock") <=> Ticking("t_triggered_lock")'
      /\ Ticking("t_request_warmup") <=> Ticking("t_request_warmup")'
  BY DEF Timer
<1> QED
  BY <1>1 DEF WakeInv, Ticking

\* What arming or clearing a timer does to the other timers' flags.
LEMMA TickingAfter ==
    ASSUME TypeOK, NEW t \in Timer, NEW u \in Timer, NEW value
    PROVE  /\ timers' = timer_start_oneshot(timers, t, value)
                 => Ticking(t)' /\ (Ticking(u) => Ticking(u)')
           /\ timers' = timer_clear(timers, t) /\ u # t => (Ticking(u) => Ticking(u)')
<1>1. ASSUME timers' = timer_start_oneshot(timers, t, value)
      PROVE  Ticking(t)' /\ (Ticking(u) => Ticking(u)')
  <2>1. timers'[t] = [ticking |-> TRUE, left |-> value]
    BY <1>1, SMTT(30) DEF timer_start_oneshot, TypeOK
  <2>2. u # t => timers'[u] = timers[u]
    BY <1>1 DEF timer_start_oneshot, TypeOK
  <2> QED
    BY <2>1, <2>2, SMT DEF Ticking
<1>2. ASSUME timers' = timer_clear(timers, t), u # t
      PROVE  Ticking(u) => Ticking(u)'
  <2>1. timers'[u] = timers[u]
    BY <1>2 DEF timer_clear, TypeOK
  <2> QED
    BY <2>1 DEF Ticking
<1> QED
  BY <1>1, <1>2

----------------------------------------------------------------------------
\* rip_begin arms what the loop needs; there is no garbage yet.
LEMMA WakeStart == FullDbInv /\ rip_init_timers => WakeInv'
<1> SUFFICES ASSUME FullDbInv, rip_init_timers PROVE WakeInv'
  OBVIOUS
<1>1. Ticking("t_timeout")' /\ Ticking("t_update")' /\ Ticking("t_request_warmup")'
  BY SMT DEF rip_init_timers, Ticking, Timer
<1>2. Items(db'.garbage) = {} /\ pc' = "poll"
  BY DEF rip_init_timers, FullDbInv, StartInv, HashmapNew, Items
<1> QED
  BY <1>1, <1>2 DEF WakeInv, Ticking

\* After check_route_changed a change that is left has a timer.
LEMMA WakeCheck == TypeOK /\ FullDbInv /\ WakeInv /\ check_route_changed => WakeInv'
<1> SUFFICES ASSUME TypeOK, FullDbInv, WakeInv, check_route_changed PROVE WakeInv'
  OBVIOUS
<1>1. pc = "check"
  BY DEF check_route_changed
<1>2. CASE UNCHANGED <<db, timers, told>>
           /\ (timer_is_ticking(timers, "t_triggered_lock") \/ ~db.any_route_changed)
  BY <1>1, <1>2 DEF check_route_changed, WakeInv, Running, timer_is_ticking
<1>3. CASE pc' = "returned"
  BY <1>3, WakeOutside DEF Running
<1>4. ASSUME pc' = "poll", NEW lock \in LockTimes,
             timers' = timer_start_oneshot(timers, "t_triggered_lock", lock),
             db' = rip_db_mark_all_routes_as_unchanged(db)
      PROVE  WakeInv'
  <2>1. /\ Ticking("t_triggered_lock")'
        /\ Ticking("t_timeout") => Ticking("t_timeout")'
        /\ Ticking("t_gc") => Ticking("t_gc")'
        /\ Ticking("t_update") => Ticking("t_update")'
    BY <1>4, TickingAfter, SMTT(30) DEF Timer
  <2>2. Items(db'.garbage) = Items(db.garbage)
    BY <1>4, MarkEffect, SMTT(30) DEF Items, TypeOK, FullDbInv
  <2> QED
    BY <1>1, <1>4, <2>1, <2>2, SMTT(30) DEF WakeInv, Ticking, Running
<1> QED
  BY <1>2, <1>3, <1>4, ZenonT(30) DEF check_route_changed, rip_send_advertisement_multicast

\* rip_t_update_expired arms its timer again when every sendto succeeds.
LEMMA WakeUpdate ==
    TypeOK /\ FullDbInv /\ TimerInv /\ WakeInv /\ rip_t_update_expired => WakeInv'
<1> SUFFICES ASSUME TypeOK, FullDbInv, TimerInv, WakeInv, rip_t_update_expired PROVE WakeInv'
  OBVIOUS
<1>1. Serving("t_update") /\ "t_update" \in Timer
  BY DEF rip_t_update_expired, TimerCallback, Timer
<1>2. PICK failed \in SendOutcomes(db, FALSE), update \in UpdateTimes :
          /\ rip_send_advertisement_multicast(db, FALSE, failed)
          /\ timers' = IF failed # {}
                       THEN timer_clear(timers, "t_update")
                       ELSE timer_start_oneshot(timers, "t_update", update)
  BY <1>1, NotPanicking, ZenonT(30) DEF rip_t_update_expired, TimerCallback
<1>3. pc = "dispatch" /\ pc' = "dispatch"
  BY <1>1, NotPanicking, ZenonT(30) DEF rip_t_update_expired, TimerCallback, Serving
<1>4. /\ Ticking("t_timeout") => Ticking("t_timeout")'
      /\ Ticking("t_gc") => Ticking("t_gc")'
  BY <1>2, TickingAfter DEF Timer
<1>5. SendFails = {} => Ticking("t_update")'
  <2>1. SendFails = {} => failed = {}
    BY SMTT(30) DEF SendOutcomes
  <2> QED
    BY <1>1, <1>2, <2>1, TickingAfter
<1>6. Items(db'.garbage) = Items(db.garbage)
  BY <1>2, MarkEffect, SMTT(30) DEF Items, TypeOK, FullDbInv, rip_send_advertisement_multicast
<1> QED
  BY <1>3, <1>4, <1>5, <1>6 DEF WakeInv, Ticking, Running

\* rip_t_gc_expired arms its timer again as long as garbage is left.
LEMMA WakeGc == TypeOK /\ TimerInv /\ WakeInv /\ rip_t_gc_expired => WakeInv'
<1> SUFFICES ASSUME TypeOK, TimerInv, WakeInv, rip_t_gc_expired PROVE WakeInv'
  OBVIOUS
<1> DEFINE due(k) == db.garbage[k] # NULL /\ has_time_passed(db.garbage[k])
           kept(map) == [k \in Key |-> IF due(k) THEN NULL ELSE map[k]]
<1>1. Serving("t_gc") /\ "t_gc" \in Timer
  BY DEF rip_t_gc_expired, TimerCallback, Timer
<1>2. /\ db' = [db EXCEPT !.ok = kept(@), !.garbage = kept(@)]
      /\ timers' = IF Items(kept(db.garbage)) # {}
                   THEN timer_start_oneshot(timers, "t_gc", GC_PERIOD_TIMER)
                   ELSE timer_clear(timers, "t_gc")
      /\ pc' = pc
  BY <1>1, NotPanicking DEF rip_t_gc_expired, TimerCallback
<1>3. pc = "dispatch"
  BY <1>1 DEF Serving
<1>4. db'.garbage = kept(db.garbage)
  BY <1>2, DbFields, SMTT(30) DEF TypeOK
<1> HIDE DEF kept
<1>5. Items(db'.garbage) # {} => Ticking("t_gc")'
  BY <1>1, <1>2, <1>4, TickingAfter, SMTT(30)
<1>6. /\ Ticking("t_timeout") => Ticking("t_timeout")'
      /\ Ticking("t_update") => Ticking("t_update")'
  BY <1>2, TickingAfter DEF Timer
<1> QED
  BY <1>2, <1>3, <1>5, <1>6, SMTT(30) DEF WakeInv, Ticking, Running

\* The expiry of t_timeout starts the loop over the routes.
LEMMA WakeTimeout == TypeOK /\ TimerInv /\ WakeInv /\ rip_t_timeout_expired => WakeInv'
<1> SUFFICES ASSUME TypeOK, TimerInv, WakeInv, rip_t_timeout_expired PROVE WakeInv'
  OBVIOUS
<1>1. Serving("t_timeout") /\ "t_timeout" \in Timer
  BY DEF rip_t_timeout_expired, TimerCallback, Timer
<1>2. timers' = timer_clear(timers, "t_timeout") /\ pc' = "timeout" /\ db' = db
  BY <1>1, NotPanicking DEF rip_t_timeout_expired, TimerCallback
<1>3. pc = "dispatch"
  BY <1>1 DEF Serving
<1>4. /\ Ticking("t_gc") => Ticking("t_gc")'
      /\ Ticking("t_update") => Ticking("t_update")'
  BY <1>2, TickingAfter DEF Timer
<1> QED
  BY <1>2, <1>3, <1>4, SMTT(30) DEF WakeInv, Ticking, Running

(***************************************************************************)
(* One route of the loop.  The loop is left early, with t_timeout not      *)
(* armed, when the kernel does not have the route or the garbage already   *)
(* does: neither happens while nobody else touches the kernel's table.     *)
(***************************************************************************)
LEMMA WakeTimeoutRoute ==
    TypeOK /\ FullDbInv /\ KernelInv /\ WakeInv /\ rip_t_timeout_route => WakeInv'
<1> SUFFICES ASSUME TypeOK, FullDbInv, KernelInv, WakeInv, pc = "timeout", timers' = timers,
                    NEW k \in Learned(db),
                    timeout_count(k) \/ rip_route_timeout_expired(k)
             PROVE  WakeInv'
  BY DEF rip_t_timeout_route
<1>1. k \in Key /\ db.ok[k] \in Desc /\ db.ok[k] # NULL
  BY AgedType
<1>2. CASE timeout_count(k)
  <2>1. db'.garbage = db.garbage
    BY <1>2, DbFields, SMTT(30) DEF timeout_count, TypeOK
  <2>2. sweep'.start_gc = sweep.start_gc /\ pc' = "timeout"
    BY <1>2, SMTT(30) DEF timeout_count, TypeOK
  <2> QED
    BY <2>1, <2>2, SMTT(30) DEF WakeInv, Running
<1>3. CASE rip_route_timeout_expired(k)
  <2>1. ~ExternalDrop => ~rip_route_delete_fails(kernel, rip_rtnl_route_create(k, db.ok[k]))
    <3>1. ~ExternalDrop => RouteOf(k) \in kernel
      BY OwnedRoutes DEF KernelInv, RoutesOf
    <3> QED
      BY <1>1, <3>1, RouteCreated DEF rip_route_delete_fails
  <2>2. ~rip_db_move_to_garbage_fails(db, k)
    BY <1>1 DEF FullDbInv, GoodDb, GoodRoute, rip_db_move_to_garbage_fails
  <2>3. ~ExternalDrop => pc' = "timeout" /\ sweep'.start_gc
    BY <1>3, <2>1, <2>2, SMTT(30) DEF rip_route_timeout_expired
  <2>4. pc' \in {"dispatch", "timeout"}
    BY <1>3, SMTT(30) DEF rip_route_timeout_expired
  <2> QED
    BY <2>3, <2>4 DEF WakeInv, Running
<1> QED
  BY <1>2, <1>3

\* The end of the loop arms t_timeout, and t_gc when there is new garbage.
LEMMA WakeTimeoutDone == TypeOK /\ WakeInv /\ rip_t_timeout_done => WakeInv'
<1> SUFFICES ASSUME TypeOK, WakeInv, rip_t_timeout_done PROVE WakeInv'
  OBVIOUS
<1> DEFINE gc == IF sweep.start_gc /\ ~timer_is_ticking(timers, "t_gc")
                 THEN timer_start_oneshot(timers, "t_gc", GC_PERIOD_TIMER) ELSE timers
<1>1. /\ pc = "timeout" /\ pc' = "dispatch" /\ db' = db
      /\ timers' = timer_start_oneshot(gc, "t_timeout", TIMEOUT_PERIOD_TIMER)
  BY DEF rip_t_timeout_done
<1>2. timers \in [Timer -> [ticking : BOOLEAN, left : Int]] /\ GC_PERIOD_TIMER \in Nat
  BY PeriodAssumption, SMTT(30) DEF TypeOK
<1>3. gc \in [Timer -> [ticking : BOOLEAN, left : Int]]
  BY <1>2, TimerTypes DEF Timer
<1>4. gc["t_gc"].ticking \/ ~(sweep.start_gc \/ Ticking("t_gc"))
  BY <1>2 DEF timer_is_ticking, Ticking, timer_start_oneshot, Timer
<1>5. gc["t_update"] = timers["t_update"]
  BY <1>2 DEF timer_start_oneshot, Timer
<1> HIDE DEF gc
<1>6. timers'["t_timeout"].ticking /\ timers'["t_gc"] = gc["t_gc"]
      /\ timers'["t_update"] = gc["t_update"]
  BY <1>1, <1>3 DEF timer_start_oneshot, Timer
<1> QED
  BY <1>1, <1>4, <1>5, <1>6, SMTT(30) DEF WakeInv, Ticking, Running

\* An entry of a response takes at most one route out of the database.
LEMMA EntryRemoves ==
    ASSUME TypeOK, handle_ripv2_entry
    PROVE  db' = db \/ \E k \in Key : db' = rip_db_remove(db, k)
<1>1. pc = "entry"
  BY SMTT(30) DEF handle_ripv2_entry
<1>2. \A dst \in Dest : LearnedKey(rx.nbr, dst) \in Key
  BY <1>1, LearnedKeyType, ZenonT(30) DEF Key, TypeOK
<1> QED
  BY <1>2, ZenonT(30) DEF handle_ripv2_entry, is_entry_valid, handle_ok_route_update,
     handle_non_existing_route

\* Every other step inside the loop.
LEMMA WakeOther ==
    ASSUME TypeOK, FullDbInv, TimerInv, WakeInv,
           \/ \E i \in Ifc : rip_handle_response(i) \/ rip_handle_other_message(i)
           \/ rip_handle_response_done
           \/ handle_ripv2_entry
           \/ handle_non_existing_route_db_add
           \/ rip_t_triggered_lock_expired
           \/ rip_t_request_warmup_expired
           \/ event_dispatcher_poll
           \/ dispatch_done
    PROVE  WakeInv'
<1>1. CASE handle_ripv2_entry
  <2>1. pc = "entry" /\ timers' = timers
    BY <1>1, SMTT(30) DEF handle_ripv2_entry
  <2>2. pc' \in {"entry", "db_add"}
    BY <1>1, <2>1, ZenonT(30) DEF handle_ripv2_entry, handle_ok_route_update, handle_non_existing_route
  <2>3. db' = db \/ \E k \in Key : db' = rip_db_remove(db, k)
    BY <1>1, EntryRemoves
  <2>4. Items(db'.garbage) \subseteq Items(db.garbage)
    BY <2>3, RemoveEffect, SMTT(30) DEF Items, TypeOK, FullDbInv
  <2> QED
    BY <2>1, <2>2, <2>4, WakeLoop, SMTT(30) DEF Running, Ticking
<1>2. CASE handle_non_existing_route_db_add
  <2>1. pc = "db_add" /\ pc' = "entry" /\ timers' = timers
    BY <1>2 DEF handle_non_existing_route_db_add
  <2>2. db'.garbage = db.garbage
    BY <1>2, SMT DEF handle_non_existing_route_db_add, rip_db_add
  <2> QED
    BY <2>1, <2>2, WakeLoop DEF Running, Ticking
<1>3. ASSUME NEW t \in {"t_triggered_lock", "t_request_warmup"}, rip_t_oneshot_expired(t)
      PROVE  WakeInv'
  <2>1. Serving(t) /\ t \in Timer
    BY <1>3 DEF rip_t_oneshot_expired, TimerCallback, Timer
  <2>2. timers' = timer_clear(timers, t) /\ db' = db /\ pc = "dispatch" /\ pc' = "dispatch"
    BY <1>3, <2>1, NotPanicking, SMTT(30) DEF rip_t_oneshot_expired, TimerCallback, Serving
  <2>3. \A u \in {"t_timeout", "t_gc", "t_update"} : Ticking(u) => Ticking(u)'
    BY <2>1, <2>2, TickingAfter DEF Timer
  <2> QED
    BY <2>2, <2>3, WakeLoop, SMTT(30) DEF Running
<1>4. ASSUME \/ \E i \in Ifc : rip_handle_response(i) \/ rip_handle_other_message(i)
             \/ rip_handle_response_done
             \/ event_dispatcher_poll
             \/ dispatch_done
      PROVE  WakeInv'
  <2>1. /\ timers' = timers /\ db' = db
        /\ pc \in Running \ {"timeout"} /\ pc' \in {"dispatch", "entry", "check"}
    BY <1>4, SMTT(30) DEF rip_handle_response, rip_handle_other_message, rip_handle_response_done,
       event_dispatcher_poll, dispatch_done, Running
  <2> QED
    BY <2>1, WakeLoop, ZenonT(30) DEF Ticking
<1> QED
  BY <1>1, <1>2, <1>3, <1>4 DEF rip_t_triggered_lock_expired, rip_t_request_warmup_expired

(***************************************************************************)
(* Every step keeps the timers armed that the daemon needs.                *)
(***************************************************************************)
LEMMA WakeStep ==
    TypeOK /\ FullDbInv /\ TimerInv /\ KernelInv /\ WakeInv /\ [Next]_vars => WakeInv'
<1> SUFFICES ASSUME TypeOK, FullDbInv, TimerInv, KernelInv, WakeInv, [Next]_vars
             PROVE  WakeInv'
  OBVIOUS
<1>1. CASE add_advertised_network_to_db \/ rip_begin_fails \/ Exit
  <2>1. pc' \notin Running
    BY <1>1 DEF add_advertised_network_to_db, rip_begin_fails, Exit, sig_handler,
       atexit_handler, rip_cleanup, exit_without_cleanup, Gone, Restart, Running
  <2> QED
    BY <2>1, WakeOutside, ZenonT(30)
<1>2. CASE Tick
  <2>1. Items(db'.garbage) = Items(db.garbage)
    BY <1>2, TickEffect DEF Items
  <2>2. \A t \in Timer : Ticking(t) <=> Ticking(t)'
    BY <1>2, ZenonT(30) DEF Tick, Ticking, TypeOK
  <2>3. db'.any_route_changed = db.any_route_changed
    BY <1>2, DbFields, SMTT(30) DEF Tick, TypeOK
  <2> QED
    BY <1>2, <2>1, <2>2, <2>3, WakeSame, SMTT(30) DEF Tick, local
<1>3. CASE KernelDrop \/ UNCHANGED vars
  BY <1>3, WakeSame DEF KernelDrop, vars, local, Ticking
<1> QED
  BY <1>1, <1>2, <1>3, WakeStart, WakeCheck, WakeUpdate, WakeGc, WakeTimeout,
     WakeTimeoutRoute, WakeTimeoutDone, WakeOther, SMTT(30)
  DEF Next, Startup, Handlers

\* The timers the daemon needs are armed in every reachable state.
THEOREM WakeCorrect == Spec => []WakeInv
<1>1. Init => WakeInv
  BY DEF Init, Fresh, WakeInv, Running
<1> QED
  BY <1>1, WakeStep, TypeCorrect, DbCorrect, TimersCorrect, KernelAgrees, PTL DEF Spec

(***************************************************************************)
(* No lost wake-up: whenever the daemon waits in poll, a timer is armed    *)
(* for the ageing of routes, for garbage, for a change not yet sent and,   *)
(* as long as no sendto fails, for the next regular update.                *)
(***************************************************************************)
THEOREM NoWakeupIsLost == Spec => []NoLostWakeup
<1>1. TimerInv /\ WakeInv => NoLostWakeup
  <2> SUFFICES ASSUME TimerInv, WakeInv PROVE NoLostWakeup
    OBVIOUS
  <2>1. \A t \in Timer : Ticking(t) => Armed(t)
    BY DEF TimerInv, Ticking, Armed
  <2>2. /\ Ticking("t_timeout") => Armed("t_timeout")
        /\ Ticking("t_gc") => Armed("t_gc")
        /\ Ticking("t_update") => Armed("t_update")
        /\ Ticking("t_triggered_lock") => Armed("t_triggered_lock")
        /\ Ticking("t_request_warmup") => Armed("t_request_warmup")
    BY <2>1 DEF Timer
  <2> QED
    BY <2>2 DEF NoLostWakeup, WakeInv, Ticking, Running
<1> QED
  BY <1>1, TimersCorrect, WakeCorrect, PTL

----------------------------------------------------------------------------
(***************************************************************************)
(* The loop of rip_t_timeout_expired.                                      *)
(***************************************************************************)
\* What may happen while the loop runs.
LEMMA FromTimeout ==
    ASSUME [Next]_vars, pc = "timeout"
    PROVE  \/ rip_t_timeout_route
           \/ rip_t_timeout_done
           \/ Tick
           \/ pc' = "exited"
           \/ db' = db /\ sweep' = sweep /\ pc' \in {"timeout", "exit"}
<1>1. CASE Startup \/ event_dispatcher_poll
  BY <1>1 DEF Startup, event_dispatcher_poll, add_advertised_network_to_db,
     rip_init_timers, rip_begin_fails
<1>2. CASE Handlers
  BY <1>2, SMTT(30) DEF Handlers, rip_handle_response, rip_handle_other_message,
     rip_handle_response_done, handle_ripv2_entry, handle_non_existing_route_db_add,
     rip_t_update_expired, rip_t_triggered_lock_expired, rip_t_oneshot_expired,
     rip_t_timeout_expired, rip_t_gc_expired, rip_t_request_warmup_expired,
     TimerCallback, Serving, dispatch_done, check_route_changed
<1>3. CASE Exit
  BY <1>3, ZenonT(30) DEF Exit, sig_handler, atexit_handler, rip_cleanup, exit_without_cleanup,
     Gone, Restart, local
<1>4. CASE KernelDrop \/ UNCHANGED vars
  BY <1>4 DEF KernelDrop, vars, local
<1> QED
  BY <1>1, <1>2, <1>3, <1>4 DEF Next

\* How the loop is entered.
LEMMA ToTimeout ==
    ASSUME TypeOK, TimerInv, [Next]_vars, pc' = "timeout", pc # "timeout"
    PROVE  rip_t_timeout_expired /\ sweep' = NoSweep /\ ~timer_clear_fails(timers, "t_timeout")
<1>1. CASE Startup \/ event_dispatcher_poll \/ Exit
  BY <1>1 DEF Startup, event_dispatcher_poll, add_advertised_network_to_db,
     rip_init_timers, rip_begin_fails, Exit, sig_handler, atexit_handler, rip_cleanup,
     exit_without_cleanup, Gone, Restart
<1>2. CASE rip_handle_response_done \/ handle_non_existing_route_db_add \/ dispatch_done
           \/ check_route_changed \/ \E i \in Ifc : rip_handle_response(i) \/ rip_handle_other_message(i)
  BY <1>2, ZenonT(30) DEF rip_handle_response, rip_handle_other_message, rip_handle_response_done,
     handle_non_existing_route_db_add, dispatch_done, check_route_changed
<1>3. CASE handle_ripv2_entry
  BY <1>3, ZenonT(30) DEF handle_ripv2_entry, handle_ok_route_update, handle_non_existing_route
<1>4. CASE rip_t_update_expired \/ rip_t_triggered_lock_expired \/ rip_t_gc_expired
           \/ rip_t_request_warmup_expired
  BY <1>4, ZenonT(30) DEF rip_t_update_expired, rip_t_triggered_lock_expired, rip_t_oneshot_expired,
     rip_t_gc_expired, rip_t_request_warmup_expired, TimerCallback, PANIC
<1>5. CASE rip_t_timeout_expired
  BY <1>5, ZenonT(30) DEF rip_t_timeout_expired, TimerCallback, PANIC
<1>6. CASE rip_t_timeout_route \/ rip_t_timeout_done
  BY <1>6, ZenonT(30) DEF rip_t_timeout_route, rip_t_timeout_done
<1>7. CASE Tick \/ KernelDrop \/ UNCHANGED vars
  BY <1>7 DEF Tick, KernelDrop, vars
<1> QED
  BY <1>1, <1>2, <1>3, <1>4, <1>5, <1>6, <1>7 DEF Next, Handlers

\* A step of the loop changes no usable route but the one it looks at, and
\* notes that it has looked at it.
LEMMA TimeoutRouteTouches ==
    ASSUME TypeOK, rip_t_timeout_route
    PROVE  \E k \in Learned(db) \ sweep.visited :
              /\ \A j \in Key \ {k} : db'.ok[j] = db.ok[j]
              /\ pc' = "timeout" /\ ~sweep'.start_gc =>
                    /\ ~sweep.start_gc
                    /\ sweep'.aged = sweep.aged \cup {k}
                    /\ sweep'.visited = sweep.visited \cup {k}
<1>1. PICK k \in Learned(db) \ sweep.visited : timeout_count(k) \/ rip_route_timeout_expired(k)
  BY DEF rip_t_timeout_route
<1>2. k \in Key /\ db \in Db
  BY DEF Learned, TypeOK
<1>3. \A j \in Key \ {k} : db'.ok[j] = db.ok[j]
  <2>1. CASE timeout_count(k)
    BY <1>2, <2>1, DbFields DEF timeout_count, HashmapSet
  <2>2. CASE rip_route_timeout_expired(k)
    BY <1>2, <2>2, DbFields, SMTT(30) DEF rip_route_timeout_expired, rip_db_remove, HashmapDelete,
       rip_db_move_to_garbage, rip_db_move_to_garbage_oom
  <2> QED
    BY <1>1, <2>1, <2>2
<1>4. ASSUME pc' = "timeout", ~sweep'.start_gc
      PROVE  /\ ~sweep.start_gc
             /\ sweep'.aged = sweep.aged \cup {k}
             /\ sweep'.visited = sweep.visited \cup {k}
  <2>1. CASE timeout_count(k)
    BY <1>4, <2>1, SMTT(30) DEF timeout_count, TypeOK
  <2>2. CASE rip_route_timeout_expired(k)
    BY <1>4, <2>2, SMTT(30) DEF rip_route_timeout_expired
  <2> QED
    BY <1>1, <2>1, <2>2
<1> QED
  BY <1>3, <1>4

\* Every step keeps the loop's invariant.
LEMMA SweepStep == TypeOK /\ TimerInv /\ SweepInv /\ [Next]_vars => SweepInv'
<1> SUFFICES ASSUME TypeOK, TimerInv, SweepInv, [Next]_vars, pc' = "timeout", ~sweep'.start_gc
             PROVE  sweep'.aged \subseteq sweep'.visited
  BY DEF SweepInv
<1>1. CASE pc # "timeout"
  BY <1>1, ToTimeout, SMT DEF NoSweep
<1>2. CASE pc = "timeout"
  <2>1. CASE rip_t_timeout_route
    BY <1>2, <2>1, TimeoutRouteTouches, SMTT(30) DEF SweepInv
  <2>2. CASE sweep' = sweep
    BY <1>2, <2>2 DEF SweepInv
  <2>3. Tick => sweep' = sweep
    BY DEF Tick, local
  <2>4. ~rip_t_timeout_done
    BY DEF rip_t_timeout_done
  <2> QED
    BY <1>2, <2>1, <2>2, <2>3, <2>4, FromTimeout
<1> QED
  BY <1>1, <1>2

\* The loop's invariant holds in every reachable state.
THEOREM SweepCorrect == Spec => []SweepInv
<1>1. Init => SweepInv
  BY DEF Init, Fresh, SweepInv
<1> QED
  BY <1>1, SweepStep, TypeCorrect, TimersCorrect, PTL DEF Spec

(***************************************************************************)
(* rip_t_timeout_expired counts a route twice only after another one has   *)
(* expired in the same loop, however the hash table is ordered and with    *)
(* every combination of faults.                                            *)
(***************************************************************************)
THEOREM CountedOncePerLoop == Spec => RecountedOnlyAfterExpiry
<1>1. TypeOK /\ SweepInv /\ [Next]_vars =>
        [\A k \in sweep.aged :
           pc = "timeout" /\ pc' # "exited" /\ db.ok[k] # NULL /\ db'.ok[k] # db.ok[k]
           => sweep.start_gc]_vars
  <2> SUFFICES ASSUME TypeOK, SweepInv, [Next]_vars, NEW k \in sweep.aged,
                      pc = "timeout", pc' # "exited", db'.ok[k] # db.ok[k]
               PROVE  sweep.start_gc
    OBVIOUS
  <2>1. k \in Key
    BY DEF TypeOK
  <2>2. CASE rip_t_timeout_route
    BY <2>1, <2>2, TimeoutRouteTouches DEF SweepInv
  <2>3. CASE Tick
    BY <2>1, <2>3, TickEffect
  <2>4. CASE rip_t_timeout_done
    BY <2>4 DEF rip_t_timeout_done
  <2> QED
    BY <2>2, <2>3, <2>4, FromTimeout
<1> QED
  BY <1>1, TypeCorrect, SweepCorrect, PTL DEF Spec, RecountedOnlyAfterExpiry

(***************************************************************************)
(* The age of garbage.                                                     *)
(***************************************************************************)
\* A dead route that was there before, as old and no more news than it was.
Kept(k) ==
    db'.garbage[k] # NULL =>
        /\ db.garbage[k] # NULL
        /\ db'.garbage[k].gc_age = db.garbage[k].gc_age
        /\ db'.garbage[k].changed => db.garbage[k].changed

\* A route expires in the loop of rip_t_timeout_expired, or nothing is new.
LEMMA TimeoutRouteGarbage ==
    ASSUME TypeOK, FullDbInv, rip_t_timeout_route, NEW k \in Key
    PROVE  Kept(k) \/ (db'.garbage[k].gc_age = 0 /\ db'.garbage[k] # NULL)
<1>1. PICK j \in Learned(db) : timeout_count(j) \/ rip_route_timeout_expired(j)
  BY DEF rip_t_timeout_route
<1>2. j \in Key /\ db.ok[j] \in Desc /\ Aged(j) \in Desc /\ db \in Db
  BY AgedType DEF TypeOK
<1>3. CASE timeout_count(j)
  <2>1. db'.garbage = db.garbage
    BY <1>2, <1>3, DbFields, SMT DEF timeout_count
  <2> QED
    BY <2>1 DEF Kept
<1>4. CASE rip_route_timeout_expired(j)
  <2> DEFINE dead == [Aged(j) EXCEPT !.changed = TRUE,
                                     !.metric = Htonl(INFINITY_METRIC),
                                     !.in_routing_table = FALSE, !.gc_age = 0]
  <2>1. dead \in Desc
    BY <1>2, InfiniteType, ZenonT(30) DEF Desc
  <2>2. dead.gc_age = 0 /\ dead # NULL
    BY <1>2, <2>1, DescNotNull, ZenonT(30) DEF Desc
  <2>3. \/ db' = rip_db_move_to_garbage(db, j, dead)
        \/ db' = rip_db_move_to_garbage_oom(db, j, dead)
        \/ db' = rip_db_remove(db, j)
    BY <1>4 DEF rip_route_timeout_expired
  <2> HIDE DEF dead
  <2>4. db'.garbage[k] \in {NULL, db.garbage[k], dead}
    BY <1>2, <2>3, DbFields, RemoveEffect, SMTT(30) DEF rip_db_move_to_garbage, FullDbInv,
       rip_db_move_to_garbage_oom, HashmapSet
  <2> QED
    BY <2>2, <2>4 DEF Kept
<1> QED
  BY <1>1, <1>3, <1>4

\* Collection keeps exactly the dead routes that are not due.
LEMMA GcGarbage ==
    ASSUME TypeOK, TimerInv, rip_t_gc_expired
    PROVE  /\ \A k \in Key : /\ Kept(k)
                             /\ db'.garbage[k] # NULL <=>
                                  db.garbage[k] # NULL /\ ~has_time_passed(db.garbage[k])
           /\ timers' = IF Items(db'.garbage) # {}
                        THEN timer_start_oneshot(timers, "t_gc", GC_PERIOD_TIMER)
                        ELSE timer_clear(timers, "t_gc")
           /\ pc = "dispatch" /\ pc' = "dispatch"
<1> DEFINE due(k) == db.garbage[k] # NULL /\ has_time_passed(db.garbage[k])
           kept(map) == [k \in Key |-> IF due(k) THEN NULL ELSE map[k]]
<1>1. Serving("t_gc") /\ "t_gc" \in Timer
  BY DEF rip_t_gc_expired, TimerCallback, Timer
<1>2. /\ db' = [db EXCEPT !.ok = kept(@), !.garbage = kept(@)]
      /\ timers' = IF Items(kept(db.garbage)) # {}
                   THEN timer_start_oneshot(timers, "t_gc", GC_PERIOD_TIMER)
                   ELSE timer_clear(timers, "t_gc")
      /\ pc' = pc
  BY <1>1, NotPanicking DEF rip_t_gc_expired, TimerCallback
<1>3. pc = "dispatch"
  BY <1>1 DEF Serving
<1>4. db'.garbage = kept(db.garbage)
  BY <1>2, DbFields, SMTT(30) DEF TypeOK
<1>5. \A k \in Key : /\ Kept(k)
                     /\ db'.garbage[k] # NULL <=>
                          db.garbage[k] # NULL /\ ~has_time_passed(db.garbage[k])
  BY <1>4, ZenonT(30) DEF Kept
<1> QED
  BY <1>2, <1>3, <1>4, <1>5

\* A step inside the loop, other than the clock's and those of the loop over
\* the routes, adds nothing to the garbage.
LEMMA GarbageKept ==
    ASSUME TypeOK, FullDbInv, TimerInv, [Next]_vars, ~Tick, ~rip_t_timeout_route,
           pc \in Running, pc' \in Running, NEW k \in Key
    PROVE  Kept(k)
<1>1. CASE db' = db
  BY <1>1, SMTT(30) DEF Kept
<1>2. CASE db' = rip_db_mark_all_routes_as_unchanged(db)
  BY <1>2, MarkEffect DEF Kept, FullDbInv, TypeOK
<1>3. CASE Startup \/ event_dispatcher_poll \/ Exit \/ KernelDrop \/ UNCHANGED vars
  BY <1>1, <1>3, ZenonT(30) DEF Startup, event_dispatcher_poll, add_advertised_network_to_db,
     rip_init_timers, rip_begin_fails, Exit, sig_handler, atexit_handler, rip_cleanup,
     exit_without_cleanup, Gone, Restart, Running, KernelDrop, vars
<1>4. CASE \/ \E i \in Ifc : rip_handle_response(i) \/ rip_handle_other_message(i)
           \/ rip_handle_response_done
           \/ rip_t_timeout_done
           \/ dispatch_done
  BY <1>1, <1>4, ZenonT(30) DEF rip_handle_response, rip_handle_other_message,
     rip_handle_response_done, rip_t_timeout_done, dispatch_done
<1>5. CASE rip_t_triggered_lock_expired \/ rip_t_timeout_expired \/ rip_t_request_warmup_expired
  BY <1>1, <1>5, ZenonT(30) DEF rip_t_triggered_lock_expired, rip_t_oneshot_expired,
     rip_t_timeout_expired, rip_t_request_warmup_expired, TimerCallback, PANIC
<1>6. CASE check_route_changed \/ rip_t_update_expired
  BY <1>1, <1>2, <1>6, ZenonT(30) DEF check_route_changed, rip_t_update_expired, TimerCallback,
     PANIC, rip_send_advertisement_multicast
<1>7. CASE handle_ripv2_entry
  <2>1. ASSUME NEW j \in Key, db' = rip_db_remove(db, j) PROVE Kept(k)
    <3>1. db \in Db /\ GoodDb(db)
      BY DEF FullDbInv, TypeOK
    <3>2. db'.garbage[k] = IF k = j THEN NULL ELSE db.garbage[k]
      BY <2>1, <3>1, RemoveEffect
    <3> QED
      BY <3>2 DEF Kept
  <2> QED
    BY <1>1, <1>7, <2>1, EntryRemoves
<1>8. CASE handle_non_existing_route_db_add
  BY <1>8, SMTT(30) DEF handle_non_existing_route_db_add, rip_db_add, Kept
<1>9. CASE rip_t_gc_expired
  BY <1>9, GcGarbage
<1> QED
  BY <1>3, <1>4, <1>5, <1>6, <1>7, <1>8, <1>9 DEF Next, Handlers

\* Arming or clearing a timer does nothing to another one.
LEMMA OtherTimer ==
    ASSUME TypeOK, NEW u \in Timer, NEW t \in Timer, t # u, NEW value
    PROVE  /\ timer_start_oneshot(timers, u, value)[t] = timers[t]
           /\ timer_clear(timers, u)[t] = timers[t]
BY DEF timer_start_oneshot, timer_clear, TypeOK

\* Which steps of the loop arm or clear t_gc and t_triggered_lock.
LEMMA TimerTouched ==
    ASSUME TypeOK, TimerInv, [Next]_vars, ~Tick, pc \in Running, pc' \in Running
    PROVE  /\ \/ timers'["t_gc"] = timers["t_gc"]
              \/ rip_t_gc_expired \/ rip_t_timeout_done
           /\ \/ timers'["t_triggered_lock"] = timers["t_triggered_lock"]
              \/ rip_t_triggered_lock_expired \/ check_route_changed
<1> DEFINE Same(t) == timers'[t] = timers[t]
<1>0. Timer = {"t_update", "t_triggered_lock", "t_timeout", "t_gc", "t_request_warmup"}
  BY DEF Timer
<1>1. CASE timers' = timers
  BY <1>1
<1>2. CASE Startup \/ event_dispatcher_poll \/ Exit \/ KernelDrop \/ UNCHANGED vars
  <2>1. timers' = timers
    BY <1>2, ZenonT(30) DEF Startup, event_dispatcher_poll, add_advertised_network_to_db,
       rip_init_timers, rip_begin_fails, Exit, sig_handler, atexit_handler, rip_cleanup,
       exit_without_cleanup, Gone, Restart, Running, KernelDrop, vars
  <2> QED
    BY <2>1
<1>3. CASE \/ \E i \in Ifc : rip_handle_response(i) \/ rip_handle_other_message(i)
           \/ rip_handle_response_done
           \/ handle_ripv2_entry
           \/ handle_non_existing_route_db_add
           \/ rip_t_timeout_route
           \/ dispatch_done
  <2>1. timers' = timers
    BY <1>3, ZenonT(30) DEF rip_handle_response, rip_handle_other_message, handle_ripv2_entry,
       rip_handle_response_done, rip_t_timeout_route, dispatch_done,
       handle_non_existing_route_db_add
  <2> QED
    BY <2>1
<1>4. CASE rip_t_update_expired
  <2>1. \/ timers' = timers
        \/ timers' = timer_clear(timers, "t_update")
        \/ \E value \in UpdateTimes : timers' = timer_start_oneshot(timers, "t_update", value)
    BY <1>4, ZenonT(30) DEF rip_t_update_expired, TimerCallback, PANIC
  <2> QED
    BY <1>0, <2>1, OtherTimer, SMT
<1>5. ASSUME NEW t \in {"t_triggered_lock", "t_request_warmup"}, rip_t_oneshot_expired(t)
      PROVE  timers' = timers \/ timers' = timer_clear(timers, t)
  BY <1>5, ZenonT(30) DEF rip_t_oneshot_expired, TimerCallback, PANIC
<1>6. CASE rip_t_triggered_lock_expired
  BY <1>0, <1>5, <1>6, OtherTimer DEF rip_t_triggered_lock_expired
<1>7. CASE rip_t_request_warmup_expired
  BY <1>0, <1>5, <1>7, OtherTimer DEF rip_t_request_warmup_expired
<1>8. CASE rip_t_timeout_expired
  <2>1. timers' = timers \/ timers' = timer_clear(timers, "t_timeout")
    BY <1>8, ZenonT(30) DEF rip_t_timeout_expired, TimerCallback, PANIC
  <2> QED
    BY <1>0, <2>1, OtherTimer
<1>9. CASE rip_t_timeout_done
  <2>1. Same("t_triggered_lock")
    BY <1>9, SMTT(30) DEF rip_t_timeout_done, timer_start_oneshot, TypeOK, Timer
  <2> QED
    BY <1>9, <2>1, SMTT(30)
<1>10. CASE rip_t_gc_expired
  BY <1>0, <1>10, GcGarbage, OtherTimer, SMT
<1>11. CASE check_route_changed
  <2>1. \/ timers' = timers
        \/ \E value \in LockTimes : timers' = timer_start_oneshot(timers, "t_triggered_lock", value)
    BY <1>11, ZenonT(30) DEF check_route_changed
  <2>2. Same("t_gc")
    BY <1>0, <2>1, OtherTimer, SMTT(30)
  <2> QED
    BY <1>11, <2>2
<1> QED
  BY <1>2, <1>3, <1>4, <1>6, <1>7, <1>8, <1>9, <1>10, <1>11 DEF Next, Handlers

\* Time passes in poll, when no timer has expired: an armed timer comes one
\* closer to its expiry, a dead route ages by at most one.
LEMMA PromptTick ==
    ASSUME TypeOK, FullDbInv, TimerInv, PromptHandlers, Tick
    PROVE  /\ pc = "poll" /\ pc' = "poll"
           /\ \A t \in Timer : /\ timers'[t].ticking = timers[t].ticking
                               /\ timers[t].ticking => timers'[t].left = timers[t].left - 1
                               /\ timers'[t].left <= timers[t].left
           /\ \A k \in Key : db'.garbage[k] # NULL =>
                 /\ db.garbage[k] # NULL
                 /\ db'.garbage[k].changed = db.garbage[k].changed
                 /\ db'.garbage[k].gc_age <= db.garbage[k].gc_age + 1
<1>1. pc = "poll" /\ pc' = "poll" /\ Expired(timers) = {}
  BY DEF Tick, PromptHandlers
<1>2. ASSUME NEW t \in Timer
      PROVE  /\ timers'[t].ticking = timers[t].ticking
             /\ timers[t].ticking => timers'[t].left = timers[t].left - 1
             /\ timers'[t].left <= timers[t].left
  <2>1. timers[t] \in [ticking : BOOLEAN, left : Int]
    BY DEF TypeOK
  <2>2. timers'[t] = [timers[t] EXCEPT !.left = IF @ > 0 THEN @ - 1 ELSE @]
    BY DEF Tick
  <2>3. timers[t].left # 0 /\ (timers[t].ticking <=> timers[t].left >= 0)
    BY <1>1, SMTT(30) DEF Expired, TimerInv
  <2>4. timers'[t].ticking = timers[t].ticking
        /\ timers'[t].left = IF timers[t].left > 0 THEN timers[t].left - 1 ELSE timers[t].left
    BY <2>1, <2>2
  <2> QED
    BY <2>1, <2>3, <2>4, SMT
<1>3. ASSUME NEW k \in Key, db'.garbage[k] # NULL
      PROVE  /\ db.garbage[k] # NULL
             /\ db'.garbage[k].changed = db.garbage[k].changed
             /\ db'.garbage[k].gc_age <= db.garbage[k].gc_age + 1
  <2>1. db.garbage[k] # NULL /\ db'.garbage[k].changed = db.garbage[k].changed
    BY <1>3, TickEffect
  <2>2. db.garbage[k] \in Desc
    BY <2>1, DbFields DEF TypeOK
  <2>3. db'.garbage = ForEach(db.garbage, Older)
    BY DbFields, SMT DEF Tick, TypeOK
  <2>4. db'.garbage[k] = Older(db.garbage[k])
    BY <2>1, <2>3 DEF ForEach
  <2>5. db'.garbage[k].gc_age \in {db.garbage[k].gc_age, db.garbage[k].gc_age + 1}
    BY <2>2, <2>4 DEF Older, Desc
  <2>6. db.garbage[k].gc_age \in Nat
    BY <2>2 DEF Desc
  <2> QED
    BY <2>1, <2>5, <2>6, SMT
<1> QED
  BY <1>1, <1>2, <1>3

\* The loop is entered with the timers just armed and no garbage.
LEMMA EnterLoop ==
    ASSUME TypeOK, FullDbInv, [Next]_vars, pc \notin Running, pc' \in Running
    PROVE  /\ pc' = "poll"
           /\ timers'["t_gc"] = Disarmed /\ timers'["t_triggered_lock"] = Disarmed
           /\ Items(db'.garbage) = {}
<1>1. ~Tick /\ ~KernelDrop /\ ~UNCHANGED vars
  BY DEF Tick, KernelDrop, vars
<1>2. ~event_dispatcher_poll /\ ~Exit
  BY DEF event_dispatcher_poll, Exit, sig_handler, atexit_handler, rip_cleanup,
     exit_without_cleanup, Gone, Restart, Running
<1>3. ~Handlers
  <2>1. ASSUME NEW t, Serving(t) PROVE FALSE
    BY <2>1 DEF Serving, Running
  <2>2. /\ ~rip_t_update_expired /\ ~rip_t_triggered_lock_expired /\ ~rip_t_timeout_expired
        /\ ~rip_t_gc_expired /\ ~rip_t_request_warmup_expired
    BY <2>1, ZenonT(30) DEF rip_t_update_expired, rip_t_triggered_lock_expired,
       rip_t_oneshot_expired, rip_t_timeout_expired, rip_t_gc_expired,
       rip_t_request_warmup_expired, TimerCallback
  <2>3. \A i \in Ifc : ~rip_handle_response(i) /\ ~rip_handle_other_message(i)
    BY DEF rip_handle_response, rip_handle_other_message, Running
  <2>4. /\ ~rip_handle_response_done /\ ~handle_ripv2_entry /\ ~handle_non_existing_route_db_add
        /\ ~rip_t_timeout_route /\ ~rip_t_timeout_done /\ ~dispatch_done /\ ~check_route_changed
    BY ZenonT(30) DEF rip_handle_response_done, handle_ripv2_entry, Running, dispatch_done,
       handle_non_existing_route_db_add, rip_t_timeout_route, rip_t_timeout_done,
       check_route_changed
  <2> QED
    BY <2>2, <2>3, <2>4 DEF Handlers
<1>4. ~add_advertised_network_to_db /\ ~rip_begin_fails
  BY DEF add_advertised_network_to_db, rip_begin_fails, Running
<1>5. rip_init_timers
  BY <1>1, <1>2, <1>3, <1>4 DEF Next, Startup
<1>6. timers'["t_gc"] = Disarmed /\ timers'["t_triggered_lock"] = Disarmed
  BY <1>5, SMTT(30) DEF rip_init_timers, Timer
<1>7. Items(db'.garbage) = {} /\ pc' = "poll"
  BY <1>5 DEF rip_init_timers, FullDbInv, StartInv, HashmapNew, Items
<1> QED
  BY <1>6, <1>7

\* What the arithmetic below needs to know of ages and timers.
LEMMA AgeTypes ==
    ASSUME TypeOK
    PROVE  /\ \A k \in Key : db.garbage[k] # NULL => db.garbage[k].gc_age \in Nat
           /\ \A t \in Timer : timers[t].left \in Int
<1>1. ASSUME NEW k \in Key, db.garbage[k] # NULL PROVE db.garbage[k].gc_age \in Nat
  <2>1. db.garbage[k] \in Desc
    BY <1>1, DbFields DEF TypeOK
  <2> QED
    BY <2>1 DEF Desc
<1>2. \A t \in Timer : timers[t].left \in Int
  BY SMTT(30) DEF TypeOK
<1> QED
  BY <1>1, <1>2

(***************************************************************************)
(* Every step keeps the bound on the age of garbage.  A new dead route     *)
(* starts at age 0, whatever t_gc has left; t_gc is armed again with the   *)
(* full period only for routes that are not due, or have just died.        *)
(***************************************************************************)
LEMMA GcStep ==
    TypeOK /\ TypeOK' /\ FullDbInv /\ TimerInv /\ WakeInv /\ GcInv /\ [Next]_vars => GcInv'
<1> SUFFICES ASSUME TypeOK, TypeOK', FullDbInv, TimerInv, WakeInv, GcInv, [Next]_vars,
                    PromptHandlers, ~ExternalDrop, pc' \in Running
             PROVE  /\ timers'["t_gc"].left <= GC_PERIOD_TIMER
                    /\ \A k \in Items(db'.garbage) :
                         IF timers'["t_gc"].ticking
                         THEN db'.garbage[k].gc_age + timers'["t_gc"].left
                                < GC_PERIOD_RFC + GC_PERIOD_TIMER
                         ELSE db'.garbage[k].gc_age = 0
  BY DEF GcInv
<1> DEFINE Age(k) == db.garbage[k].gc_age
           left == timers["t_gc"].left
           ticking == timers["t_gc"].ticking
<1>1. GC_PERIOD_TIMER \in Nat \ {0} /\ GC_PERIOD_RFC \in Nat \ {0} /\ "t_gc" \in Timer
  BY PeriodAssumption DEF Timer
<1>2. left \in Int /\ \A k \in Key : db.garbage[k] # NULL => Age(k) \in Nat
  BY <1>1, AgeTypes
<1>3. \A k \in Key : db'.garbage[k] # NULL => db'.garbage[k].gc_age \in Nat
  <2>1. ASSUME NEW k \in Key, db'.garbage[k] # NULL PROVE db'.garbage[k].gc_age \in Nat
    <3>1. db'.garbage[k] \in Desc
      BY <2>1, DbFields, SMTT(30) DEF TypeOK
    <3> QED
      BY <3>1 DEF Desc
  <2> QED
    BY <2>1
<1>4. pc \in Running =>
        /\ left <= GC_PERIOD_TIMER
        /\ \A k \in Key : db.garbage[k] # NULL =>
             IF ticking THEN Age(k) + left < GC_PERIOD_RFC + GC_PERIOD_TIMER ELSE Age(k) = 0
  BY DEF GcInv, Items
<1> SUFFICES ASSUME NEW k
             PROVE  /\ timers'["t_gc"].left <= GC_PERIOD_TIMER
                    /\ k \in Key /\ db'.garbage[k] # NULL =>
                         IF timers'["t_gc"].ticking
                         THEN db'.garbage[k].gc_age + timers'["t_gc"].left
                                < GC_PERIOD_RFC + GC_PERIOD_TIMER
                         ELSE db'.garbage[k].gc_age = 0
  BY DEF Items
<1>5. CASE pc \notin Running
  <2>1. timers'["t_gc"] = Disarmed /\ (k \in Key => db'.garbage[k] = NULL)
    BY <1>5, EnterLoop DEF Items
  <2> QED
    BY <1>1, <2>1, SMT DEF Disarmed
<1>6. CASE Tick
  <2>1. pc = "poll" /\ timers'["t_gc"].ticking = ticking
        /\ (ticking => timers'["t_gc"].left = left - 1)
        /\ timers'["t_gc"].left <= left
        /\ (k \in Key /\ db'.garbage[k] # NULL =>
              db.garbage[k] # NULL /\ db'.garbage[k].gc_age <= Age(k) + 1)
    BY <1>1, <1>6, PromptTick, SMTT(30)
  <2>2. pc \in Running /\ (k \in Key /\ db.garbage[k] # NULL => ticking)
    BY <2>1, SMTT(30) DEF WakeInv, Running, Items
  <2>3. timers'["t_gc"].left \in Int
    BY <1>1, AgeTypes, SMTT(30) DEF TypeOK
  <2> QED
    BY <1>1, <1>2, <1>3, <1>4, <2>1, <2>2, <2>3, SMTT(30)
<1>7. CASE rip_t_gc_expired
  <2>1. /\ k \in Key /\ db'.garbage[k] # NULL => /\ db.garbage[k] # NULL
                                                  /\ ~has_time_passed(db.garbage[k])
                                                  /\ db'.garbage[k].gc_age = Age(k)
                                                  /\ Items(db'.garbage) # {}
        /\ timers' = IF Items(db'.garbage) # {}
                     THEN timer_start_oneshot(timers, "t_gc", GC_PERIOD_TIMER)
                     ELSE timer_clear(timers, "t_gc")
    <3>1. /\ \A l \in Key : /\ Kept(l)
                            /\ db'.garbage[l] # NULL <=>
                                 db.garbage[l] # NULL /\ ~has_time_passed(db.garbage[l])
          /\ timers' = IF Items(db'.garbage) # {}
                       THEN timer_start_oneshot(timers, "t_gc", GC_PERIOD_TIMER)
                       ELSE timer_clear(timers, "t_gc")
      BY <1>7, GcGarbage
    <3>2. k \in Key /\ db'.garbage[k] # NULL => k \in Items(db'.garbage)
      BY DEF Items
    <3> QED
      BY <3>1, <3>2 DEF Kept
  <2>2. timers'["t_gc"] = IF Items(db'.garbage) # {}
                          THEN [ticking |-> TRUE, left |-> GC_PERIOD_TIMER] ELSE Disarmed
    BY <1>1, <2>1, SMTT(30) DEF timer_start_oneshot, timer_clear, TypeOK
  <2> QED
    BY <1>1, <1>2, <2>1, <2>2, SMTT(30) DEF has_time_passed, Disarmed
<1>8. CASE rip_t_timeout_done
  <2>1. timers'["t_gc"] = IF sweep.start_gc /\ ~ticking
                          THEN [ticking |-> TRUE, left |-> GC_PERIOD_TIMER] ELSE timers["t_gc"]
    <3> DEFINE gc == IF sweep.start_gc /\ ~timer_is_ticking(timers, "t_gc")
                     THEN timer_start_oneshot(timers, "t_gc", GC_PERIOD_TIMER) ELSE timers
    <3>1. timers' = timer_start_oneshot(gc, "t_timeout", TIMEOUT_PERIOD_TIMER)
      BY <1>8 DEF rip_t_timeout_done
    <3>2. timers \in [Timer -> [ticking : BOOLEAN, left : Int]]
      BY DEF TypeOK
    <3>3. gc \in [Timer -> [ticking : BOOLEAN, left : Int]]
      BY <1>1, <3>2, TimerTypes
    <3>4. gc["t_gc"] = IF sweep.start_gc /\ ~ticking
                       THEN [ticking |-> TRUE, left |-> GC_PERIOD_TIMER] ELSE timers["t_gc"]
      BY <1>1, <3>2, SMTT(30) DEF timer_start_oneshot, timer_is_ticking
    <3> HIDE DEF gc
    <3>5. timers'["t_gc"] = gc["t_gc"]
      BY <3>1, <3>3 DEF timer_start_oneshot, Timer
    <3> QED
      BY <3>4, <3>5
  <2>2. db' = db /\ pc \in Running
    BY <1>8, SMTT(30) DEF rip_t_timeout_done, Running
  <2> QED
    BY <1>1, <1>2, <1>4, <2>1, <2>2, SMTT(30)
<1>9. CASE rip_t_timeout_route
  <2>1. timers' = timers /\ pc \in Running
    BY <1>9, SMTT(30) DEF rip_t_timeout_route, Running
  <2>2. k \in Key /\ db'.garbage[k] # NULL =>
          \/ db'.garbage[k].gc_age = 0
          \/ db.garbage[k] # NULL /\ db'.garbage[k].gc_age = Age(k)
    BY <1>9, TimeoutRouteGarbage, SMTT(30) DEF Kept
  <2> QED
    BY <1>1, <1>2, <1>4, <2>1, <2>2, SMTT(30)
<1>10. CASE pc \in Running /\ ~Tick /\ ~rip_t_gc_expired /\ ~rip_t_timeout_done /\ ~rip_t_timeout_route
  <2>1. timers'["t_gc"] = timers["t_gc"]
    BY <1>10, TimerTouched
  <2>2. k \in Key /\ db'.garbage[k] # NULL =>
          db.garbage[k] # NULL /\ db'.garbage[k].gc_age = Age(k)
    BY <1>10, GarbageKept DEF Kept
  <2> QED
    BY <1>1, <1>2, <1>4, <1>10, <2>1, <2>2
<1> QED
  BY <1>5, <1>6, <1>7, <1>8, <1>9, <1>10

\* The bound on the age of garbage holds in every reachable state.
THEOREM GcCorrect == Spec => []GcInv
<1>1. Init => GcInv
  BY DEF Init, Fresh, GcInv, Running
<1> QED
  BY <1>1, GcStep, TypeCorrect, DbCorrect, TimersCorrect, WakeCorrect, PTL DEF Spec

(***************************************************************************)
(* As long as handlers take no time and nobody else touches the kernel's   *)
(* table, a dead route is collected in time: the daemon never waits with   *)
(* garbage that is older than both garbage collection periods together,    *)
(* although a route may die at any moment of a running t_gc.               *)
(***************************************************************************)
THEOREM GarbageIsCollectedInTime ==
    ASSUME PromptHandlers, ~ExternalDrop
    PROVE  Spec => []GarbageInTime
<1>1. TypeOK /\ TimerInv /\ WakeInv /\ GcInv => GarbageInTime
  <2> SUFFICES ASSUME TypeOK, TimerInv, WakeInv, GcInv, pc = "poll", NEW k \in Items(db.garbage)
               PROVE  db.garbage[k].gc_age < GC_PERIOD_RFC + GC_PERIOD_TIMER
    BY DEF GarbageInTime
  <2>1. "t_gc" \in Timer /\ timers["t_gc"].ticking
    BY DEF WakeInv, Running, Timer
  <2>2. timers["t_gc"].left >= 0 /\ timers["t_gc"].left \in Int
    BY <2>1, AgeTypes DEF TimerInv
  <2>3. db.garbage[k].gc_age + timers["t_gc"].left < GC_PERIOD_RFC + GC_PERIOD_TIMER
    BY <2>1 DEF GcInv, Running
  <2>4. db.garbage[k].gc_age \in Nat
    BY AgeTypes DEF Items
  <2> QED
    BY <2>2, <2>3, <2>4, PeriodAssumption, SMT
<1> QED
  BY <1>1, TypeCorrect, TimersCorrect, WakeCorrect, GcCorrect, PTL

----------------------------------------------------------------------------
\* check_route_changed is the last thing before the daemon waits again.
LEMMA ToPoll ==
    ASSUME TypeOK, TimerInv, [Next]_vars, pc \in Running, pc' = "poll", pc # "poll"
    PROVE  check_route_changed
<1>1. CASE Startup \/ event_dispatcher_poll \/ Exit
  BY <1>1 DEF Startup, event_dispatcher_poll, add_advertised_network_to_db,
     rip_init_timers, rip_begin_fails, Exit, sig_handler, atexit_handler, rip_cleanup,
     exit_without_cleanup, Gone, Restart, Running
<1>2. CASE rip_handle_response_done \/ handle_non_existing_route_db_add \/ dispatch_done
           \/ \E i \in Ifc : rip_handle_response(i) \/ rip_handle_other_message(i)
  BY <1>2, ZenonT(30) DEF rip_handle_response, rip_handle_other_message, rip_handle_response_done,
     handle_non_existing_route_db_add, dispatch_done
<1>3. CASE handle_ripv2_entry
  BY <1>3, ZenonT(30) DEF handle_ripv2_entry, handle_ok_route_update, handle_non_existing_route
<1>4. CASE rip_t_update_expired \/ rip_t_triggered_lock_expired \/ rip_t_gc_expired
           \/ rip_t_request_warmup_expired \/ rip_t_timeout_expired
  BY <1>4, ZenonT(30) DEF rip_t_update_expired, rip_t_triggered_lock_expired, rip_t_oneshot_expired,
     rip_t_gc_expired, rip_t_request_warmup_expired, rip_t_timeout_expired, TimerCallback, PANIC
<1>5. CASE rip_t_timeout_route \/ rip_t_timeout_done
  BY <1>5 DEF rip_t_timeout_route, rip_t_timeout_done, timeout_count, rip_route_timeout_expired
<1>6. CASE Tick \/ KernelDrop \/ UNCHANGED vars
  BY <1>6 DEF Tick, KernelDrop, vars
<1> QED
  BY <1>1, <1>2, <1>3, <1>4, <1>5, <1>6 DEF Next, Handlers

\* check_route_changed leaves no news behind that no lock holds back.
LEMMA CheckLocks ==
    ASSUME TypeOK, FullDbInv, check_route_changed, pc' = "poll"
    PROVE  \/ /\ timers' = timers /\ db' = db
              /\ \/ timers["t_triggered_lock"].ticking
                 \/ \A k \in Key : db.garbage[k] # NULL => ~db.garbage[k].changed
           \/ /\ \E lock \in LockTimes :
                    timers'["t_triggered_lock"] = [ticking |-> TRUE, left |-> lock]
              /\ \A k \in Key : db'.garbage[k] # NULL => ~db'.garbage[k].changed
<1>1. CASE timers' = timers /\ db' = db
           /\ (timer_is_ticking(timers, "t_triggered_lock") \/ ~db.any_route_changed)
  BY <1>1 DEF timer_is_ticking, FullDbInv, GoodDb, GoodRoute
<1>2. ASSUME NEW lock \in LockTimes,
             timers' = timer_start_oneshot(timers, "t_triggered_lock", lock),
             db' = rip_db_mark_all_routes_as_unchanged(db)
      PROVE  /\ timers'["t_triggered_lock"] = [ticking |-> TRUE, left |-> lock]
             /\ \A k \in Key : db'.garbage[k] # NULL => ~db'.garbage[k].changed
  <2>1. timers'["t_triggered_lock"] = [ticking |-> TRUE, left |-> lock]
    BY <1>2, ZenonT(30) DEF timer_start_oneshot, TypeOK, Timer
  <2>2. \A k \in Key : db'.garbage[k] # NULL => ~db'.garbage[k].changed
    BY <1>2, MarkEffect, ZenonT(30) DEF TypeOK, FullDbInv
  <2> QED
    BY <2>1, <2>2
<1> QED
  BY <1>1, <1>2, ZenonT(30) DEF check_route_changed, rip_send_advertisement_multicast

(***************************************************************************)
(* Every step keeps the bound on how long a dead route goes unadvertised.  *)
(***************************************************************************)
LEMMA LockStep ==
    TypeOK /\ TypeOK' /\ FullDbInv /\ TimerInv /\ LockInv /\ [Next]_vars => LockInv'
<1> SUFFICES ASSUME TypeOK, TypeOK', FullDbInv, TimerInv, LockInv, [Next]_vars,
                    PromptHandlers, ShortLocks, pc' \in Running, NEW k
             PROVE  /\ timers'["t_triggered_lock"].left < GC_PERIOD_RFC
                    /\ k \in Key /\ db'.garbage[k] # NULL /\ db'.garbage[k].changed =>
                         /\ db'.garbage[k].gc_age < GC_PERIOD_RFC
                         /\ pc' = "poll" => timers'["t_triggered_lock"].ticking
                         /\ timers'["t_triggered_lock"].ticking =>
                              db'.garbage[k].gc_age + timers'["t_triggered_lock"].left
                                < GC_PERIOD_RFC
  BY DEF LockInv, Items
<1> DEFINE age == db.garbage[k].gc_age
           left == timers["t_triggered_lock"].left
           ticking == timers["t_triggered_lock"].ticking
           news == k \in Key /\ db.garbage[k] # NULL /\ db.garbage[k].changed
<1>1. GC_PERIOD_RFC \in Nat \ {0} /\ "t_triggered_lock" \in Timer
  BY PeriodAssumption, SMTT(30) DEF Timer
<1>2. left \in Int /\ (news => age \in Nat) /\ timers'["t_triggered_lock"].left \in Int
  BY <1>1, AgeTypes DEF TypeOK
<1>3. k \in Key /\ db'.garbage[k] # NULL => db'.garbage[k].gc_age \in Nat
  <2>1. k \in Key /\ db'.garbage[k] # NULL => db'.garbage[k] \in Desc
    BY DbFields, SMT DEF TypeOK
  <2> QED
    BY <2>1 DEF Desc
<1>4. pc \in Running =>
        /\ left < GC_PERIOD_RFC
        /\ news => /\ age < GC_PERIOD_RFC
                   /\ pc = "poll" => ticking
                   /\ ticking => age + left < GC_PERIOD_RFC
  BY DEF LockInv, Items
<1>5. CASE pc \notin Running
  <2>1. timers'["t_triggered_lock"] = Disarmed /\ (k \in Key => db'.garbage[k] = NULL)
    BY <1>5, EnterLoop, SMTT(30) DEF Items
  <2> QED
    BY <1>1, <2>1, SMT DEF Disarmed
<1>6. CASE Tick
  <2>1. /\ pc = "poll" /\ timers'["t_triggered_lock"].ticking = ticking
        /\ ticking => timers'["t_triggered_lock"].left = left - 1
        /\ timers'["t_triggered_lock"].left <= left
        /\ k \in Key /\ db'.garbage[k] # NULL /\ db'.garbage[k].changed =>
              news /\ db'.garbage[k].gc_age <= age + 1
    BY <1>1, <1>6, PromptTick
  <2>2. pc \in Running
    BY <2>1 DEF Running
  <2>3. ticking => timers'["t_triggered_lock"].left >= 0
    BY <1>1, <2>1, TimerStep, ZenonT(30) DEF TimerInv
  <2> QED
    BY <1>1, <1>2, <1>3, <1>4, <2>1, <2>2, <2>3, SMTT(30)
<1>7. CASE rip_t_timeout_route
  <2>1. timers' = timers /\ pc \in Running /\ pc' # "poll"
    BY <1>7 DEF rip_t_timeout_route, Running, timeout_count, rip_route_timeout_expired
  <2>2. k \in Key /\ db'.garbage[k] # NULL /\ db'.garbage[k].changed =>
          \/ db'.garbage[k].gc_age = 0
          \/ news /\ db'.garbage[k].gc_age = age
    BY <1>7, TimeoutRouteGarbage DEF Kept
  <2> QED
    BY <1>1, <1>2, <1>4, <2>1, <2>2, SMT
<1>8. CASE check_route_changed
  <2>1. pc \in Running /\ pc' = "poll"
    BY <1>8, ZenonT(30) DEF check_route_changed, Running
  <2>2. \A lock \in LockTimes : lock < GC_PERIOD_RFC
    BY DEF ShortLocks
  <2>3. CASE timers' = timers /\ db' = db
             /\ (ticking \/ \A j \in Key : db.garbage[j] # NULL => ~db.garbage[j].changed)
    <3>1. news => ticking
      BY <2>3, SMTT(30)
    <3> QED
      BY <1>4, <2>1, <2>3, <3>1
  <2>4. ASSUME NEW lock \in LockTimes,
               timers'["t_triggered_lock"] = [ticking |-> TRUE, left |-> lock],
               \A j \in Key : db'.garbage[j] # NULL => ~db'.garbage[j].changed
        PROVE  /\ timers'["t_triggered_lock"].left < GC_PERIOD_RFC
               /\ ~(k \in Key /\ db'.garbage[k] # NULL /\ db'.garbage[k].changed)
    BY <2>2, <2>4, SMTT(30)
  <2> QED
    BY <1>8, <2>1, <2>3, <2>4, CheckLocks, ZenonT(30)
<1>9. CASE pc \in Running /\ ~Tick /\ ~rip_t_timeout_route /\ ~check_route_changed
  <2>1. k \in Key /\ db'.garbage[k] # NULL /\ db'.garbage[k].changed =>
          news /\ db'.garbage[k].gc_age = age
    BY <1>9, GarbageKept DEF Kept
  <2>2. pc' = "poll" => pc = "poll"
    BY <1>9, ToPoll
  <2>3. CASE timers'["t_triggered_lock"] = timers["t_triggered_lock"]
    BY <1>2, <1>4, <1>9, <2>1, <2>2, <2>3, ZenonT(30)
  <2>4. CASE rip_t_triggered_lock_expired
    <3>1. Serving("t_triggered_lock")
      BY <2>4 DEF rip_t_triggered_lock_expired, rip_t_oneshot_expired, TimerCallback
    <3>2. timers' = timer_clear(timers, "t_triggered_lock") /\ pc' = pc /\ pc = "dispatch"
      BY <1>1, <2>4, <3>1, NotPanicking, SMTT(30) DEF rip_t_triggered_lock_expired, rip_t_oneshot_expired,
         TimerCallback, Serving
    <3>3. timers'["t_triggered_lock"] = Disarmed
      BY <1>1, <3>2 DEF timer_clear, TypeOK
    <3> QED
      BY <1>1, <1>4, <1>9, <2>1, <3>2, <3>3, SMT DEF Disarmed
  <2> QED
    BY <1>9, <2>3, <2>4, TimerTouched, SMTT(30)
<1> QED
  BY <1>5, <1>6, <1>7, <1>8, <1>9, ZenonT(30)

\* The bound on unadvertised deaths holds in every reachable state.
THEOREM LockCorrect == Spec => []LockInv
<1>1. Init => LockInv
  BY SMTT(30) DEF Init, Fresh, LockInv, Running
<1> QED
  BY <1>1, LockStep, TypeCorrect, DbCorrect, TimersCorrect, PTL DEF Spec

----------------------------------------------------------------------------
(***************************************************************************)
(* Advertisements.                                                         *)
(***************************************************************************)
\* A step after which every unchanged route was there, unchanged, before.
Faithful(k) ==
    k \in rip_db_iter_all(db') /\ ~Route(db', k).changed =>
        /\ k \in rip_db_iter_all(db)
        /\ ~Route(db, k).changed
        /\ Route(db', k).metric = Route(db, k).metric

\* Such a step keeps ToldInv when it sends nothing.
LEMMA ToldFaithful ==
    ASSUME ToldInv, told' = told, \A k \in Key : Faithful(k)
    PROVE  ToldInv'
<1>1. rip_db_iter_all(db') \subseteq Key
  BY SMTT(30) DEF rip_db_iter_all, Items
<1> QED
  BY <1>1 DEF ToldInv, Faithful

\* Two routes that agree on what is advertised.
Alike(new, old) ==
    /\ new = NULL <=> old = NULL
    /\ new # NULL => new.changed = old.changed /\ new.metric = old.metric

\* A route both of whose tables agree with what they were is faithful.
LEMMA AlikeFaithful ==
    ASSUME NEW k \in Key, Alike(db'.ok[k], db.ok[k]), Alike(db'.garbage[k], db.garbage[k])
    PROVE  Faithful(k)
BY SMTT(30) DEF Alike, Faithful, rip_db_iter_all, Items, Route

\* So is one that has gone.
LEMMA GoneFaithful ==
    ASSUME NEW k \in Key, db'.ok[k] = NULL, db'.garbage[k] = NULL
    PROVE  Faithful(k)
BY DEF Faithful, rip_db_iter_all, Items

\* So is one that is marked changed.
LEMMA ChangedFaithful ==
    ASSUME NEW k \in Key, Route(db', k).changed
    PROVE  Faithful(k)
BY DEF Faithful

----------------------------------------------------------------------------
\* Adding a route marks it as changed.
LEMMA AddFaithful ==
    ASSUME TypeOK, NEW k \in Key, NEW desc \in Desc, db' = rip_db_add(db, k, desc)
    PROVE  \A j \in Key : Faithful(j)
<1> DEFINE added == [desc EXCEPT !.changed = TRUE]
<1>1. added \in Desc /\ added.changed
  BY ZenonT(30) DEF Desc
<1>2. db'.garbage = db.garbage
      /\ \A j \in Key : db'.ok[j] = IF j = k THEN added ELSE db.ok[j]
  BY DbFields, SMTT(30) DEF rip_db_add, HashmapSet, TypeOK
<1> HIDE DEF added
<1>3. Faithful(k)
  <2>1. db'.ok[k] # NULL
    BY <1>1, <1>2, DescNotNull, SMTT(30)
  <2> QED
    BY <1>1, <1>2, <2>1, ChangedFaithful, SMTT(30) DEF Route
<1>4. ASSUME NEW j \in Key, j # k PROVE Faithful(j)
  BY <1>2, <1>4, AlikeFaithful DEF Alike
<1> QED
  BY <1>3, <1>4

\* Removing a route uncovers no other with the same key.
LEMMA RemoveFaithful ==
    ASSUME TypeOK, FullDbInv, NEW k \in Key, db' = rip_db_remove(db, k)
    PROVE  \A j \in Key : Faithful(j)
<1>1. \A j \in Key : /\ db'.ok[j] = IF j = k THEN NULL ELSE db.ok[j]
                     /\ db'.garbage[j] = IF j = k THEN NULL ELSE db.garbage[j]
  <2>1. db \in Db /\ GoodDb(db)
    BY DEF TypeOK, FullDbInv
  <2> QED
    BY <2>1, RemoveEffect, SMTT(30)
<1>2. Faithful(k)
  BY <1>1, GoneFaithful, SMTT(30)
<1>3. ASSUME NEW j \in Key, j # k PROVE Faithful(j)
  BY <1>1, <1>3, AlikeFaithful DEF Alike
<1> QED
  BY <1>2, <1>3, ZenonT(30)

\* A route that is counted, or expires.
LEMMA ToldTimeoutRoute == TypeOK /\ FullDbInv /\ ToldInv /\ rip_t_timeout_route => ToldInv'
<1> SUFFICES ASSUME TypeOK, FullDbInv, ToldInv, told' = told, NEW k \in Learned(db),
                    timeout_count(k) \/ rip_route_timeout_expired(k)
             PROVE  \A j \in Key : Faithful(j)
  BY ToldFaithful DEF rip_t_timeout_route
<1>1. k \in Key /\ db.ok[k] \in Desc /\ db.ok[k] # NULL /\ Aged(k) \in Desc
      /\ Aged(k) = [db.ok[k] EXCEPT !.timeout_cnt = @ + TIMEOUT_PERIOD_TIMER]
  BY AgedType, SMTT(30)
<1>2. CASE timeout_count(k)
  <2>1. Alike(Aged(k), db.ok[k])
    BY <1>1, DescNotNull DEF Alike, Desc
  <2>2. db'.garbage = db.garbage
        /\ \A j \in Key : db'.ok[j] = IF j = k THEN Aged(k) ELSE db.ok[j]
    BY <1>2, DbFields, SMTT(30) DEF timeout_count, HashmapSet, TypeOK
  <2>3. ASSUME NEW j \in Key
        PROVE  Alike(db'.ok[j], db.ok[j]) /\ Alike(db'.garbage[j], db.garbage[j])
    BY <2>1, <2>2 DEF Alike
  <2> QED
    BY <2>3, AlikeFaithful
<1>3. CASE rip_route_timeout_expired(k)
  <2> DEFINE dead == [Aged(k) EXCEPT !.changed = TRUE,
                                     !.metric = Htonl(INFINITY_METRIC),
                                     !.in_routing_table = FALSE, !.gc_age = 0]
  <2>1. dead.changed
    BY <1>1 DEF Desc
  <2>2. \/ db' = rip_db_move_to_garbage(db, k, dead)
        \/ db' = rip_db_move_to_garbage_oom(db, k, dead)
        \/ db' = rip_db_remove(db, k)
    BY <1>3 DEF rip_route_timeout_expired
  <2> HIDE DEF dead
  <2>3. ASSUME db' = rip_db_move_to_garbage(db, k, dead)
        PROVE  \A j \in Key : Faithful(j)
    <3>1. \A j \in Key : /\ db'.ok[j] = IF j = k THEN NULL ELSE db.ok[j]
                         /\ db'.garbage[j] = IF j = k THEN dead ELSE db.garbage[j]
      BY <2>3, DbFields, SMTT(30) DEF rip_db_move_to_garbage, HashmapSet, HashmapDelete, TypeOK
    <3>2. Faithful(k)
      BY <1>1, <2>1, <3>1, ChangedFaithful, ZenonT(30) DEF Route
    <3>3. ASSUME NEW j \in Key, j # k PROVE Faithful(j)
      BY <3>1, <3>3, AlikeFaithful, ZenonT(30) DEF Alike
    <3> QED
      BY <3>2, <3>3, SMTT(30)
  <2>4. ASSUME db' = rip_db_move_to_garbage_oom(db, k, dead)
        PROVE  \A j \in Key : Faithful(j)
    <3>1. /\ db'.garbage = db.garbage
          /\ \A j \in Key : db'.ok[j] = IF j = k THEN NULL ELSE db.ok[j]
      BY <2>4, DbFields, SMTT(30) DEF rip_db_move_to_garbage_oom, HashmapDelete, TypeOK
    <3>2. Faithful(k)
      <4>1. db.garbage[k] = NULL
        BY <1>1, SMTT(30) DEF FullDbInv, GoodDb, GoodRoute
      <4> QED
        BY <1>1, <3>1, <4>1, GoneFaithful, SMTT(30)
    <3>3. ASSUME NEW j \in Key, j # k PROVE Faithful(j)
      BY <3>1, <3>3, AlikeFaithful DEF Alike
    <3> QED
      BY <3>2, <3>3
  <2> QED
    BY <1>1, <2>2, <2>3, <2>4, RemoveFaithful, SMTT(30)
<1> QED
  BY <1>2, <1>3, SMTT(30)

\* Garbage collection removes whole routes.
LEMMA ToldGc == TypeOK /\ FullDbInv /\ ToldInv /\ rip_t_gc_expired => ToldInv'
<1> SUFFICES ASSUME TypeOK, FullDbInv, ToldInv, rip_t_gc_expired PROVE ToldInv'
  OBVIOUS
<1> DEFINE due(k) == db.garbage[k] # NULL /\ has_time_passed(db.garbage[k])
           kept(map) == [k \in Key |-> IF due(k) THEN NULL ELSE map[k]]
<1>1. db' = db \/ db' = [db EXCEPT !.ok = kept(@), !.garbage = kept(@)]
  BY DEF rip_t_gc_expired, TimerCallback, PANIC
<1>2. ASSUME db' = [db EXCEPT !.ok = kept(@), !.garbage = kept(@)]
      PROVE  db'.ok = kept(db.ok) /\ db'.garbage = kept(db.garbage)
  <2>1. db \in Db
    BY ZenonT(30) DEF TypeOK
  <2> QED
    BY <1>2, <2>1, DbFields, SMTT(30)
<1>3. ASSUME NEW k \in Key PROVE Faithful(k)
  <2>1. \/ db'.ok[k] = db.ok[k] /\ db'.garbage[k] = db.garbage[k]
        \/ db'.ok[k] = NULL /\ db'.garbage[k] = NULL
    BY <1>1, <1>2, ZenonT(30)
  <2> QED
    BY <2>1, AlikeFaithful, GoneFaithful DEF Alike
<1> QED
  BY <1>3, ToldFaithful DEF rip_t_gc_expired, TimerCallback, PANIC

(***************************************************************************)
(* A multicast that no sendto fails for brings every neighbour up to date, *)
(* whether it holds all routes or only the changed ones.                   *)
(***************************************************************************)
LEMMA ToldMulticast ==
    ASSUME TypeOK, FullDbInv, ToldInv, NEW only_changed \in BOOLEAN,
           NEW failed \in SendOutcomes(db, only_changed),
           rip_send_advertisement_multicast(db, only_changed, failed)
    PROVE  ToldInv'
<1> SUFFICES ASSUME SendFails = {}, NEW i \in Ifc, NEW k \in rip_db_iter_all(db'),
                    k.ifi # i
             PROVE  told'[i][k] = Route(db', k).metric
  BY DEF ToldInv
<1>1. failed = {} /\ k \in Key
  BY ZenonT(30) DEF SendOutcomes, rip_db_iter_all, Items
<1>2. k \in rip_db_iter_all(db) /\ Route(db', k).metric = Route(db, k).metric
  BY <1>1, MarkEffect, ZenonT(30) DEF rip_send_advertisement_multicast, rip_db_iter_all, Items, Route,
     TypeOK, FullDbInv
<1>3. told'[i][k] = IF k \in fill_buffer_with_entries(db, i, only_changed)
                    THEN Route(db, k).metric ELSE told[i][k]
  BY <1>1, ZenonT(30) DEF rip_send_advertisement_multicast, rip_send_response
<1>4. CASE k \in fill_buffer_with_entries(db, i, only_changed)
  BY <1>2, <1>3, <1>4
<1>5. CASE k \notin fill_buffer_with_entries(db, i, only_changed)
  <2>1. ~Route(db, k).changed
    BY <1>2, <1>5, SMTT(30) DEF fill_buffer_with_entries
  <2> QED
    BY <1>2, <1>3, <1>5, <2>1, SMTT(30) DEF ToldInv
<1> QED
  BY <1>4, <1>5, ZenonT(30)

----------------------------------------------------------------------------
\* A step that leaves the database alone and sends nothing.
LEMMA ToldQuiet == ASSUME ToldInv, db' = db, told' = told PROVE ToldInv'
BY DEF ToldInv

\* Every step keeps ToldInv.
LEMMA ToldStep == TypeOK /\ FullDbInv /\ ToldInv /\ [Next]_vars => ToldInv'
<1> SUFFICES ASSUME TypeOK, FullDbInv, ToldInv, [Next]_vars PROVE ToldInv'
  OBVIOUS
<1> DEFINE Quiet ==
      \/ rip_init_timers \/ rip_begin_fails \/ event_dispatcher_poll \/ dispatch_done
      \/ \E i \in Ifc : rip_handle_response(i) \/ rip_handle_other_message(i)
      \/ rip_handle_response_done
      \/ \E t \in Timer : rip_t_oneshot_expired(t)
      \/ rip_t_timeout_expired \/ rip_t_timeout_done
      \/ sig_handler \/ Restart \/ KernelDrop \/ UNCHANGED vars
<1>1. CASE Quiet
  <2>1. db' = db /\ told' = told
    BY <1>1 DEF rip_init_timers, rip_begin_fails, event_dispatcher_poll, dispatch_done,
       rip_handle_response, rip_handle_other_message, rip_handle_response_done,
       rip_t_oneshot_expired, rip_t_timeout_expired, TimerCallback, PANIC,
       rip_t_timeout_done, sig_handler, Restart, KernelDrop, vars, local
  <2> QED
    BY <2>1, ToldQuiet, ZenonT(30)
<1>2. CASE add_advertised_network_to_db
  <2> DEFINE k == LocalKey(AdvNetworks[n_adv + 1])
             desc == [metric |-> Htonl(1), changed |-> FALSE, is_local |-> TRUE,
                      in_routing_table |-> FALSE, timeout_cnt |-> 0, gc_age |-> 0]
  <2>1. n_adv + 1 \in DOMAIN AdvNetworks
    BY <1>2, TopologyAssumption, SMTT(30) DEF add_advertised_network_to_db, TypeOK
  <2>2. k \in Key
    BY <2>1 DEF Key
  <2>3. desc \in Desc
    BY HtonlType, InfinityType, SMTT(30) DEF Desc
  <2>4. (db' = db \/ db' = rip_db_add(db, k, desc)) /\ told' = told
    BY <1>2 DEF add_advertised_network_to_db
  <2> HIDE DEF k, desc
  <2> QED
    BY <2>2, <2>3, <2>4, AddFaithful, ToldFaithful, ToldQuiet, ZenonT(30)
<1>3. CASE handle_ripv2_entry
  <2>1. told' = told /\ rx.nbr \in Nbr
    BY <1>3, ZenonT(30) DEF handle_ripv2_entry, TypeOK
  <2>2. db' = db \/ \E k \in Key : db' = rip_db_remove(db, k)
    <3>1. \A dst \in Dest : LearnedKey(rx.nbr, dst) \in Key
      BY <2>1, LearnedKeyType DEF Key
    <3> QED
      BY <1>3, <3>1, ZenonT(30) DEF handle_ripv2_entry, is_entry_valid, handle_ok_route_update,
         handle_non_existing_route
  <2> QED
    BY <2>1, <2>2, RemoveFaithful, ToldFaithful, ToldQuiet, ZenonT(30)
<1>4. CASE handle_non_existing_route_db_add
  <2>1. pending.key \in Key /\ pending.desc \in Desc /\ told' = told
    BY <1>4, ZenonT(30) DEF handle_non_existing_route_db_add, TypeOK, Key
  <2>2. db' = db \/ db' = rip_db_add(db, pending.key, pending.desc)
    BY <1>4 DEF handle_non_existing_route_db_add
  <2> QED
    BY <2>1, <2>2, AddFaithful, ToldFaithful, ToldQuiet, ZenonT(30)
<1>5. CASE check_route_changed
  <2>1. \/ db' = db /\ told' = told
        \/ \E failed \in SendOutcomes(db, TRUE) :
              rip_send_advertisement_multicast(db, TRUE, failed)
    BY <1>5, ZenonT(30) DEF check_route_changed
  <2> QED
    BY <2>1, ToldMulticast, ToldQuiet, ZenonT(30)
<1>6. CASE rip_t_update_expired
  <2>1. \/ db' = db /\ told' = told
        \/ \E failed \in SendOutcomes(db, FALSE) :
              rip_send_advertisement_multicast(db, FALSE, failed)
    BY <1>6, ZenonT(30) DEF rip_t_update_expired, TimerCallback, PANIC
  <2> QED
    BY <2>1, ToldMulticast, ToldQuiet, ZenonT(30)
<1>7. CASE Tick
  <2>1. ASSUME NEW k \in Key
        PROVE  Alike(db'.ok[k], db.ok[k]) /\ Alike(db'.garbage[k], db.garbage[k])
    BY <1>7, TickEffect, SMTT(30) DEF Alike
  <2> QED
    BY <1>7, <2>1, AlikeFaithful, ToldFaithful, SMTT(30) DEF Tick
<1>8. CASE Gone
  BY <1>8 DEF Gone, ToldInv, rip_db_iter_all, Items, rip_db_init, HashmapNew
<1> QED
  BY <1>1, <1>2, <1>3, <1>4, <1>5, <1>6, <1>7, <1>8, ToldTimeoutRoute, ToldGc, SMTT(30)
  DEF Next, Startup, Handlers, Exit, rip_t_triggered_lock_expired, Timer,
      rip_t_request_warmup_expired, atexit_handler, rip_cleanup, exit_without_cleanup

\* What was advertised is current in every reachable state.
THEOREM ToldCorrect == Spec => []ToldInv
<1>1. Init => ToldInv
  BY SMT DEF Init, Fresh, ToldInv, rip_db_iter_all, Items, rip_db_init, HashmapNew
<1> QED
  BY <1>1, ToldStep, TypeCorrect, DbCorrect, PTL DEF Spec

(***************************************************************************)
(* As long as no sendto fails, a route that is not marked changed was last *)
(* advertised on every other interface with the metric it has now, even    *)
(* if it was removed and learned again, or the daemon restarted, between.  *)
(***************************************************************************)
THEOREM UnchangedRoutesAreAdvertised ==
    ASSUME SendFails = {}
    PROVE  Spec => []UnchangedIsAdvertised
<1>1. ToldInv => UnchangedIsAdvertised
  BY DEF ToldInv, UnchangedIsAdvertised
<1> QED
  BY <1>1, ToldCorrect, PTL

\* Only its own handler, or the end of the process, takes t_gc off the list
\* of the timers to be served.
LEMMA GcServed ==
    ASSUME TypeOK, TimerInv, [Next]_vars, "t_gc" \in t_ready, "t_gc" \notin t_ready'
    PROVE  rip_t_gc_expired \/ pc' = "exited"
<1>1. CASE Startup \/ event_dispatcher_poll
  BY <1>1 DEF Startup, add_advertised_network_to_db, rip_init_timers, rip_begin_fails, local,
     event_dispatcher_poll, TimerInv
<1>2. CASE Exit
  BY <1>2, ZenonT(30) DEF Exit, sig_handler, atexit_handler, rip_cleanup, exit_without_cleanup,
     Gone, Restart, local
<1>3. CASE Tick \/ KernelDrop \/ UNCHANGED vars
  BY <1>3 DEF Tick, KernelDrop, vars, local
<1>4. CASE rip_t_update_expired \/ rip_t_triggered_lock_expired \/ rip_t_timeout_expired
           \/ rip_t_request_warmup_expired
  BY <1>4, ZenonT(30) DEF rip_t_update_expired, rip_t_triggered_lock_expired, rip_t_oneshot_expired,
     rip_t_timeout_expired, rip_t_request_warmup_expired, TimerCallback
<1>5. CASE \/ \E i \in Ifc : rip_handle_response(i) \/ rip_handle_other_message(i)
           \/ rip_handle_response_done \/ handle_ripv2_entry
           \/ handle_non_existing_route_db_add \/ rip_t_timeout_route \/ rip_t_timeout_done
           \/ dispatch_done \/ check_route_changed
  BY <1>5, ZenonT(30) DEF rip_handle_response, rip_handle_other_message, handle_ripv2_entry,
     rip_handle_response_done, rip_t_timeout_route, rip_t_timeout_done, dispatch_done,
     handle_non_existing_route_db_add, check_route_changed, local
<1> QED
  BY <1>1, <1>2, <1>3, <1>4, <1>5 DEF Next, Handlers

(***************************************************************************)
(* No dead route is collected before the neighbours on every other         *)
(* interface were told that it is unreachable, as long as no sendto fails, *)
(* handlers take no time and the triggered-update lock is shorter than the *)
(* garbage collection period: whenever it died, and whatever else the lock *)
(* was holding back at the time.                                           *)
(***************************************************************************)
THEOREM DeadRoutesArePoisonedFirst ==
    ASSUME SendFails = {}, PromptHandlers, ShortLocks
    PROVE  Spec => PoisonedBeforeCollected
<1>1. TypeOK /\ FullDbInv /\ TimerInv /\ LockInv /\ ToldInv /\ [Next]_vars =>
        [\A k \in Key :
           /\ "t_gc" \in t_ready /\ "t_gc" \notin t_ready' /\ pc' # "exited"
           /\ db.garbage[k] # NULL /\ db'.garbage[k] = NULL
           => \A i \in Ifc \ {k.ifi} : told[i][k] = Htonl(INFINITY_METRIC)]_vars
  <2> SUFFICES ASSUME TypeOK, FullDbInv, TimerInv, LockInv, ToldInv, [Next]_vars, NEW k \in Key,
                      "t_gc" \in t_ready, "t_gc" \notin t_ready', pc' # "exited",
                      db.garbage[k] # NULL, db'.garbage[k] = NULL, NEW i \in Ifc \ {k.ifi}
               PROVE  told[i][k] = Htonl(INFINITY_METRIC)
    OBVIOUS
  <2>1. rip_t_gc_expired
    BY GcServed, SMTT(30)
  <2>2. pc \in Running /\ has_time_passed(db.garbage[k])
    BY <2>1, GcGarbage, SMTT(30) DEF Running
  <2>3. db.garbage[k].changed => db.garbage[k].gc_age < GC_PERIOD_RFC
    BY <2>2 DEF LockInv, Items
  <2>4. db.garbage[k].gc_age \in Nat /\ GC_PERIOD_RFC \in Nat
    BY AgeTypes, PeriodAssumption, SMTT(30)
  <2>5. ~db.garbage[k].changed
    BY <2>2, <2>3, <2>4, SMTT(30) DEF has_time_passed
  <2>6. /\ db.ok[k] = NULL /\ Route(db, k) = db.garbage[k] /\ k \in rip_db_iter_all(db)
        /\ db.garbage[k].metric = Htonl(INFINITY_METRIC)
    BY DEF FullDbInv, GoodDb, GoodRoute, Route, rip_db_iter_all, Items
  <2> QED
    BY <2>5, <2>6, SMTT(30) DEF ToldInv
<1> QED
  BY <1>1, TypeCorrect, DbCorrect, TimersCorrect, LockCorrect, ToldCorrect, PTL
  DEF Spec, PoisonedBeforeCollected

(***************************************************************************)
(* The inductive invariant holds in every reachable state, for every       *)
(* topology, all periods and every combination of faults.                  *)
(***************************************************************************)
THEOREM Invariance == Spec => []IInv
<1>1. TypeOK /\ FullDbInv /\ KernelInv /\ TimerInv /\ WakeInv /\ SweepInv /\ GcInv /\ LockInv
        /\ ToldInv => IInv
  <2>1. TypeOK /\ GoodDb(db) => TablesDisjoint /\ RouteShape /\ ChangedIsFlagged
    BY GoodDbMeaning DEF TypeOK
  <2> QED
    BY <2>1 DEF FullDbInv, DbInv, IInv
<1> QED
  BY <1>1, TypeCorrect, DbCorrect, KernelAgrees, TimersCorrect, WakeCorrect,
     SweepCorrect, GcCorrect, LockCorrect, ToldCorrect, PTL
=============================================================================
