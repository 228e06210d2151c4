-------------------------------- MODULE Ripd --------------------------------
(***************************************************************************)
(* The daemon: its event loop (rip.c, utils/event_dispatcher.c), its       *)
(* timers (utils/timer.c), the processing of responses (rip_recv.c), the   *)
(* advertisements (rip_update.c) and its start and exit (ripd.c).  The     *)
(* daemon has one thread; what interleaves with it are arriving datagrams, *)
(* the clock, the kernel's routing table, and signals.                     *)
(***************************************************************************)
EXTENDS RipRoute

CONSTANTS
    \* Periods, in units of the clock.
    TIMEOUT_PERIOD_TIMER, TIMEOUT_PERIOD_RFC, GC_PERIOD_TIMER, GC_PERIOD_RFC,
    UpdateTimes,   \* the values of create_t_update_time
    LockTimes,     \* how long triggered updates are held back
    WarmupTimes,   \* how long after the start the request is sent
    MaxEntries,    \* bound: the entries of one response
    \* What the environment may do.
    TickPcs,       \* the control points at which a unit of time can end
    SendFails,     \* interfaces on which sendto may fail
    AddFails,      \* the kernel may refuse a route for reasons of its own
    OutOfMemory,   \* growing a hash table may fail
    ExternalDrop,  \* someone else may remove a RIP route from the kernel
    CallFails,     \* a step of rip_begin before the event loop, or poll, may fail
    Signals,       \* SIGINT or SIGTERM may arrive
    Crashes        \* the process may be killed without running its exit handlers

Timer == {"t_update", "t_triggered_lock", "t_timeout", "t_gc", "t_request_warmup"}

Pcs == {"begin", "poll", "dispatch", "entry", "db_add", "timeout", "check",
        "returned", "exit", "panic", "exited"}

ASSUME PeriodAssumption ==
    /\ TIMEOUT_PERIOD_TIMER \in Nat \ {0}
    /\ TIMEOUT_PERIOD_RFC \in Nat \ {0}
    /\ GC_PERIOD_TIMER \in Nat \ {0}
    /\ GC_PERIOD_RFC \in Nat \ {0}
    /\ UpdateTimes \subseteq Nat
    /\ LockTimes \subseteq Nat
    /\ WarmupTimes \subseteq Nat
    /\ MaxEntries \in Nat

ASSUME EnvironmentAssumption ==
    /\ TickPcs \subseteq Pcs
    /\ SendFails \subseteq Ifc
    /\ {AddFails, OutOfMemory, ExternalDrop, CallFails, Signals, Crashes}
         \subseteq BOOLEAN

VARIABLES
    pc,        \* where the process is
    n_adv,     \* advertised networks already in the database
    db,        \* the routing database
    kernel,    \* the RIP routes of the kernel's main table
    timers,    \* is_ticking, and the time left: 0 when expired and not yet read
    rx_ready,  \* interfaces poll reported readable and not yet served
    t_ready,   \* timers poll reported expired and not yet served
    rx,        \* the response being processed: its sender, and entries left
    pending,   \* the route that is in the kernel but not yet in the database
    sweep,     \* the loop of rip_t_timeout_expired
    told       \* history: the metric last multicast, by interface and route

vars == <<pc, n_adv, db, kernel, timers, rx_ready, t_ready, rx, pending, sweep, told>>
local == <<rx_ready, t_ready, rx, pending, sweep>>

----------------------------------------------------------------------------
(***************************************************************************)
(* Timers.  timer_clear reads a non-blocking timerfd: it fails unless the  *)
(* timer has expired since it was last armed or read.                      *)
(***************************************************************************)
Disarmed == [ticking |-> FALSE, left |-> -1]
timer_start_oneshot(ts, t, value) ==
    [ts EXCEPT ![t] = [ticking |-> TRUE, left |-> value]]
timer_clear_fails(ts, t) == ts[t].left # 0
timer_clear(ts, t) == [ts EXCEPT ![t] = Disarmed]
timer_is_ticking(ts, t) == ts[t].ticking
Expired(ts) == {t \in Timer : ts[t].left = 0}

\* The order in which the timers were registered with the dispatcher.
TimerOrder ==
    <<"t_update", "t_triggered_lock", "t_timeout", "t_gc", "t_request_warmup">>

\* The dispatcher is about to call the handler of timer t.
Serving(t) ==
    /\ pc = "dispatch"
    /\ rx_ready = {}
    /\ t \in t_ready
    /\ \A i, j \in DOMAIN TimerOrder :
          TimerOrder[i] = t /\ j < i => TimerOrder[j] \notin t_ready

----------------------------------------------------------------------------
(***************************************************************************)
(* Advertisements.  What a message for interface i holds: every route, or  *)
(* every changed one, except those that were learned or lie on i.  On each *)
(* interface in failed sendto fails; rip_send does not call sendto for a   *)
(* message with no entries.  All routes are marked unchanged either way.   *)
(***************************************************************************)
fill_buffer_ok_only(d, i, only_changed) ==
    {k \in Items(d.ok) : (only_changed => Route(d, k).changed) /\ k.ifi # i}
fill_buffer_with_entries(d, i, only_changed) ==
    {k \in rip_db_iter_all(d) : (only_changed => Route(d, k).changed) /\ k.ifi # i}

SendOutcomes(d, only_changed) ==
    SUBSET {i \in SendFails : fill_buffer_with_entries(d, i, only_changed) # {}}

rip_send_response(d, only_changed, failed) ==
    [i \in Ifc |-> [k \in Key |->
        IF i \notin failed /\ k \in fill_buffer_with_entries(d, i, only_changed)
        THEN Route(d, k).metric ELSE told[i][k]]]

rip_send_advertisement_multicast(d, only_changed, failed) ==
    /\ db' = rip_db_mark_all_routes_as_unchanged(d)
    /\ told' = rip_send_response(d, only_changed, failed)

----------------------------------------------------------------------------
(***************************************************************************)
(* Start: the advertised networks enter the database one by one, and one   *)
(* that is there already stops the start.                                  *)
(***************************************************************************)
NoSweep == [visited |-> {}, aged |-> {}, start_gc |-> FALSE]
NoRx == [nbr |-> NULL, left |-> 0]

Fresh ==
    /\ pc = "begin"
    /\ n_adv = 0
    /\ db = rip_db_init
    /\ timers = [t \in Timer |-> Disarmed]
    /\ rx_ready = {} /\ t_ready = {}
    /\ rx = NoRx /\ pending = NULL /\ sweep = NoSweep

Init ==
    /\ Fresh
    /\ kernel = {}
    /\ told = [i \in Ifc |-> [k \in Key |-> Htonl(INFINITY_METRIC)]]

add_advertised_network_to_db ==
    /\ pc = "begin" /\ n_adv < Len(AdvNetworks)
    /\ LET k == LocalKey(AdvNetworks[n_adv + 1])
           desc == [metric |-> Htonl(1), changed |-> FALSE, is_local |-> TRUE,
                    in_routing_table |-> FALSE, timeout_cnt |-> 0, gc_age |-> 0]
       IN  \/ /\ db' = rip_db_add(db, k, desc)
              /\ pc' = IF rip_db_add_fails(db, k) THEN "returned" ELSE "begin"
           \/ /\ OutOfMemory /\ UNCHANGED db
              /\ pc' = "returned"
    /\ n_adv' = n_adv + 1
    /\ UNCHANGED <<kernel, timers, told, local>>

\* The rest of rip_begin: arm the timers and enter the event loop.
rip_init_timers ==
    /\ pc = "begin" /\ n_adv = Len(AdvNetworks)
    /\ \E update \in UpdateTimes, warmup \in WarmupTimes :
          timers' = [t \in Timer |->
             CASE t = "t_update" -> [ticking |-> TRUE, left |-> update]
               [] t = "t_request_warmup" -> [ticking |-> TRUE, left |-> warmup]
               [] t = "t_timeout" -> [ticking |-> TRUE, left |-> TIMEOUT_PERIOD_TIMER]
               [] OTHER -> Disarmed]
    /\ pc' = "poll"
    /\ UNCHANGED <<n_adv, db, kernel, told, local>>

\* Another step of rip_begin fails, or poll does: main returns.
rip_begin_fails ==
    /\ CallFails /\ pc \in {"begin", "poll"}
    /\ pc' = "returned"
    /\ UNCHANGED <<n_adv, db, kernel, timers, told, local>>

----------------------------------------------------------------------------
(***************************************************************************)
(* The event loop.  poll reports some of the timers that have expired and  *)
(* some interfaces on which datagrams wait.  The interfaces are served     *)
(* first, in the order of the configuration, which is any order here; then *)
(* the timers, in the order of their registration; then the loop looks for *)
(* changed routes.                                                         *)
(***************************************************************************)
event_dispatcher_poll ==
    /\ pc = "poll"
    /\ \E ts \in SUBSET Expired(timers), is \in SUBSET Ifc :
          /\ ts # {} \/ is # {}
          /\ t_ready' = ts
          /\ rx_ready' = is
    /\ pc' = "dispatch"
    /\ UNCHANGED <<n_adv, db, kernel, timers, rx, pending, sweep, told>>

dispatch_done ==
    /\ pc = "dispatch" /\ rx_ready = {} /\ t_ready = {}
    /\ pc' = "check"
    /\ UNCHANGED <<n_adv, db, kernel, timers, told, local>>

check_route_changed ==
    /\ pc = "check"
    /\ IF timer_is_ticking(timers, "t_triggered_lock") \/ ~db.any_route_changed
       THEN /\ pc' = "poll"
            /\ UNCHANGED <<db, timers, told>>
       ELSE \E failed \in SendOutcomes(db, TRUE) :
               /\ rip_send_advertisement_multicast(db, TRUE, failed)
               /\ IF failed # {}
                  THEN /\ pc' = "returned"
                       /\ UNCHANGED timers
                  ELSE /\ pc' = "poll"
                       /\ \E lock \in LockTimes :
                             timers' = timer_start_oneshot(timers, "t_triggered_lock", lock)
    /\ UNCHANGED <<n_adv, kernel, local>>

----------------------------------------------------------------------------
(***************************************************************************)
(* A datagram is served.  A response is processed entry by entry; its      *)
(* entries are chosen when they are reached.                               *)
(***************************************************************************)
rip_handle_response(i) ==
    /\ pc = "dispatch" /\ i \in rx_ready
    /\ \E nbr \in Nbr, n \in 0..MaxEntries :
          /\ IfcOf[nbr] = i
          /\ rx' = [nbr |-> nbr, left |-> n]
    /\ rx_ready' = rx_ready \ {i}
    /\ pc' = "entry"
    /\ UNCHANGED <<n_adv, db, kernel, timers, t_ready, pending, sweep, told>>

(***************************************************************************)
(* Anything else: a request, which is answered with a unicast that changes *)
(* no state of the daemon, an unsupported command, or a failed recvfrom.   *)
(***************************************************************************)
rip_handle_other_message(i) ==
    /\ pc = "dispatch" /\ i \in rx_ready
    /\ rx_ready' = rx_ready \ {i}
    /\ UNCHANGED <<pc, n_adv, db, kernel, timers, t_ready, rx, pending, sweep, told>>

rip_handle_response_done ==
    /\ pc = "entry" /\ rx.left = 0
    /\ pc' = "dispatch"
    /\ rx' = NoRx
    /\ UNCHANGED <<n_adv, db, kernel, timers, rx_ready, t_ready, pending, sweep, told>>

NextEntry == [rx EXCEPT !.left = @ - 1]

(***************************************************************************)
(* The first half of handle_non_existing_route: the route goes into the    *)
(* kernel, or the entry is given up.  d and krt are the database and the   *)
(* kernel's table as the caller leaves them.                               *)
(***************************************************************************)
handle_non_existing_route(k, desc, d, krt) ==
    /\ db' = d
    /\ LET route == rip_rtnl_route_create(k, desc)
       IN  \/ /\ ~AlreadyExists(krt, route)
              /\ kernel' = rip_route_add_route(krt, route)
              /\ pending' = [key |-> k, desc |-> desc]
              /\ pc' = "db_add"
              /\ UNCHANGED rx
           \/ /\ AlreadyExists(krt, route) \/ AddFails
              /\ kernel' = krt
              /\ pc' = "entry"
              /\ rx' = NextEntry
              /\ UNCHANGED pending

\* A route the daemon has from this neighbour: only a better metric counts.
handle_ok_route_update_undeleted(k, desc) ==
    IF db.ok[k].metric > desc.metric
    THEN handle_non_existing_route(k, desc, rip_db_remove(db, k), kernel)
    ELSE rx' = NextEntry /\ UNCHANGED <<pc, db, kernel, pending>>
handle_ok_route_update(k, desc) ==
    LET old == rip_rtnl_route_create(k, db.ok[k])
    IN  IF db.ok[k].metric > desc.metric /\ ~rip_route_delete_fails(kernel, old)
        THEN handle_non_existing_route(k, desc, rip_db_remove(db, k),
                                       rip_route_delete_route(kernel, old))
        ELSE /\ rx' = NextEntry
             /\ UNCHANGED <<pc, db, kernel, pending>>

handle_ripv2_entry ==
    /\ pc = "entry" /\ rx.left > 0
    /\ \E dst \in Dest \cup {BadDest}, wire \in WireMetric :
          IF ~is_entry_valid(dst, Ntohl(wire))
          THEN /\ rx' = NextEntry
               /\ UNCHANGED <<pc, db, kernel, pending>>
          ELSE LET k == LearnedKey(rx.nbr, dst)
                   desc == build_route_description(Htonl(update_metric(Ntohl(wire))))
               IN  IF db.ok[k] # NULL
                   THEN handle_ok_route_update(k, desc)
                   ELSE handle_non_existing_route(k, desc, rip_db_remove(db, k), kernel)
    /\ UNCHANGED <<n_adv, timers, rx_ready, t_ready, sweep, told>>

\* The second half of handle_non_existing_route.
handle_non_existing_route_db_add ==
    /\ pc = "db_add"
    /\ \/ db' = rip_db_add(db, pending.key, pending.desc)
       \/ OutOfMemory /\ UNCHANGED db
    /\ pending' = NULL
    /\ pc' = "entry"
    /\ rx' = NextEntry
    /\ UNCHANGED <<n_adv, kernel, timers, rx_ready, t_ready, sweep, told>>

----------------------------------------------------------------------------
(***************************************************************************)
(* The timers' handlers.                                                   *)
(***************************************************************************)
\* A timer's handler panics when it cannot read the timer it is called for.
PANIC ==
    /\ pc' = "panic"
    /\ UNCHANGED <<n_adv, db, kernel, timers, rx_ready, rx, pending, sweep, told>>
TimerCallback(t, handler) ==
    /\ Serving(t)
    /\ t_ready' = t_ready \ {t}
    /\ IF timer_clear_fails(timers, t) THEN PANIC ELSE handler

rip_t_update_expired ==
    TimerCallback("t_update",
      /\ \E failed \in SendOutcomes(db, FALSE), update \in UpdateTimes :
            /\ rip_send_advertisement_multicast(db, FALSE, failed)
            /\ timers' = IF failed # {}
                         THEN timer_clear(timers, "t_update")
                         ELSE timer_start_oneshot(timers, "t_update", update)
      /\ UNCHANGED <<pc, n_adv, kernel, rx_ready, rx, pending, sweep>>)

\* The two handlers that only clear their timer (the request has no state).
rip_t_oneshot_expired(t) ==
    TimerCallback(t,
      /\ timers' = timer_clear(timers, t)
      /\ UNCHANGED <<pc, n_adv, db, kernel, rx_ready, rx, pending, sweep, told>>)

rip_t_triggered_lock_expired == rip_t_oneshot_expired("t_triggered_lock")
rip_t_request_warmup_expired == rip_t_oneshot_expired("t_request_warmup")

(***************************************************************************)
(* rip_t_timeout_expired: the loop over the usable routes.  A hash table   *)
(* is iterated in no particular order.  After a route has expired the      *)
(* iteration starts again.  sweep.aged is a history of the routes counted  *)
(* since the timer fired.                                                  *)
(***************************************************************************)
rip_t_timeout_expired ==
    TimerCallback("t_timeout",
      /\ timers' = timer_clear(timers, "t_timeout")
      /\ sweep' = NoSweep
      /\ pc' = "timeout"
      /\ UNCHANGED <<n_adv, db, kernel, rx_ready, rx, pending, told>>)

Aged(k) == [db.ok[k] EXCEPT !.timeout_cnt = @ + TIMEOUT_PERIOD_TIMER]

timeout_count_unvisited(k) ==
    /\ Aged(k).timeout_cnt < TIMEOUT_PERIOD_RFC
    /\ db' = [db EXCEPT !.ok = HashmapSet(@, k, Aged(k))]
    /\ sweep' = [sweep EXCEPT !.aged = @ \cup {k}]
    /\ UNCHANGED <<pc, kernel>>
timeout_count(k) ==
    /\ Aged(k).timeout_cnt < TIMEOUT_PERIOD_RFC
    /\ db' = [db EXCEPT !.ok = HashmapSet(@, k, Aged(k))]
    /\ sweep' = [sweep EXCEPT !.visited = @ \cup {k}, !.aged = @ \cup {k}]
    /\ UNCHANGED <<pc, kernel>>

rip_route_timeout_expired(k) ==
    /\ Aged(k).timeout_cnt >= TIMEOUT_PERIOD_RFC
    /\ LET route == rip_rtnl_route_create(k, db.ok[k])
           dead == [Aged(k) EXCEPT !.changed = TRUE,
                                   !.metric = Htonl(INFINITY_METRIC),
                                   !.in_routing_table = FALSE, !.gc_age = 0]
           undeleted == rip_route_delete_fails(kernel, route)
           failed == undeleted \/ rip_db_move_to_garbage_fails(db, k)
       IN  /\ kernel' = rip_route_delete_route(kernel, route)
           /\ \/ db' = IF undeleted THEN rip_db_remove(db, k)
                                    ELSE rip_db_move_to_garbage(db, k, dead)
              \/ OutOfMemory /\ ~failed /\ db' = rip_db_move_to_garbage_oom(db, k, dead)
           /\ pc' = IF failed THEN "dispatch" ELSE "timeout"
           /\ sweep' = IF failed THEN NoSweep
                       ELSE [visited |-> {}, aged |-> sweep.aged \cup {k}, start_gc |-> TRUE]

rip_t_timeout_route ==
    /\ pc = "timeout"
    /\ \E k \in Learned(db) \ sweep.visited :
          timeout_count(k) \/ rip_route_timeout_expired(k)
    /\ UNCHANGED <<n_adv, timers, rx_ready, t_ready, rx, pending, told>>

rip_t_timeout_done_always_gc ==
    /\ pc = "timeout" /\ Learned(db) \subseteq sweep.visited
    /\ LET gc == IF sweep.start_gc
                 THEN timer_start_oneshot(timers, "t_gc", GC_PERIOD_TIMER) ELSE timers
       IN  timers' = timer_start_oneshot(gc, "t_timeout", TIMEOUT_PERIOD_TIMER)
    /\ sweep' = NoSweep
    /\ pc' = "dispatch"
    /\ UNCHANGED <<n_adv, db, kernel, rx_ready, t_ready, rx, pending, told>>
rip_t_timeout_done_never_gc ==
    /\ pc = "timeout" /\ Learned(db) \subseteq sweep.visited
    /\ timers' = timer_start_oneshot(timers, "t_timeout", TIMEOUT_PERIOD_TIMER)
    /\ sweep' = NoSweep
    /\ pc' = "dispatch"
    /\ UNCHANGED <<n_adv, db, kernel, rx_ready, t_ready, rx, pending, told>>
rip_t_timeout_done_once ==
    /\ pc = "timeout" /\ Learned(db) \subseteq sweep.visited
    /\ timers' = IF sweep.start_gc /\ ~timer_is_ticking(timers, "t_gc")
                 THEN timer_start_oneshot(timers, "t_gc", GC_PERIOD_TIMER) ELSE timers
    /\ sweep' = NoSweep
    /\ pc' = "dispatch"
    /\ UNCHANGED <<n_adv, db, kernel, rx_ready, t_ready, rx, pending, told>>
rip_t_timeout_done ==
    /\ pc = "timeout" /\ Learned(db) \subseteq sweep.visited
    /\ LET gc == IF sweep.start_gc /\ ~timer_is_ticking(timers, "t_gc")
                 THEN timer_start_oneshot(timers, "t_gc", GC_PERIOD_TIMER) ELSE timers
       IN  timers' = timer_start_oneshot(gc, "t_timeout", TIMEOUT_PERIOD_TIMER)
    /\ sweep' = NoSweep
    /\ pc' = "dispatch"
    /\ UNCHANGED <<n_adv, db, kernel, rx_ready, t_ready, rx, pending, told>>

has_more_time_passed(desc) == desc.gc_age > GC_PERIOD_RFC
has_time_passed(desc) == desc.gc_age >= GC_PERIOD_RFC

\* Every route that is due is removed with rip_db_remove.
rip_t_gc_expired ==
    TimerCallback("t_gc",
      /\ LET due(k) == db.garbage[k] # NULL /\ has_time_passed(db.garbage[k])
             kept(map) == [k \in Key |-> IF due(k) THEN NULL ELSE map[k]]
         IN  /\ db' = [db EXCEPT !.ok = kept(@), !.garbage = kept(@)]
             /\ timers' = IF Items(kept(db.garbage)) # {}
                          THEN timer_start_oneshot(timers, "t_gc", GC_PERIOD_TIMER)
                          ELSE timer_clear(timers, "t_gc")
      /\ UNCHANGED <<pc, n_adv, kernel, rx_ready, rx, pending, sweep, told>>)

----------------------------------------------------------------------------
(***************************************************************************)
(* Exit.  A signal handler and PANIC call exit, whose handler runs         *)
(* rip_cleanup: every metric becomes infinity, everything is advertised,   *)
(* and the learned routes, with their new metric, are deleted from the     *)
(* kernel.  When main has returned, the context that the exit handler uses *)
(* is gone: the cleanup may or may not happen.                             *)
(***************************************************************************)
sig_handler ==
    /\ Signals /\ pc \notin {"exit", "panic", "exited", "returned"}
    /\ pc' = "exit"
    /\ UNCHANGED <<n_adv, db, kernel, timers, told, local>>

Gone ==
    /\ pc' = "exited"
    /\ n_adv' = 0
    /\ db' = rip_db_init
    /\ timers' = [t \in Timer |-> Disarmed]
    /\ rx_ready' = {} /\ t_ready' = {}
    /\ rx' = NoRx /\ pending' = NULL /\ sweep' = NoSweep

flush_routing_table(d, krt) == {}
rip_clear_routing_table(d, krt) ==
    krt \ {rip_rtnl_route_create(k, d.ok[k]) : k \in Learned(d)}

Withdrawn(d) ==
    LET infinite(desc) == [desc EXCEPT !.metric = Htonl(INFINITY_METRIC)]
    IN  [d EXCEPT !.ok = ForEach(@, infinite), !.garbage = ForEach(@, infinite)]

rip_send_advertisement_shutdown(d) ==
    \E failed \in SendOutcomes(d, FALSE) : told' = rip_send_response(d, FALSE, failed)

rip_cleanup ==
    /\ rip_send_advertisement_shutdown(Withdrawn(db))
    /\ kernel' = rip_clear_routing_table(Withdrawn(db), kernel)
    /\ Gone

atexit_handler == pc \in {"exit", "panic", "returned"} /\ rip_cleanup

exit_without_cleanup ==
    /\ pc = "returned" \/ (Crashes /\ pc # "exited")
    /\ Gone
    /\ UNCHANGED <<kernel, told>>

Restart ==
    /\ pc = "exited"
    /\ pc' = "begin"
    /\ UNCHANGED <<n_adv, db, kernel, timers, told, local>>

----------------------------------------------------------------------------
(***************************************************************************)
(* The clock, and other users of the kernel's table.  The daemon does not  *)
(* wait in poll while a timer has expired; elsewhere time passes as        *)
(* TickPcs says.  Ages are counted up to MaxAge.                           *)
(***************************************************************************)
MaxAge == GC_PERIOD_RFC + GC_PERIOD_TIMER + 1
Older(desc) == [desc EXCEPT !.gc_age = IF @ < MaxAge THEN @ + 1 ELSE @]

Tick ==
    /\ pc \in TickPcs
    /\ pc = "poll" => Expired(timers) = {}
    /\ timers' = [t \in Timer |->
          [timers[t] EXCEPT !.left = IF @ > 0 THEN @ - 1 ELSE @]]
    /\ db' = [db EXCEPT !.garbage = ForEach(@, Older)]
    /\ UNCHANGED <<pc, n_adv, kernel, told, local>>

KernelDrop ==
    /\ ExternalDrop
    /\ \E route \in kernel : kernel' = kernel \ {route}
    /\ UNCHANGED <<pc, n_adv, db, timers, told, local>>

Handlers ==
    \/ \E i \in Ifc : rip_handle_response(i) \/ rip_handle_other_message(i)
    \/ rip_handle_response_done
    \/ handle_ripv2_entry
    \/ handle_non_existing_route_db_add
    \/ rip_t_update_expired
    \/ rip_t_triggered_lock_expired
    \/ rip_t_timeout_expired
    \/ rip_t_timeout_route
    \/ rip_t_timeout_done
    \/ rip_t_gc_expired
    \/ rip_t_request_warmup_expired
    \/ dispatch_done
    \/ check_route_changed

Startup == add_advertised_network_to_db \/ rip_init_timers \/ rip_begin_fails
Exit == sig_handler \/ atexit_handler \/ exit_without_cleanup \/ Restart

Next == Startup \/ event_dispatcher_poll \/ Handlers \/ Exit \/ Tick \/ KernelDrop

Spec == Init /\ [][Next]_vars

----------------------------------------------------------------------------
(***************************************************************************)
(* Fairness.  A handler that has started runs to its end, poll reports an  *)
(* expired timer sooner or later, and time passes.  Datagrams need not     *)
(* arrive and signals need not be sent.                                    *)
(***************************************************************************)
PollTimer(t) == event_dispatcher_poll /\ t \in t_ready'
FairSpec ==
    /\ Spec
    /\ WF_vars(Startup \/ Handlers)
    /\ SF_vars(Tick)
    /\ \A t \in Timer : SF_vars(PollTimer(t))

----------------------------------------------------------------------------
(***************************************************************************)
(* Properties.                                                             *)
(***************************************************************************)
Armed(t) == timers[t].ticking /\ timers[t].left >= 0

\* The kernel routes the daemon believes it has installed.
Installed == {rip_rtnl_route_create(k, db.ok[k]) : k \in Learned(db)}
InFlight ==
    IF pending = NULL THEN {} ELSE {rip_rtnl_route_create(pending.key, pending.desc)}
Orphans == kernel \ (Installed \cup InFlight)

\* The type of every variable of the daemon.
TypeOK ==
    /\ pc \in Pcs
    /\ n_adv \in 0..Len(AdvNetworks)
    /\ db \in Db
    /\ kernel \subseteq KernelRoute
    /\ timers \in [Timer -> [ticking : BOOLEAN, left : Int]]
    /\ rx_ready \subseteq Ifc
    /\ t_ready \subseteq Timer
    /\ rx \in [nbr : Nbr \cup {NULL}, left : Nat]
    /\ pc \in {"entry", "db_add"} => rx.nbr \in Nbr
    /\ pc = "db_add" => rx.left > 0
    /\ pending \in [key : LearnedKeys, desc : Desc] \cup {NULL}
    /\ pc = "db_add" => pending # NULL
    /\ sweep \in [visited : SUBSET Key, aged : SUBSET Key, start_gc : BOOLEAN]
    /\ told \in [Ifc -> [Key -> NetMetric]]

(***************************************************************************)
(* No route is in both hash tables.  rip_db_remove relies on it: it looks  *)
(* in ok_routes first, so a garbage route with a usable twin would survive *)
(* its removal and the usable one would be lost.                           *)
(***************************************************************************)
TablesDisjoint == \A k \in Key : db.ok[k] = NULL \/ db.garbage[k] = NULL

(***************************************************************************)
(* The global flag never misses a route: while some route is marked        *)
(* changed, any_route_changed is set, or check_route_changed would never   *)
(* send the triggered update and rip_db_mark_all_routes_as_unchanged would *)
(* never clear the mark.                                                   *)
(***************************************************************************)
ChangedIsFlagged ==
    (\E k \in rip_db_iter_all(db) : Route(db, k).changed) => db.any_route_changed

(***************************************************************************)
(* Every usable learned route is in the kernel, whatever interleaving of   *)
(* updates, expiries and re-learning led here, as long as nobody else      *)
(* removes routes from the kernel.                                         *)
(***************************************************************************)
UsableIsInstalled == ~ExternalDrop => Installed \subseteq kernel

(***************************************************************************)
(* The daemon uses at most one next hop per network: what two neighbours   *)
(* offer for one network never ends up as two usable routes.               *)
(***************************************************************************)
OneNextHop ==
    ~ExternalDrop =>
        \A k1, k2 \in Learned(db) : k1.dst = k2.dst => k1 = k2

(***************************************************************************)
(* A timer's handler never finds its timer unreadable (the PANIC after     *)
(* timer_clear), although a handler served earlier in the same round of    *)
(* the dispatcher may arm timers that are still waiting to be served.      *)
(***************************************************************************)
NoPanic == pc # "panic"

(***************************************************************************)
(* No lost wake-up: whenever the daemon waits in poll, whatever is left to *)
(* do has an armed timer that will wake it.  Routes age, garbage waits for *)
(* its collection, and a change held back by the triggered-update lock is  *)
(* sent when the lock ends; the networks added at the start have no lock,  *)
(* and the warm-up timer is what wakes the daemon for them.                *)
(***************************************************************************)
NoLostWakeup ==
    pc = "poll" /\ ~ExternalDrop =>
        /\ Armed("t_timeout")
        /\ Items(db.garbage) # {} => Armed("t_gc")
        /\ db.any_route_changed => Armed("t_triggered_lock") \/ Armed("t_request_warmup")
        /\ SendFails = {} => Armed("t_update")

(***************************************************************************)
(* What the neighbours on every other interface were last told of a route  *)
(* is its present metric, unless the route is marked changed ("changed,    *)
(* but not yet advertised").                                               *)
(***************************************************************************)
UnchangedIsAdvertised ==
    pc = "poll" =>
        \A i \in Ifc, k \in rip_db_iter_all(db) :
            k.ifi # i /\ ~Route(db, k).changed => told[i][k] = Route(db, k).metric

(***************************************************************************)
(* Garbage is collected in time: a dead route never gets as old as the     *)
(* RFC's period and one period of the global timer together, even when the *)
(* timer was already running for an older route.                           *)
(***************************************************************************)
GarbageInTime ==
    pc = "poll" => \A k \in Items(db.garbage) :
                       db.garbage[k].gc_age < GC_PERIOD_RFC + GC_PERIOD_TIMER

(***************************************************************************)
(* rip_t_gc_expired does not forget a dead route before the neighbours on  *)
(* every other interface were told that it is unreachable: the garbage     *)
(* collection period outlasts the triggered-update lock.                   *)
(***************************************************************************)
PoisonedBeforeCollected ==
    [][\A k \in Key :
          /\ "t_gc" \in t_ready /\ "t_gc" \notin t_ready' /\ pc' # "exited"
          /\ db.garbage[k] # NULL /\ db'.garbage[k] = NULL
          => \A i \in Ifc \ {k.ifi} : told[i][k] = Htonl(INFINITY_METRIC)]_vars

(***************************************************************************)
(* A route that was counted since t_timeout fired is counted again only    *)
(* after another one has expired in the same loop, although the hash table *)
(* is iterated by position and from the first bucket again after each      *)
(* expiry.  (The end of the process empties the tables.)                   *)
(***************************************************************************)
RecountedOnlyAfterExpiry ==
    [][\A k \in sweep.aged :
          pc = "timeout" /\ pc' # "exited" /\ db.ok[k] # NULL /\ db'.ok[k] # db.ok[k]
          => sweep.start_gc]_vars

(***************************************************************************)
(* Kernel routes lose their owner only when the process ends or a hash     *)
(* table cannot grow: no handler forgets a route it leaves in the kernel.  *)
(***************************************************************************)
OrphansOnlyByFault ==
    [][Orphans' \subseteq Orphans \/ pc' = "exited" \/ (OutOfMemory /\ pc = "db_add")]_vars

(***************************************************************************)
(* The daemon never removes a RIP route it does not own, such as one that  *)
(* a crashed predecessor or a failed insertion left behind: not when it    *)
(* replaces or expires a route to the same network, not when it exits.     *)
(***************************************************************************)
ForeignRoutesUntouched == [][Orphans \subseteq kernel' \/ ExternalDrop]_vars

(***************************************************************************)
(* An exit through the exit handler takes every route the daemon has       *)
(* installed out of the kernel, although rip_cleanup has set the metrics   *)
(* to infinity before it deletes the routes.                               *)
(***************************************************************************)
CleanExit ==
    [][pc = "exit" /\ pc' = "exited" /\ ~Crashes => kernel' \cap Installed = {}]_vars

(***************************************************************************)
(* Liveness: a learned route does not stay usable for ever, a dead route   *)
(* is collected or learned again, every change is advertised.              *)
(***************************************************************************)
RouteExpires == \A k \in Key : k \in Learned(db) ~> k \notin Learned(db)
GarbageGoes == \A k \in Key : db.garbage[k] # NULL ~> db.garbage[k] = NULL
ChangeIsSent == db.any_route_changed ~> ~db.any_route_changed

----------------------------------------------------------------------------
(***************************************************************************)
(* Statements of the repository that the code does not keep.               *)
(***************************************************************************)

(***************************************************************************)
(* "global timer [...] triggered every 15seconds" (rip.h): the timer that  *)
(* ages routes is armed whenever the daemon waits.                         *)
(***************************************************************************)
TimeoutKeepsTicking == pc = "poll" => Armed("t_timeout")

(***************************************************************************)
(* A sendto that fails is made up for: "changed, but not yet advertised"   *)
(* (rip_common.h) stays set until the neighbours know, or the regular      *)
(* update, every "30 seconds +/- random (0,5) seconds" (rip.c), tells      *)
(* them.                                                                   *)
(***************************************************************************)
StaleNewsIsCorrected == pc = "poll" => Armed("t_update") \/ UnchangedIsAdvertised
============================================================================
