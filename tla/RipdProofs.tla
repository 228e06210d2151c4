----------------------------- MODULE RipdProofs -----------------------------
(***************************************************************************)
(* Proofs about the daemon of Ripd, for every topology, every choice of    *)
(* the periods and every set of faults the environment may show.           *)
(***************************************************************************)
EXTENDS RipdInv, TLAPS

(***************************************************************************)
(* Metrics.  A metric accepted from the wire is stored as a metric of one  *)
(* byte in network order (rip2_entry_ntoh, update_metric, rip2_entry_hton) *)
(***************************************************************************)
LEMMA InfinityType == INFINITY_METRIC \in Nat /\ INFINITY_METRIC >= 2
BY InfinityAssumption

\* A host order metric from 1 to infinity is, after htonl, a stored metric.
LEMMA HtonlType ==
    ASSUME NEW m \in 1..INFINITY_METRIC
    PROVE  Htonl(m) \in NetMetric
BY DEF NetMetric

\* The metric an expired or withdrawn route gets is a stored metric.
LEMMA InfiniteType == Htonl(INFINITY_METRIC) \in NetMetric
BY HtonlType, InfinityType

\* Stored metrics are natural numbers, so handle_ok_route_update can compare them.
LEMMA NetMetricInt == NetMetric \subseteq Nat
BY InfinityType DEF NetMetric, Htonl

\* The metric of a valid entry, updated and converted back, is a stored metric.
LEMMA ReceivedMetric ==
    ASSUME NEW dst, NEW wire \in WireMetric, is_entry_valid(dst, Ntohl(wire))
    PROVE  Htonl(update_metric(Ntohl(wire))) \in NetMetric
<1>1. wire \in Int
  BY InfinityType DEF WireMetric, Htonl
<1>2. Ntohl(wire) \in Int
  BY <1>1 DEF Ntohl
<1>3. Ntohl(wire) >= 1
  BY DEF is_entry_valid, is_metric_valid
<1>4. update_metric(Ntohl(wire)) \in 1..INFINITY_METRIC
  BY <1>2, <1>3, InfinityType DEF update_metric
<1> QED
  BY <1>4, HtonlType

(***************************************************************************)
(* The low byte of a metric in network order is 0, so every route gets the *)
(* priority 20 (rip_fill_route).                                           *)
(***************************************************************************)
LEMMA PriorityIs20 ==
    ASSUME NEW k, NEW desc, desc.metric \in NetMetric
    PROVE  rip_rtnl_route_create(k, desc)
             = [dst |-> k.dst, prio |-> 20, ifi |-> k.ifi, nh |-> k.nh]
<1>1. PICK m \in 1..INFINITY_METRIC : desc.metric = m * 16777216
  BY DEF NetMetric, Htonl
<1>2. (m * 16777216) % 256 = 0
  BY <1>1, InfinityType
<1> QED
  BY <1>1, <1>2 DEF rip_rtnl_route_create

----------------------------------------------------------------------------
(***************************************************************************)
(* The operations of rip_db return databases.                              *)
(***************************************************************************)
\* The fields of a database.
LEMMA DbFields ==
    ASSUME NEW d \in Db
    PROVE  /\ d.ok \in [Key -> Desc \cup {NULL}]
           /\ d.garbage \in [Key -> Desc \cup {NULL}]
           /\ d.any_route_changed \in BOOLEAN
           /\ d = [ok |-> d.ok, garbage |-> d.garbage,
                   any_route_changed |-> d.any_route_changed]
BY DEF Db

\* rip_db_init returns a database.
LEMMA InitDb == rip_db_init \in Db
BY DEF rip_db_init, Db, HashmapNew

\* rip_db_add returns a database.
LEMMA AddDb ==
    ASSUME NEW d \in Db, NEW k \in Key, NEW desc \in Desc
    PROVE  rip_db_add(d, k, desc) \in Db
<1>1. [desc EXCEPT !.changed = TRUE] \in Desc
  BY ZenonT(30) DEF Desc
<1> QED
  BY <1>1 DEF rip_db_add, rip_db_add_fails, Db, HashmapSet

\* rip_db_remove returns a database.
LEMMA RemoveDb ==
    ASSUME NEW d \in Db, NEW k \in Key
    PROVE  rip_db_remove(d, k) \in Db
BY DEF rip_db_remove, Db, HashmapDelete

\* rip_db_move_to_garbage returns a database.
LEMMA MoveDb ==
    ASSUME NEW d \in Db, NEW k \in Key, NEW desc \in Desc
    PROVE  rip_db_move_to_garbage(d, k, desc) \in Db
<1>1. desc.changed \in BOOLEAN
  BY DEF Desc
<1>2. (d.any_route_changed \/ desc.changed) \in BOOLEAN
  BY <1>1, DbFields
<1> QED
  BY <1>2 DEF rip_db_move_to_garbage, Db, HashmapSet, HashmapDelete

\* So does a move for which the garbage table cannot grow.
LEMMA MoveOomDb ==
    ASSUME NEW d \in Db, NEW k \in Key, NEW desc \in Desc
    PROVE  rip_db_move_to_garbage_oom(d, k, desc) \in Db
<1>1. desc.changed \in BOOLEAN
  BY DEF Desc
<1>2. (d.any_route_changed \/ desc.changed) \in BOOLEAN
  BY <1>1, DbFields
<1> QED
  BY <1>2 DEF rip_db_move_to_garbage_oom, Db, HashmapDelete

\* rip_db_mark_all_routes_as_unchanged returns a database.
LEMMA MarkDb ==
    ASSUME NEW d \in Db
    PROVE  rip_db_mark_all_routes_as_unchanged(d) \in Db
<1>1. ASSUME NEW desc \in Desc
      PROVE  [desc EXCEPT !.changed = FALSE] \in Desc
  BY ZenonT(30) DEF Desc
<1> QED
  BY <1>1 DEF rip_db_mark_all_routes_as_unchanged, Db, ForEach

\* Iterating over rip_db_all yields routes.
LEMMA RouteType ==
    ASSUME NEW d \in Db, NEW k \in rip_db_iter_all(d)
    PROVE  Route(d, k) \in Desc
BY DEF rip_db_iter_all, Items, Route, Db

\* rip_send_response records stored metrics.
LEMMA SendType ==
    ASSUME NEW d \in Db, NEW only_changed, NEW failed,
           told \in [Ifc -> [Key -> NetMetric]]
    PROVE  rip_send_response(d, only_changed, failed) \in [Ifc -> [Key -> NetMetric]]
<1>1. ASSUME NEW i, NEW k \in fill_buffer_with_entries(d, i, only_changed)
      PROVE  Route(d, k).metric \in NetMetric
  BY RouteType DEF fill_buffer_with_entries, Desc
<1> QED
  BY <1>1 DEF rip_send_response

\* The key of a route learned from a neighbour.
LEMMA LearnedKeyType ==
    ASSUME NEW nbr \in Nbr, NEW dst \in Dest
    PROVE  LearnedKey(nbr, dst) \in LearnedKeys
BY DEF LearnedKeys

\* An element of a sequence (the configured networks).
LEMMA SeqElement ==
    ASSUME NEW S, NEW s \in Seq(S), NEW i \in DOMAIN s
    PROVE  s[i] \in S
OBVIOUS

\* The fields of a key, in the ranges the netlink route needs.
LEMMA KeyFields ==
    ASSUME NEW k \in Key
    PROVE  /\ k = [ifi |-> k.ifi, dst |-> k.dst, nh |-> k.nh]
           /\ k.ifi \in Ifc /\ k.dst \in Dest /\ k.nh \in Nbr \cup {NULL}
<1>1. CASE k \in LearnedKeys
  BY <1>1, TopologyAssumption DEF LearnedKeys, LearnedKey
<1>2. ASSUME NEW i \in DOMAIN AdvNetworks, k = LocalKey(AdvNetworks[i])
      PROVE  /\ k = [ifi |-> k.ifi, dst |-> k.dst, nh |-> k.nh]
             /\ k.ifi \in Ifc /\ k.dst \in Dest /\ k.nh = NULL
  <2>1. AdvNetworks[i] \in [dev : Ifc, dst : Dest]
    BY TopologyAssumption, SeqElement, ZenonT(30)
  <2> QED
    BY <1>2, <2>1 DEF LocalKey
<1> QED
  BY <1>1, <1>2 DEF Key

\* rip_rtnl_route_create builds a route the kernel can hold.
LEMMA RouteCreateType ==
    ASSUME NEW k \in Key, NEW desc \in Desc
    PROVE  rip_rtnl_route_create(k, desc) \in KernelRoute
<1>1. desc.metric \in NetMetric
  BY DEF Desc
<1> QED
  BY <1>1, PriorityIs20, KeyFields DEF KernelRoute

----------------------------------------------------------------------------
(***************************************************************************)
(* Type correctness, one lemma per group of actions.                       *)
(***************************************************************************)
\* Arming and clearing a timer.
LEMMA TimerTypes ==
    ASSUME NEW ts \in [Timer -> [ticking : BOOLEAN, left : Int]], NEW t \in Timer,
           NEW value \in Nat
    PROVE  /\ timer_start_oneshot(ts, t, value) \in [Timer -> [ticking : BOOLEAN, left : Int]]
           /\ timer_clear(ts, t) \in [Timer -> [ticking : BOOLEAN, left : Int]]
BY DEF timer_start_oneshot, timer_clear, Disarmed

\* The five timers.
LEMMA TimerNames ==
    /\ "t_update" \in Timer /\ "t_triggered_lock" \in Timer /\ "t_timeout" \in Timer
    /\ "t_gc" \in Timer /\ "t_request_warmup" \in Timer
BY DEF Timer

\* The periods and times a timer is armed with are natural numbers.
LEMMA TimerValues ==
    /\ GC_PERIOD_TIMER \in Nat /\ TIMEOUT_PERIOD_TIMER \in Nat
    /\ \A lock \in LockTimes : lock \in Nat
    /\ \A update \in UpdateTimes : update \in Nat
    /\ 0 \in Nat
BY PeriodAssumption

\* The initial state has the right types.
LEMMA InitType == Init => TypeOK
<1> SUFFICES ASSUME Init PROVE TypeOK
  OBVIOUS
<1>1. n_adv \in 0..Len(AdvNetworks)
  BY TopologyAssumption DEF Init, Fresh
<1>2. timers \in [Timer -> [ticking : BOOLEAN, left : Int]]
  BY DEF Init, Fresh, Disarmed
<1>3. told \in [Ifc -> [Key -> NetMetric]]
  BY InfinityType, HtonlType DEF Init
<1> QED
  BY <1>1, <1>2, <1>3, InitDb DEF Init, Fresh, TypeOK, Pcs, NoRx, NoSweep

\* rip_begin: the advertised networks, the timers, a failing call.
LEMMA StartupType == TypeOK /\ Startup => TypeOK'
<1> SUFFICES ASSUME TypeOK, Startup PROVE TypeOK'
  OBVIOUS
<1> USE DEF TypeOK, Pcs, local
<1>1. CASE add_advertised_network_to_db
  <2> DEFINE k == LocalKey(AdvNetworks[n_adv + 1])
             desc == [metric |-> Htonl(1), changed |-> FALSE, is_local |-> TRUE,
                      in_routing_table |-> FALSE, timeout_cnt |-> 0, gc_age |-> 0]
  <2>1. n_adv + 1 \in DOMAIN AdvNetworks /\ n_adv' \in 0..Len(AdvNetworks)
    BY <1>1, TopologyAssumption DEF add_advertised_network_to_db
  <2>2. k \in Key
    BY <2>1 DEF Key
  <2>3. desc \in Desc
    BY HtonlType, InfinityType DEF Desc
  <2>4. rip_db_add(db, k, desc) \in Db
    BY <2>2, <2>3, AddDb
  <2>5. db' \in Db /\ pc' \in {"returned", "begin"}
    BY <1>1, <2>4 DEF add_advertised_network_to_db
  <2> QED
    BY <1>1, <2>1, <2>5 DEF add_advertised_network_to_db
<1>2. CASE rip_init_timers
  <2>1. timers' \in [Timer -> [ticking : BOOLEAN, left : Int]]
    BY <1>2, PeriodAssumption DEF rip_init_timers, Timer, Disarmed
  <2> QED
    BY <1>2, <2>1 DEF rip_init_timers
<1>3. CASE rip_begin_fails
  BY <1>3 DEF rip_begin_fails
<1> QED
  BY <1>1, <1>2, <1>3 DEF Startup

\* What a step that processes an entry has to keep.
LEMMA EntryStepType ==
    ASSUME TypeOK, UNCHANGED <<n_adv, timers, rx_ready, t_ready, sweep, told>>,
           pc' \in Pcs, db' \in Db, kernel' \subseteq KernelRoute,
           rx' \in [nbr : Nbr, left : Nat],
           pending' \in [key : LearnedKeys, desc : Desc] \cup {NULL},
           pc' = "db_add" => rx'.left > 0 /\ pending' # NULL
    PROVE  TypeOK'
<1>1. rx' \in [nbr : Nbr \cup {NULL}, left : Nat] /\ rx'.nbr \in Nbr
  OBVIOUS
<1> QED
  BY <1>1, ZenonT(30) DEF TypeOK

\* The entry is done with: rx' = NextEntry.
LEMMA NextEntryType ==
    ASSUME TypeOK, pc \in {"entry", "db_add"}, rx.left > 0
    PROVE  rx \in [nbr : Nbr, left : Nat] /\ NextEntry \in [nbr : Nbr, left : Nat]
<1>1. rx \in [nbr : Nbr \cup {NULL}, left : Nat] /\ rx.nbr \in Nbr
  BY ZenonT(30) DEF TypeOK
<1>2. rx \in [nbr : Nbr, left : Nat]
  BY <1>1
<1>3. rx.left - 1 \in Nat
  BY <1>2
<1> QED
  BY <1>2, <1>3 DEF NextEntry

\* The first half of handle_non_existing_route.
LEMMA NonExistingType ==
    ASSUME TypeOK, pc = "entry", rx.left > 0,
           UNCHANGED <<n_adv, timers, rx_ready, t_ready, sweep, told>>,
           NEW k \in LearnedKeys, NEW desc \in Desc,
           NEW d \in Db, NEW krt \in SUBSET KernelRoute,
           handle_non_existing_route(k, desc, d, krt)
    PROVE  TypeOK'
<1> DEFINE route == rip_rtnl_route_create(k, desc)
<1>1. route \in KernelRoute
  BY RouteCreateType DEF Key
<1>2. pending \in [key : LearnedKeys, desc : Desc] \cup {NULL}
  BY ZenonT(30) DEF TypeOK
<1>3. db' = d
  BY ZenonT(30) DEF handle_non_existing_route
<1>4. CASE /\ kernel' = krt \cup {route} /\ pending' = [key |-> k, desc |-> desc]
           /\ pc' = "db_add" /\ rx' = rx
  <2>1. [key |-> k, desc |-> desc] \in [key : LearnedKeys, desc : Desc]
    OBVIOUS
  <2>2. pending' # NULL
    BY <1>4, <2>1, NullAssumption, ZenonT(30)
  <2>3. kernel' \subseteq KernelRoute
    BY <1>1, <1>4
  <2>4. rx' \in [nbr : Nbr, left : Nat] /\ rx'.left > 0
    BY <1>4, NextEntryType, ZenonT(30)
  <2>5. pc' \in Pcs
    BY <1>4 DEF Pcs
  <2> QED
    BY <1>3, <1>4, <2>1, <2>2, <2>3, <2>4, <2>5, EntryStepType, ZenonT(30)
<1>5. CASE kernel' = krt /\ pc' = "entry" /\ rx' = NextEntry /\ pending' = pending
  <2>1. rx' \in [nbr : Nbr, left : Nat]
    BY <1>5, NextEntryType, ZenonT(30)
  <2>2. pc' \in Pcs /\ pc' # "db_add"
    BY <1>5 DEF Pcs
  <2> QED
    BY <1>2, <1>3, <1>5, <2>1, <2>2, EntryStepType, ZenonT(30)
<1> QED
  BY <1>4, <1>5, ZenonT(30) DEF handle_non_existing_route, rip_route_add_route

\* handle_ripv2_entry, with both callers of handle_non_existing_route.
LEMMA EntryType == TypeOK /\ handle_ripv2_entry => TypeOK'
<1> SUFFICES ASSUME TypeOK, handle_ripv2_entry PROVE TypeOK'
  OBVIOUS
<1>1. pc = "entry" /\ rx.left > 0 /\ UNCHANGED <<n_adv, timers, rx_ready, t_ready, sweep, told>>
  BY ZenonT(30) DEF handle_ripv2_entry
<1>2. rx \in [nbr : Nbr, left : Nat] /\ NextEntry \in [nbr : Nbr, left : Nat]
  BY <1>1, NextEntryType, ZenonT(30)
<1>3. PICK dst \in Dest \cup {BadDest}, wire \in WireMetric :
          IF ~is_entry_valid(dst, Ntohl(wire))
          THEN /\ rx' = NextEntry
               /\ UNCHANGED <<pc, db, kernel, pending>>
          ELSE LET k == LearnedKey(rx.nbr, dst)
                   desc == build_route_description(Htonl(update_metric(Ntohl(wire))))
               IN  IF db.ok[k] # NULL
                   THEN handle_ok_route_update(k, desc)
                   ELSE handle_non_existing_route(k, desc, rip_db_remove(db, k), kernel)
  BY ZenonT(30) DEF handle_ripv2_entry
<1>4. CASE rx' = NextEntry /\ UNCHANGED <<pc, db, kernel, pending>>
  <2>1. /\ pc' \in Pcs /\ db' \in Db /\ kernel' \subseteq KernelRoute
        /\ pending' \in [key : LearnedKeys, desc : Desc] \cup {NULL}
    BY <1>4, ZenonT(30) DEF TypeOK
  <2>2. pc' # "db_add"
    BY <1>1, <1>4
  <2> QED
    BY <1>1, <1>2, <1>4, <2>1, <2>2, EntryStepType, ZenonT(30)
<1>5. CASE is_entry_valid(dst, Ntohl(wire))
  <2> DEFINE k == LearnedKey(rx.nbr, dst)
             desc == build_route_description(Htonl(update_metric(Ntohl(wire))))
  <2>1. k \in LearnedKeys /\ k \in Key
    <3>1. dst \in Dest /\ rx.nbr \in Nbr
      BY <1>2, <1>5 DEF is_entry_valid
    <3> QED
      BY <3>1, LearnedKeyType, ZenonT(30) DEF Key
  <2>2. desc \in Desc
    <3>1. Htonl(update_metric(Ntohl(wire))) \in NetMetric
      BY <1>5, ReceivedMetric, ZenonT(30)
    <3> HIDE DEF k
    <3> QED
      BY <3>1 DEF build_route_description, Desc
  <2> HIDE DEF k, desc
  <2>3. db \in Db /\ rip_db_remove(db, k) \in Db /\ kernel \in SUBSET KernelRoute
    BY <2>1, RemoveDb, ZenonT(30) DEF TypeOK
  <2>4. ASSUME NEW krt \in SUBSET KernelRoute,
               handle_non_existing_route(k, desc, rip_db_remove(db, k), krt)
        PROVE  TypeOK'
    BY <1>1, <2>1, <2>2, <2>3, <2>4, NonExistingType, ZenonT(30)
  <2>5. CASE handle_ok_route_update(k, desc)
    <3>1. rip_route_delete_route(kernel, rip_rtnl_route_create(k, db.ok[k])) \in SUBSET KernelRoute
      BY <2>3, ZenonT(30) DEF rip_route_delete_route
    <3> QED
      BY <1>4, <2>4, <2>5, <3>1, ZenonT(30) DEF handle_ok_route_update
  <2> QED
    BY <1>3, <1>5, <2>3, <2>4, <2>5, ZenonT(30) DEF k, desc
<1> QED
  BY <1>3, <1>4, <1>5, ZenonT(30)

\* poll, the dispatcher, and the datagrams around their entries.
LEMMA MessageType ==
    TypeOK /\ (\/ \E i \in Ifc : rip_handle_response(i) \/ rip_handle_other_message(i)
               \/ rip_handle_response_done
               \/ handle_non_existing_route_db_add
               \/ event_dispatcher_poll \/ dispatch_done) => TypeOK'
<1> USE DEF TypeOK, Pcs, local
<1>1. ASSUME TypeOK, NEW i \in Ifc, rip_handle_response(i) PROVE TypeOK'
  BY <1>1, PeriodAssumption DEF rip_handle_response
<1>2. ASSUME TypeOK, NEW i \in Ifc, rip_handle_other_message(i) PROVE TypeOK'
  BY <1>2 DEF rip_handle_other_message
<1>3. ASSUME TypeOK, rip_handle_response_done PROVE TypeOK'
  BY <1>3 DEF rip_handle_response_done, NoRx
<1>4. ASSUME TypeOK, handle_non_existing_route_db_add PROVE TypeOK'
  <2>1. pending.key \in Key /\ pending.desc \in Desc
    BY <1>4, SMTT(30) DEF handle_non_existing_route_db_add, Key
  <2>2. db' \in Db
    BY <1>4, <2>1, AddDb DEF handle_non_existing_route_db_add
  <2>3. rx' \in [nbr : Nbr, left : Nat]
    BY <1>4, SMTT(30) DEF handle_non_existing_route_db_add, NextEntry
  <2> QED
    BY <1>4, <2>2, <2>3, SMTT(30) DEF handle_non_existing_route_db_add
<1>5. ASSUME TypeOK, event_dispatcher_poll PROVE TypeOK'
  BY <1>5 DEF event_dispatcher_poll, Expired
<1>6. ASSUME TypeOK, dispatch_done PROVE TypeOK'
  BY <1>6 DEF dispatch_done
<1> QED
  BY <1>1, <1>2, <1>3, <1>4, <1>5, <1>6, ZenonT(30)

\* rip_send_advertisement_multicast.
LEMMA MulticastType ==
    ASSUME TypeOK, NEW only_changed, NEW failed,
           rip_send_advertisement_multicast(db, only_changed, failed)
    PROVE  db' \in Db /\ told' \in [Ifc -> [Key -> NetMetric]]
BY MarkDb, SendType, SMTT(30) DEF rip_send_advertisement_multicast, TypeOK

\* check_route_changed.
LEMMA CheckType == TypeOK /\ check_route_changed => TypeOK'
<1> SUFFICES ASSUME TypeOK, check_route_changed PROVE TypeOK'
  OBVIOUS
<1>1. /\ db' \in Db
      /\ told' \in [Ifc -> [Key -> NetMetric]]
      /\ timers' \in [Timer -> [ticking : BOOLEAN, left : Int]]
      /\ pc' \in {"poll", "returned"}
  <2>1. CASE UNCHANGED <<db, timers, told>> /\ pc' = "poll"
    BY <2>1 DEF TypeOK
  <2>2. ASSUME NEW failed, rip_send_advertisement_multicast(db, TRUE, failed),
               IF failed # {}
               THEN pc' = "returned" /\ UNCHANGED timers
               ELSE /\ pc' = "poll"
                    /\ \E lock \in LockTimes :
                          timers' = timer_start_oneshot(timers, "t_triggered_lock", lock)
        PROVE  /\ db' \in Db
               /\ told' \in [Ifc -> [Key -> NetMetric]]
               /\ timers' \in [Timer -> [ticking : BOOLEAN, left : Int]]
               /\ pc' \in {"poll", "returned"}
    <3>0. ASSUME NEW lock \in LockTimes
          PROVE  timer_start_oneshot(timers, "t_triggered_lock", lock)
                   \in [Timer -> [ticking : BOOLEAN, left : Int]]
      BY TimerTypes, TimerNames, TimerValues, ZenonT(30) DEF TypeOK
    <3>1. timers' \in [Timer -> [ticking : BOOLEAN, left : Int]]
      BY <2>2, <3>0 DEF TypeOK
    <3> QED
      BY <2>2, <3>1, MulticastType, ZenonT(30)
  <2> QED
    BY <2>1, <2>2, ZenonT(30) DEF check_route_changed
<1> QED
  BY <1>1 DEF check_route_changed, TypeOK, Pcs, local

\* The handlers that rip.c registers for the five timers.
LEMMA TimerHandlerType ==
    TypeOK /\ (\/ rip_t_update_expired
               \/ rip_t_triggered_lock_expired
               \/ rip_t_timeout_expired
               \/ rip_t_gc_expired
               \/ rip_t_request_warmup_expired) => TypeOK'
<1> SUFFICES ASSUME TypeOK,
                    \/ rip_t_update_expired
                    \/ rip_t_triggered_lock_expired
                    \/ rip_t_timeout_expired
                    \/ rip_t_gc_expired
                    \/ rip_t_request_warmup_expired
             PROVE  TypeOK'
  OBVIOUS
<1>1. ASSUME PANIC, t_ready' \subseteq t_ready PROVE TypeOK'
  BY <1>1 DEF PANIC, TypeOK, Pcs
<1>2. CASE rip_t_update_expired
  <2>1. ASSUME NEW failed, NEW update \in UpdateTimes,
               rip_send_advertisement_multicast(db, FALSE, failed),
               timers' = IF failed # {}
                         THEN timer_clear(timers, "t_update")
                         ELSE timer_start_oneshot(timers, "t_update", update)
        PROVE  /\ db' \in Db
               /\ told' \in [Ifc -> [Key -> NetMetric]]
               /\ timers' \in [Timer -> [ticking : BOOLEAN, left : Int]]
    <3>1. timers' \in [Timer -> [ticking : BOOLEAN, left : Int]]
      BY <2>1, TimerTypes, TimerNames, TimerValues, ZenonT(30) DEF TypeOK
    <3> QED
      BY <2>1, <3>1, MulticastType, ZenonT(30)
  <2> QED
    BY <1>1, <1>2, <2>1, ZenonT(30) DEF rip_t_update_expired, TimerCallback, TypeOK
<1>3. ASSUME NEW t \in Timer, rip_t_oneshot_expired(t) PROVE TypeOK'
  <2>1. timer_clear(timers, t) \in [Timer -> [ticking : BOOLEAN, left : Int]]
    BY TimerTypes, TimerValues, ZenonT(30) DEF TypeOK
  <2> QED
    BY <1>1, <1>3, <2>1, ZenonT(30) DEF rip_t_oneshot_expired, TimerCallback, TypeOK
<1>4. CASE rip_t_timeout_expired
  <2>1. timer_clear(timers, "t_timeout") \in [Timer -> [ticking : BOOLEAN, left : Int]]
    BY TimerTypes, TimerNames, TimerValues, ZenonT(30) DEF TypeOK
  <2>2. NoSweep \in [visited : SUBSET Key, aged : SUBSET Key, start_gc : BOOLEAN]
    BY DEF NoSweep
  <2> QED
    BY <1>1, <1>4, <2>1, <2>2, ZenonT(30) DEF rip_t_timeout_expired, TimerCallback, TypeOK, Pcs
<1>5. CASE rip_t_gc_expired
  <2> DEFINE due(k) == db.garbage[k] # NULL /\ has_time_passed(db.garbage[k])
             kept(map) == [k \in Key |-> IF due(k) THEN NULL ELSE map[k]]
  <2>1. kept(db.ok) \in [Key -> Desc \cup {NULL}] /\ kept(db.garbage) \in [Key -> Desc \cup {NULL}]
    BY DEF TypeOK, Db
  <2>2. [db EXCEPT !.ok = kept(@), !.garbage = kept(@)] \in Db
    BY <2>1, ZenonT(30) DEF TypeOK, Db
  <2>3. /\ timer_clear(timers, "t_gc") \in [Timer -> [ticking : BOOLEAN, left : Int]]
        /\ timer_start_oneshot(timers, "t_gc", GC_PERIOD_TIMER)
             \in [Timer -> [ticking : BOOLEAN, left : Int]]
    BY TimerTypes, TimerNames, TimerValues, ZenonT(30) DEF TypeOK
  <2> QED
    BY <1>1, <1>5, <2>2, <2>3, ZenonT(30) DEF rip_t_gc_expired, TimerCallback, TypeOK
<1> QED
  BY <1>2, <1>3, <1>4, <1>5, TimerNames, ZenonT(30)
     DEF rip_t_triggered_lock_expired, rip_t_request_warmup_expired

\* A route that rip_t_timeout_expired has counted.
LEMMA AgedType ==
    ASSUME TypeOK, NEW k \in Learned(db)
    PROVE  /\ k \in Key /\ db.ok[k] \in Desc /\ db.ok[k] # NULL
           /\ Aged(k) \in Desc
           /\ Aged(k) = [db.ok[k] EXCEPT !.timeout_cnt = @ + TIMEOUT_PERIOD_TIMER]
<1>1. k \in Key /\ db.ok[k] \in Desc /\ db.ok[k] # NULL
  BY SMTT(30) DEF TypeOK, Learned, Db
<1>2. TIMEOUT_PERIOD_TIMER \in Nat
  BY PeriodAssumption, SMTT(30)
<1> QED
  BY <1>1, <1>2, SMTT(30) DEF Aged, Desc

\* The body of the loop of rip_t_timeout_expired.
LEMMA TimeoutRouteType == TypeOK /\ rip_t_timeout_route => TypeOK'
<1> SUFFICES ASSUME TypeOK, pc = "timeout",
                    UNCHANGED <<n_adv, timers, rx_ready, t_ready, rx, pending, told>>,
                    NEW k \in Learned(db),
                    timeout_count(k) \/ rip_route_timeout_expired(k)
             PROVE  TypeOK'
  BY DEF rip_t_timeout_route
<1>1. k \in Key /\ db.ok[k] \in Desc /\ Aged(k) \in Desc
  BY AgedType, SMTT(30)
<1>2. sweep \in [visited : SUBSET Key, aged : SUBSET Key, start_gc : BOOLEAN]
  BY ZenonT(30) DEF TypeOK
<1>3. CASE timeout_count(k)
  <2>1. db' \in Db
    BY <1>1, <1>3, ZenonT(30) DEF timeout_count, TypeOK, Db, HashmapSet
  <2>2. sweep' \in [visited : SUBSET Key, aged : SUBSET Key, start_gc : BOOLEAN]
    BY <1>1, <1>2, <1>3, ZenonT(30) DEF timeout_count
  <2> QED
    BY <1>3, <2>1, <2>2 DEF timeout_count, TypeOK
<1>4. CASE rip_route_timeout_expired(k)
  <2> DEFINE dead == [Aged(k) EXCEPT !.changed = TRUE,
                                     !.metric = Htonl(INFINITY_METRIC),
                                     !.in_routing_table = FALSE, !.gc_age = 0]
  <2>1. dead \in Desc
    BY <1>1, InfiniteType, ZenonT(30) DEF Desc
  <2>2. /\ rip_db_move_to_garbage(db, k, dead) \in Db /\ rip_db_remove(db, k) \in Db
        /\ rip_db_move_to_garbage_oom(db, k, dead) \in Db
    BY <1>1, <2>1, MoveDb, RemoveDb, MoveOomDb DEF TypeOK
  <2>3. db' \in Db /\ pc' \in Pcs /\ pc' \notin {"entry", "db_add"}
        /\ kernel' \subseteq KernelRoute
    BY <1>4, <2>2 DEF rip_route_timeout_expired, rip_route_delete_route, TypeOK, Pcs
  <2>4. sweep' \in [visited : SUBSET Key, aged : SUBSET Key, start_gc : BOOLEAN]
    BY <1>1, <1>2, <1>4 DEF rip_route_timeout_expired, NoSweep
  <2> QED
    BY <2>3, <2>4, ZenonT(30) DEF TypeOK
<1> QED
  BY <1>3, <1>4, SMTT(30)

\* The end of rip_t_timeout_expired.
LEMMA TimeoutDoneType == TypeOK /\ rip_t_timeout_done => TypeOK'
<1> SUFFICES ASSUME TypeOK, rip_t_timeout_done PROVE TypeOK'
  OBVIOUS
<1>1. timers' \in [Timer -> [ticking : BOOLEAN, left : Int]]
  <2>1. ASSUME NEW ts \in [Timer -> [ticking : BOOLEAN, left : Int]]
        PROVE  /\ timer_start_oneshot(ts, "t_gc", GC_PERIOD_TIMER)
                    \in [Timer -> [ticking : BOOLEAN, left : Int]]
               /\ timer_start_oneshot(ts, "t_timeout", TIMEOUT_PERIOD_TIMER)
                    \in [Timer -> [ticking : BOOLEAN, left : Int]]
    BY TimerTypes, TimerNames, TimerValues, ZenonT(30)
  <2> QED
    BY <2>1, ZenonT(30) DEF rip_t_timeout_done, TypeOK
<1>2. NoSweep \in [visited : SUBSET Key, aged : SUBSET Key, start_gc : BOOLEAN]
  BY SMTT(30) DEF NoSweep
<1> QED
  BY <1>1, <1>2, ZenonT(30) DEF rip_t_timeout_done, TypeOK, Pcs

\* The variables once the process has ended.
LEMMA GoneType ==
    ASSUME TypeOK, Gone, kernel' \subseteq kernel, told' \in [Ifc -> [Key -> NetMetric]]
    PROVE  TypeOK'
<1>1. timers' \in [Timer -> [ticking : BOOLEAN, left : Int]]
  BY SMTT(30) DEF Gone, Disarmed
<1>2. n_adv' \in 0..Len(AdvNetworks)
  BY TopologyAssumption, SMTT(30) DEF Gone
<1>3. kernel' \subseteq KernelRoute /\ db' \in Db
  BY InitDb, SMTT(30) DEF Gone, TypeOK
<1>4. /\ pc' = "exited" /\ rx_ready' = {} /\ t_ready' = {}
      /\ rx' \in [nbr : Nbr \cup {NULL}, left : Nat] /\ pending' = NULL
      /\ sweep' \in [visited : SUBSET Key, aged : SUBSET Key, start_gc : BOOLEAN]
  BY ZenonT(30) DEF Gone, NoRx, NoSweep
<1> QED
  BY <1>1, <1>2, <1>3, <1>4, ZenonT(30) DEF TypeOK, Pcs

\* Exit and restart, the clock, and other users of the kernel.
LEMMA OtherType == TypeOK /\ (Exit \/ Tick \/ KernelDrop \/ UNCHANGED vars) => TypeOK'
<1> SUFFICES ASSUME TypeOK, Exit \/ Tick \/ KernelDrop \/ UNCHANGED vars PROVE TypeOK'
  BY SMTT(30)
<1> USE DEF TypeOK, local
<1>2. CASE atexit_handler
  <2> DEFINE infinite(desc) == [desc EXCEPT !.metric = Htonl(INFINITY_METRIC)]
             d == [db EXCEPT !.ok = ForEach(@, infinite), !.garbage = ForEach(@, infinite)]
  <2>1. ASSUME NEW desc \in Desc PROVE infinite(desc) \in Desc
    BY InfiniteType, SMTT(30) DEF Desc
  <2>2. d \in Db
    BY <2>1, ZenonT(30) DEF Db, ForEach
  <2>3. told' \in [Ifc -> [Key -> NetMetric]]
    <3> HIDE DEF d
    <3>1. PICK failed : told' = rip_send_response(d, FALSE, failed)
      BY <1>2, ZenonT(30) DEF atexit_handler, rip_cleanup, rip_send_advertisement_shutdown,
             Withdrawn, d
    <3> QED
      BY <2>2, <3>1, SendType, ZenonT(30)
  <2>4. kernel' \subseteq kernel
    BY <1>2, ZenonT(30) DEF atexit_handler, rip_cleanup, Withdrawn, rip_clear_routing_table
  <2> QED
    BY <1>2, <2>3, <2>4, GoneType, ZenonT(30) DEF atexit_handler, rip_cleanup
<1>3. CASE exit_without_cleanup
  BY <1>3, GoneType, ZenonT(30) DEF exit_without_cleanup
<1>4. CASE sig_handler \/ Restart
  BY <1>4, ZenonT(30) DEF sig_handler, Restart, Pcs
<1>5. CASE Tick
  <2>1. timers' \in [Timer -> [ticking : BOOLEAN, left : Int]]
    <3>1. ASSUME NEW timer \in [ticking : BOOLEAN, left : Int]
          PROVE  [timer EXCEPT !.left = IF @ > 0 THEN @ - 1 ELSE @]
                   \in [ticking : BOOLEAN, left : Int]
      BY SMTT(30)
    <3> QED
      BY <1>5, <3>1 DEF Tick
  <2>2. ASSUME NEW desc \in Desc PROVE Older(desc) \in Desc
    BY SMTT(30) DEF Older, Desc
  <2>3. db' \in Db
    BY <1>5, <2>2, SMTT(30) DEF Tick, Db, ForEach
  <2> QED
    BY <1>5, <2>1, <2>3 DEF Tick
<1>6. CASE KernelDrop
  BY <1>6, ZenonT(30) DEF KernelDrop
<1>7. CASE UNCHANGED vars
  BY <1>7, ZenonT(30) DEF vars
<1> QED
  BY <1>2, <1>3, <1>4, <1>5, <1>6, <1>7, ZenonT(30) DEF Exit

(***************************************************************************)
(* Every step of the daemon preserves the types of its variables.          *)
(***************************************************************************)
LEMMA TypeStep == TypeOK /\ [Next]_vars => TypeOK'
BY StartupType, EntryType, MessageType, CheckType, TimerHandlerType, TimeoutRouteType,
   TimeoutDoneType, OtherType DEF Next, Handlers

(***************************************************************************)
(* The daemon's variables keep their types: in particular every metric     *)
(* that is stored or advertised lies between 1 and infinity, and a route   *)
(* is pending exactly where handle_non_existing_route left one.            *)
(***************************************************************************)
THEOREM TypeCorrect == Spec => []TypeOK
<1> QED
  BY InitType, TypeStep, PTL DEF Spec

----------------------------------------------------------------------------
(***************************************************************************)
(* The routing database: its two tables stay disjoint, a route keeps its   *)
(* kind, and no change goes unnoticed.                                     *)
(***************************************************************************)

\* TablesDisjoint, RouteShape and ChangedIsFlagged, key by key.
GoodRoute(d, k) ==
    /\ d.ok[k] = NULL \/ d.garbage[k] = NULL
    /\ d.ok[k] # NULL => /\ d.ok[k].is_local <=> k \notin LearnedKeys
                         /\ d.ok[k].changed => d.any_route_changed
    /\ d.garbage[k] # NULL => /\ k \in LearnedKeys
                              /\ ~d.garbage[k].is_local
                              /\ d.garbage[k].metric = Htonl(INFINITY_METRIC)
                              /\ d.garbage[k].changed => d.any_route_changed
GoodDb(d) == \A k \in Key : GoodRoute(d, k)

\* GoodDb says what the three properties of Ripd say.
LEMMA GoodDbMeaning ==
    ASSUME db \in Db
    PROVE  GoodDb(db) <=> TablesDisjoint /\ RouteShape /\ ChangedIsFlagged
<1>1. ASSUME GoodDb(db) PROVE TablesDisjoint /\ RouteShape /\ ChangedIsFlagged
  BY <1>1 DEF GoodDb, GoodRoute, TablesDisjoint, RouteShape, ChangedIsFlagged,
     rip_db_iter_all, Items, Route
<1>2. ASSUME TablesDisjoint, RouteShape, ChangedIsFlagged, NEW k \in Key
      PROVE  GoodRoute(db, k)
  <2>1. k \in rip_db_iter_all(db) /\ Route(db, k).changed => db.any_route_changed
    BY <1>2 DEF ChangedIsFlagged
  <2> QED
    BY <1>2, <2>1 DEF GoodRoute, TablesDisjoint, RouteShape, rip_db_iter_all, Items, Route
<1> QED
  BY <1>1, <1>2 DEF GoodDb

\* A route is not the mark for its absence.
LEMMA DescNotNull == \A desc \in Desc : desc # NULL
BY NullAssumption

----------------------------------------------------------------------------
\* The empty database is good.
LEMMA GoodInit == GoodDb(rip_db_init)
BY DEF GoodDb, GoodRoute, rip_db_init, HashmapNew

\* rip_db_add, for a route that is not garbage and, if it is there already,
\* has been flagged before.
LEMMA GoodAdd ==
    ASSUME NEW d \in Db, GoodDb(d), NEW k \in Key, NEW desc \in Desc,
           d.garbage[k] = NULL,
           desc.is_local <=> k \notin LearnedKeys,
           d.ok[k] # NULL => d.any_route_changed
    PROVE  GoodDb(rip_db_add(d, k, desc))
<1> DEFINE e == rip_db_add(d, k, desc)
           added == [desc EXCEPT !.changed = TRUE]
<1>1. added.changed = TRUE /\ added.is_local = desc.is_local
  BY DEF Desc
<1>2. /\ e.garbage = d.garbage
      /\ e.any_route_changed
      /\ \A j \in Key : e.ok[j] = IF j = k THEN added ELSE d.ok[j]
  BY DbFields, ZenonT(30) DEF rip_db_add, rip_db_add_fails, HashmapSet
<1> HIDE DEF e, added
<1>3. ASSUME NEW j \in Key PROVE GoodRoute(e, j)
  <2>1. GoodRoute(d, j)
    BY DEF GoodDb
  <2> QED
    BY <1>1, <1>2, <2>1 DEF GoodRoute
<1> QED
  BY <1>3 DEF GoodDb, e

\* rip_db_remove takes the route out of both tables.
LEMMA RemoveEffect ==
    ASSUME NEW d \in Db, GoodDb(d), NEW k \in Key, NEW j \in Key
    PROVE  /\ rip_db_remove(d, k).ok[j] = IF j = k THEN NULL ELSE d.ok[j]
           /\ rip_db_remove(d, k).garbage[j] = IF j = k THEN NULL ELSE d.garbage[j]
           /\ rip_db_remove(d, k).any_route_changed = d.any_route_changed
<1>1. d.ok[k] = NULL \/ d.garbage[k] = NULL
  BY DEF GoodDb, GoodRoute
<1> QED
  BY <1>1, DbFields DEF rip_db_remove, HashmapDelete

\* So it leaves a good database.
LEMMA GoodRemove ==
    ASSUME NEW d \in Db, GoodDb(d), NEW k \in Key
    PROVE  GoodDb(rip_db_remove(d, k))
BY RemoveEffect DEF GoodDb, GoodRoute

\* rip_db_move_to_garbage of a learned route that is usable.
LEMMA GoodMove ==
    ASSUME NEW d \in Db, GoodDb(d), NEW k \in Key, NEW desc \in Desc, ~desc.is_local,
           desc.changed, k \in LearnedKeys, desc.metric = Htonl(INFINITY_METRIC)
    PROVE  GoodDb(rip_db_move_to_garbage(d, k, desc))
<1> DEFINE e == rip_db_move_to_garbage(d, k, desc)
<1>1. /\ e.any_route_changed
      /\ \A j \in Key : /\ e.ok[j] = IF j = k THEN NULL ELSE d.ok[j]
                        /\ e.garbage[j] = IF j = k THEN desc ELSE d.garbage[j]
  BY DbFields, ZenonT(30) DEF rip_db_move_to_garbage, HashmapSet, HashmapDelete
<1> HIDE DEF e
<1>2. ASSUME NEW j \in Key PROVE GoodRoute(e, j)
  <2>1. GoodRoute(d, j)
    BY DEF GoodDb
  <2> QED
    BY <1>1, <2>1 DEF GoodRoute
<1> QED
  BY <1>2 DEF GoodDb, e

\* A move for which the garbage table cannot grow.
LEMMA GoodMoveOom ==
    ASSUME NEW d \in Db, GoodDb(d), NEW k \in Key, NEW desc \in Desc, desc.changed
    PROVE  GoodDb(rip_db_move_to_garbage_oom(d, k, desc))
<1> DEFINE e == rip_db_move_to_garbage_oom(d, k, desc)
<1>1. /\ e.any_route_changed /\ e.garbage = d.garbage
      /\ \A j \in Key : e.ok[j] = IF j = k THEN NULL ELSE d.ok[j]
  BY DbFields, ZenonT(30) DEF rip_db_move_to_garbage_oom, HashmapDelete
<1> HIDE DEF e
<1>2. ASSUME NEW j \in Key PROVE GoodRoute(e, j)
  <2>1. GoodRoute(d, j)
    BY SMTT(30) DEF GoodDb
  <2> QED
    BY <1>1, <2>1 DEF GoodRoute
<1> QED
  BY <1>2 DEF GoodDb, e

\* What rip_db_mark_all_routes_as_unchanged does to one route.
LEMMA MarkEffect ==
    ASSUME NEW d \in Db, GoodDb(d), NEW k \in Key
    PROVE  LET e == rip_db_mark_all_routes_as_unchanged(d)
           IN  /\ ~e.any_route_changed
               /\ e.ok[k] = NULL <=> d.ok[k] = NULL
               /\ e.garbage[k] = NULL <=> d.garbage[k] = NULL
               /\ e.ok[k] # NULL =>
                     /\ ~e.ok[k].changed
                     /\ e.ok[k].is_local = d.ok[k].is_local
                     /\ e.ok[k].metric = d.ok[k].metric
               /\ e.garbage[k] # NULL =>
                     /\ ~e.garbage[k].changed
                     /\ e.garbage[k].is_local = d.garbage[k].is_local
                     /\ e.garbage[k].metric = d.garbage[k].metric
                     /\ e.garbage[k].gc_age = d.garbage[k].gc_age
<1>1. ASSUME NEW desc \in Desc
      PROVE  /\ [desc EXCEPT !.changed = FALSE] # NULL
             /\ ~[desc EXCEPT !.changed = FALSE].changed
             /\ [desc EXCEPT !.changed = FALSE].is_local = desc.is_local
             /\ [desc EXCEPT !.changed = FALSE].metric = desc.metric
             /\ [desc EXCEPT !.changed = FALSE].gc_age = desc.gc_age
  <2>1. [desc EXCEPT !.changed = FALSE] \in Desc
    BY ZenonT(30) DEF Desc
  <2> QED
    BY <2>1, DescNotNull, ZenonT(30) DEF Desc
<1>2. d.ok[k] \in Desc \cup {NULL} /\ d.garbage[k] \in Desc \cup {NULL}
  BY DbFields
<1>3. CASE d.any_route_changed
  BY <1>1, <1>2, <1>3 DEF rip_db_mark_all_routes_as_unchanged, ForEach
<1>4. CASE ~d.any_route_changed
  BY <1>4 DEF rip_db_mark_all_routes_as_unchanged, GoodDb, GoodRoute
<1> QED
  BY <1>3, <1>4

\* So it leaves a good database.
LEMMA GoodMark ==
    ASSUME NEW d \in Db, GoodDb(d)
    PROVE  GoodDb(rip_db_mark_all_routes_as_unchanged(d))
<1> DEFINE e == rip_db_mark_all_routes_as_unchanged(d)
<1>1. ASSUME NEW k \in Key PROVE GoodRoute(e, k)
  <2>1. GoodRoute(d, k)
    BY DEF GoodDb
  <2> QED
    BY <2>1, MarkEffect DEF GoodRoute
<1> QED
  BY <1>1, SMTT(30) DEF GoodDb

----------------------------------------------------------------------------
\* DbInv and ChangedIsFlagged together.
FullDbInv == GoodDb(db) /\ PendingInv /\ StartInv

\* Steps that leave the database and the pending route alone.
LEMMA DbQuiet ==
    ASSUME FullDbInv, db' = db, pending' = pending,
           \/ pc' = pc
           \/ pc' = "exit"
           \/ pc' \notin {"begin", "exited"} /\ pc \notin {"db_add", "exit"}
    PROVE  FullDbInv'
BY DEF FullDbInv, PendingInv, StartInv

\* Where no route is pending.
LEMMA NoPending ==
    ASSUME FullDbInv, pc \notin {"db_add", "exit"}
    PROVE  pending = NULL
BY DEF FullDbInv, PendingInv

\* An advertised network enters the database.
LEMMA DbStartup == TypeOK /\ FullDbInv /\ add_advertised_network_to_db => FullDbInv'
<1> SUFFICES ASSUME TypeOK, FullDbInv, add_advertised_network_to_db PROVE FullDbInv'
  OBVIOUS
<1> DEFINE k == LocalKey(AdvNetworks[n_adv + 1])
           desc == [metric |-> Htonl(1), changed |-> FALSE, is_local |-> TRUE,
                    in_routing_table |-> FALSE, timeout_cnt |-> 0, gc_age |-> 0]
           added == [desc EXCEPT !.changed = TRUE]
<1>1. n_adv + 1 \in DOMAIN AdvNetworks
  BY TopologyAssumption DEF add_advertised_network_to_db, TypeOK
<1>2. k \in Key
  BY <1>1 DEF Key
<1>3. k \notin LearnedKeys
  <2>1. k.nh = NULL
    BY DEF LocalKey
  <2>2. \A j \in LearnedKeys : j.nh \in Nbr
    BY DEF LearnedKeys, LearnedKey
  <2> QED
    BY <2>1, <2>2, TopologyAssumption
<1>4. desc \in Desc /\ desc.is_local
  BY HtonlType, InfinityType DEF Desc
<1>5. pc = "begin" /\ pc' \in {"begin", "returned"} /\ pending' = pending
  BY DEF add_advertised_network_to_db, local
<1>a. CASE db' = db /\ pc' = "returned"
  BY <1>5, <1>a, DbQuiet
<1>b. CASE db' = rip_db_add(db, k, desc)
  <2>6. added.changed
    OBVIOUS
  <2> HIDE DEF k, desc
  <2>7. db.garbage[k] = NULL /\ (db.ok[k] # NULL => db.any_route_changed)
    BY <1>2, <1>5, SMTT(30) DEF FullDbInv, StartInv, HashmapNew, GoodDb, GoodRoute
  <2>8. GoodDb(db')
    BY <1>2, <1>3, <1>4, <1>b, <2>7, GoodAdd, SMTT(30) DEF TypeOK, FullDbInv
  <2>9. db'.garbage = db.garbage
        /\ \A j \in Key : db'.ok[j] = IF j = k THEN added ELSE db.ok[j]
    BY <1>b, DbFields DEF rip_db_add, HashmapSet, TypeOK
  <2>10. pending' = NULL
    BY <1>5, NoPending
  <2> HIDE DEF added
  <2>11. StartInv'
    BY <1>5, <2>6, <2>9, ZenonT(30) DEF StartInv, FullDbInv
  <2> QED
    BY <2>8, <2>10, <2>11 DEF FullDbInv, PendingInv
<1> QED
  BY <1>a, <1>b DEF add_advertised_network_to_db

\* The first half of handle_non_existing_route, wherever it is called.
LEMMA DbEntry == TypeOK /\ FullDbInv /\ handle_ripv2_entry => FullDbInv'
<1> SUFFICES ASSUME TypeOK, FullDbInv, handle_ripv2_entry PROVE FullDbInv'
  OBVIOUS
<1>1. pc = "entry" /\ rx.nbr \in Nbr /\ pending = NULL /\ db \in Db /\ GoodDb(db)
  <2>1. pc = "entry"
    BY Zenon DEF handle_ripv2_entry
  <2>2. rx.nbr \in Nbr /\ db \in Db
    BY <2>1, Zenon DEF TypeOK
  <2> QED
    BY <2>1, <2>2, NoPending, Zenon DEF FullDbInv
<1>2. ASSUME NEW k \in Key, NEW net, NEW krt,
             handle_non_existing_route(k, build_route_description(net), rip_db_remove(db, k), krt)
      PROVE  FullDbInv'
  <2>1. db' = rip_db_remove(db, k)
        /\ \/ pc' = "db_add" /\ pending' = [key |-> k, desc |-> build_route_description(net)]
           \/ pc' = "entry" /\ pending' = NULL
    BY <1>1, <1>2 DEF handle_non_existing_route
  <2>2. GoodDb(db')
    BY <1>1, <2>1, GoodRemove, SMTT(30)
  <2>3. db'.ok[k] = NULL /\ db'.garbage[k] = NULL
    BY <1>1, <2>1, RemoveEffect
  <2>4. ~build_route_description(net).is_local
    BY DEF build_route_description
  <2> QED
    BY <2>1, <2>2, <2>3, <2>4 DEF FullDbInv, PendingInv, StartInv
<1>3. CASE UNCHANGED <<pc, db, kernel, pending>>
  BY <1>3, DbQuiet
<1>4. PICK dst \in Dest \cup {BadDest}, wire \in WireMetric :
          IF ~is_entry_valid(dst, Ntohl(wire))
          THEN /\ rx' = NextEntry
               /\ UNCHANGED <<pc, db, kernel, pending>>
          ELSE LET k == LearnedKey(rx.nbr, dst)
                   desc == build_route_description(Htonl(update_metric(Ntohl(wire))))
               IN  IF db.ok[k] # NULL
                   THEN handle_ok_route_update(k, desc)
                   ELSE handle_non_existing_route(k, desc, rip_db_remove(db, k), kernel)
  BY DEF handle_ripv2_entry
<1>5. is_entry_valid(dst, Ntohl(wire)) => LearnedKey(rx.nbr, dst) \in Key
  BY <1>1, LearnedKeyType DEF is_entry_valid, Key
<1> QED
  <2> DEFINE k == LearnedKey(rx.nbr, dst)
             metric == Htonl(update_metric(Ntohl(wire)))
  <2>1. CASE ~is_entry_valid(dst, Ntohl(wire))
    BY <1>3, <1>4, <2>1, Zenon
  <2>2. CASE is_entry_valid(dst, Ntohl(wire)) /\ db.ok[k] # NULL
    <3>1. handle_ok_route_update(k, build_route_description(metric))
      BY <1>4, <2>2, Zenon
    <3> QED
      BY <1>2, <1>3, <1>5, <2>2, <3>1, ZenonT(30) DEF handle_ok_route_update
  <2>3. CASE is_entry_valid(dst, Ntohl(wire)) /\ db.ok[k] = NULL
    BY <1>2, <1>4, <1>5, <2>3, ZenonT(30)
  <2> QED
    BY <2>1, <2>2, <2>3, Zenon

\* Its second half.
LEMMA DbAdd == TypeOK /\ FullDbInv /\ handle_non_existing_route_db_add => FullDbInv'
<1> SUFFICES ASSUME TypeOK, FullDbInv, handle_non_existing_route_db_add PROVE FullDbInv'
  OBVIOUS
<1>1. pc = "db_add" /\ pc' = "entry" /\ pending' = NULL /\ pending # NULL
  BY SMTT(30) DEF handle_non_existing_route_db_add, TypeOK
<1>2. /\ pending.key \in LearnedKeys /\ pending.key \in Key /\ pending.desc \in Desc
      /\ db.garbage[pending.key] = NULL /\ db.ok[pending.key] = NULL
      /\ ~pending.desc.is_local
  BY <1>1, SMTT(30) DEF TypeOK, FullDbInv, PendingInv, Key
<1>3. GoodDb(rip_db_add(db, pending.key, pending.desc))
  BY <1>2, GoodAdd DEF TypeOK, FullDbInv, Desc
<1>4. GoodDb(db')
  BY <1>3 DEF handle_non_existing_route_db_add, FullDbInv
<1> QED
  BY <1>1, <1>4 DEF FullDbInv, PendingInv, StartInv

\* The steps of the loop of rip_t_timeout_expired.
LEMMA DbTimeoutRoute == TypeOK /\ FullDbInv /\ rip_t_timeout_route => FullDbInv'
<1> SUFFICES ASSUME TypeOK, FullDbInv, pc = "timeout", pending' = pending,
                    NEW k \in Learned(db),
                    timeout_count(k) \/ rip_route_timeout_expired(k)
             PROVE  FullDbInv'
  BY DEF rip_t_timeout_route
<1>1. k \in Key /\ db.ok[k] \in Desc /\ db.ok[k] # NULL /\ Aged(k) \in Desc
      /\ Aged(k) = [db.ok[k] EXCEPT !.timeout_cnt = @ + TIMEOUT_PERIOD_TIMER]
  BY AgedType
<1>2. Aged(k).is_local = db.ok[k].is_local /\ Aged(k).changed = db.ok[k].changed
      /\ Aged(k) # NULL
  BY <1>1, DescNotNull DEF Desc
<1>3. ~db.ok[k].is_local
  BY DEF Learned
<1>4. db \in Db /\ GoodDb(db) /\ pending' = NULL
  BY NoPending DEF TypeOK, FullDbInv
<1>5. CASE timeout_count(k)
  <2>1. /\ db'.garbage = db.garbage /\ db'.any_route_changed = db.any_route_changed
        /\ \A j \in Key : db'.ok[j] = IF j = k THEN Aged(k) ELSE db.ok[j]
    BY <1>4, <1>5, DbFields DEF timeout_count, HashmapSet
  <2>2. GoodDb(db')
    BY <1>1, <1>2, <1>4, <2>1, ZenonT(30) DEF GoodDb, GoodRoute
  <2> QED
    BY <1>4, <1>5, <2>2 DEF timeout_count, FullDbInv, PendingInv, StartInv
<1>6. CASE rip_route_timeout_expired(k)
  <2> DEFINE dead == [Aged(k) EXCEPT !.changed = TRUE,
                                     !.metric = Htonl(INFINITY_METRIC),
                                     !.in_routing_table = FALSE, !.gc_age = 0]
  <2>1. dead \in Desc
    BY <1>1, InfiniteType, ZenonT(30) DEF Desc
  <2>2. dead.changed /\ ~dead.is_local /\ dead.metric = Htonl(INFINITY_METRIC)
        /\ k \in LearnedKeys
    BY <1>1, <1>2, <1>3, <1>4, ZenonT(30) DEF Desc, GoodDb, GoodRoute
  <2>3. \/ db' = rip_db_move_to_garbage(db, k, dead)
        \/ db' = rip_db_move_to_garbage_oom(db, k, dead)
        \/ db' = rip_db_remove(db, k)
    BY <1>6 DEF rip_route_timeout_expired
  <2>4. pc' \in {"dispatch", "timeout"}
    BY <1>6 DEF rip_route_timeout_expired
  <2> HIDE DEF dead
  <2>5. GoodDb(db')
    BY <1>1, <1>4, <2>1, <2>2, <2>3, GoodMove, GoodMoveOom, GoodRemove
  <2> QED
    BY <1>4, <2>4, <2>5 DEF FullDbInv, PendingInv, StartInv
<1> QED
  BY <1>5, <1>6

\* Garbage collection removes routes and changes nothing else.
LEMMA DbGc == TypeOK /\ FullDbInv /\ rip_t_gc_expired => FullDbInv'
<1> SUFFICES ASSUME TypeOK, FullDbInv, rip_t_gc_expired PROVE FullDbInv'
  OBVIOUS
<1>1. pc = "dispatch" /\ pending' = pending /\ pc' \in {"dispatch", "panic"}
  BY DEF rip_t_gc_expired, TimerCallback, Serving, PANIC
<1>2. \/ db' = db
      \/ /\ db'.any_route_changed = db.any_route_changed
         /\ \A k \in Key : /\ db'.ok[k] \in {NULL, db.ok[k]}
                           /\ db'.garbage[k] \in {NULL, db.garbage[k]}
  <2> DEFINE due(k) == db.garbage[k] # NULL /\ has_time_passed(db.garbage[k])
             kept(map) == [k \in Key |-> IF due(k) THEN NULL ELSE map[k]]
  <2>1. db' = db \/ db' = [db EXCEPT !.ok = kept(@), !.garbage = kept(@)]
    BY DEF rip_t_gc_expired, TimerCallback, PANIC
  <2>2. ASSUME db' = [db EXCEPT !.ok = kept(@), !.garbage = kept(@)]
        PROVE  /\ db'.ok = kept(db.ok) /\ db'.garbage = kept(db.garbage)
               /\ db'.any_route_changed = db.any_route_changed
    BY <2>2, DbFields, SMTT(30) DEF TypeOK
  <2> QED
    BY <2>1, <2>2
<1>3. GoodDb(db')
  BY <1>2 DEF GoodDb, GoodRoute, FullDbInv
<1>4. pending' = NULL
  BY <1>1, NoPending, SMTT(30)
<1> QED
  BY <1>1, <1>3, <1>4 DEF FullDbInv, PendingInv, StartInv

\* The clock changes only the age of garbage.
LEMMA TickEffect ==
    ASSUME TypeOK, Tick, NEW k \in Key
    PROVE  /\ db'.ok[k] = db.ok[k]
           /\ db'.any_route_changed = db.any_route_changed
           /\ db'.garbage[k] = NULL <=> db.garbage[k] = NULL
           /\ db.garbage[k] # NULL => /\ db'.garbage[k].is_local = db.garbage[k].is_local
                                      /\ db'.garbage[k].changed = db.garbage[k].changed
                                      /\ db'.garbage[k].metric = db.garbage[k].metric
<1>1. ASSUME NEW desc \in Desc
      PROVE  /\ Older(desc) # NULL
             /\ Older(desc).is_local = desc.is_local
             /\ Older(desc).changed = desc.changed
             /\ Older(desc).metric = desc.metric
  <2>1. Older(desc) \in Desc
    BY DEF Older, Desc
  <2> QED
    BY <2>1, DescNotNull DEF Older, Desc
<1>2. /\ db'.ok = db.ok /\ db'.any_route_changed = db.any_route_changed
      /\ db'.garbage = ForEach(db.garbage, Older)
  BY DbFields DEF Tick, TypeOK
<1>3. db.garbage[k] \in Desc \cup {NULL}
  BY DbFields DEF TypeOK
<1> QED
  BY <1>1, <1>2, <1>3 DEF ForEach

\* So the clock keeps the database's invariant.
LEMMA DbTick == TypeOK /\ FullDbInv /\ Tick => FullDbInv'
<1> SUFFICES ASSUME TypeOK, FullDbInv, Tick PROVE FullDbInv'
  OBVIOUS
<1>1. pc' = pc /\ pending' = pending
  BY SMTT(30) DEF Tick, local
<1>2. ASSUME NEW k \in Key PROVE GoodRoute(db', k)
  <2>1. GoodRoute(db, k)
    BY SMTT(30) DEF FullDbInv, GoodDb
  <2> QED
    BY <2>1, TickEffect DEF GoodRoute
<1>3. PendingInv'
  <2>1. pending # NULL => pending.key \in Key
    BY DEF TypeOK, Key
  <2> QED
    BY <1>1, <2>1, TickEffect, SMTT(30) DEF PendingInv, FullDbInv
<1>4. StartInv'
  <2>1. db.garbage = HashmapNew => db'.garbage = HashmapNew
    BY DbFields DEF Tick, TypeOK, HashmapNew, ForEach
  <2>2. db' = [db EXCEPT !.garbage = db'.garbage] /\ db'.ok = db.ok
    BY DbFields DEF Tick, TypeOK
  <2>3. db = rip_db_init => db' = rip_db_init
    BY <2>1, <2>2, SMTT(30) DEF rip_db_init
  <2> QED
    BY <1>1, <2>1, <2>2, <2>3 DEF StartInv, FullDbInv
<1> QED
  BY <1>2, <1>3, <1>4 DEF FullDbInv, GoodDb

(***************************************************************************)
(* Every step keeps the invariant of the database.                         *)
(***************************************************************************)
LEMMA DbStep == TypeOK /\ FullDbInv /\ [Next]_vars => FullDbInv'
<1> SUFFICES ASSUME TypeOK, FullDbInv, [Next]_vars PROVE FullDbInv'
  OBVIOUS
<1> DEFINE Quiet ==
      \/ rip_init_timers \/ rip_begin_fails \/ event_dispatcher_poll \/ dispatch_done
      \/ \E i \in Ifc : rip_handle_response(i) \/ rip_handle_other_message(i)
      \/ rip_handle_response_done
      \/ \E t \in Timer : rip_t_oneshot_expired(t)
      \/ rip_t_timeout_expired \/ rip_t_timeout_done
      \/ sig_handler \/ KernelDrop \/ UNCHANGED vars
<1>1. CASE Quiet
  <2>1. db' = db /\ pending' = pending
    BY <1>1, ZenonT(30) DEF rip_init_timers, rip_begin_fails, event_dispatcher_poll, dispatch_done,
       rip_handle_response, rip_handle_other_message, rip_handle_response_done,
       rip_t_oneshot_expired, rip_t_timeout_expired, TimerCallback, PANIC,
       rip_t_timeout_done, sig_handler, KernelDrop, vars, local
  <2>2. \/ pc' = pc
        \/ pc' = "exit"
        \/ pc' \notin {"begin", "exited"} /\ pc \notin {"db_add", "exit"}
    BY <1>1 DEF rip_init_timers, rip_begin_fails, event_dispatcher_poll, dispatch_done,
       rip_handle_response, rip_handle_other_message, rip_handle_response_done, Serving,
       rip_t_oneshot_expired, rip_t_timeout_expired, TimerCallback, PANIC,
       rip_t_timeout_done, sig_handler, KernelDrop, vars, local
  <2> QED
    BY <2>1, <2>2, DbQuiet, ZenonT(30)
<1>2. ASSUME pc \in {"check", "dispatch"}, pc' \notin {"begin", "exited"},
             pending' = pending,
             db' = db \/ db' = rip_db_mark_all_routes_as_unchanged(db)
      PROVE  FullDbInv'
  <2>1. GoodDb(db')
    BY <1>2, GoodMark DEF FullDbInv, TypeOK
  <2>2. pending' = NULL
    BY <1>2, NoPending
  <2> QED
    BY <1>2, <2>1, <2>2 DEF FullDbInv, PendingInv, StartInv
<1>3. CASE check_route_changed
  BY <1>2, <1>3, ZenonT(30) DEF check_route_changed, rip_send_advertisement_multicast, local
<1>4. CASE rip_t_update_expired
  BY <1>2, <1>4, ZenonT(30) DEF rip_t_update_expired, rip_send_advertisement_multicast,
     TimerCallback, Serving, PANIC
<1>5. CASE Gone
  BY <1>5, GoodInit, SMTT(30) DEF Gone, FullDbInv, PendingInv, StartInv
<1>6. CASE Restart
  <2>1. db' = rip_db_init /\ pc' = "begin" /\ pending' = NULL
    BY <1>6, NoPending, SMTT(30) DEF Restart, local, FullDbInv, StartInv
  <2> QED
    BY <2>1, GoodInit DEF FullDbInv, PendingInv, StartInv, rip_db_init, HashmapNew
<1> QED
  BY <1>1, <1>3, <1>4, <1>5, <1>6, DbStartup, DbEntry, DbAdd, DbTimeoutRoute, DbGc, DbTick, SMTT(30)
  DEF Next, Startup, Handlers, Exit, rip_t_triggered_lock_expired, Timer,
      rip_t_request_warmup_expired, atexit_handler, rip_cleanup, exit_without_cleanup

\* Initially the database is empty.
LEMMA DbInit == Init => FullDbInv
BY GoodInit DEF Init, Fresh, FullDbInv, PendingInv, StartInv, rip_db_init, HashmapNew

\* The invariant of the database holds in every reachable state.
THEOREM DbCorrect == Spec => []FullDbInv
<1> QED
  BY DbInit, DbStep, TypeCorrect, PTL DEF Spec

(***************************************************************************)
(* No route is ever in both hash tables, with a hash table that may fail   *)
(* to grow, signals, crashes and restarts.                                 *)
(***************************************************************************)
THEOREM TablesStayDisjoint == Spec => []TablesDisjoint
<1>1. TypeOK /\ FullDbInv => TablesDisjoint
  BY GoodDbMeaning, SMTT(30) DEF TypeOK, FullDbInv
<1> QED
  BY <1>1, DbCorrect, TypeCorrect, PTL

(***************************************************************************)
(* any_route_changed is set whenever some route is marked changed, although *)
(* rip_db_add marks a route it then refuses without raising the flag.      *)
(***************************************************************************)
THEOREM NoChangeGoesUnnoticed == Spec => []ChangedIsFlagged
<1>1. TypeOK /\ FullDbInv => ChangedIsFlagged
  BY GoodDbMeaning DEF TypeOK, FullDbInv
<1> QED
  BY <1>1, DbCorrect, TypeCorrect, PTL

----------------------------------------------------------------------------
(***************************************************************************)
(* The kernel's routing table: it agrees with the database, the daemon     *)
(* removes what it installed and nothing else.                             *)
(***************************************************************************)
\* The kernel route for a key; its metric plays no part (PriorityIs20).
RouteOf(k) == [dst |-> k.dst, prio |-> 20, ifi |-> k.ifi, nh |-> k.nh]
RoutesOf(K) == {RouteOf(k) : k \in K}

\* The keys whose kernel routes belong to the daemon.
Pending == IF pending = NULL THEN {} ELSE {pending.key}
Owned == Learned(db) \cup Pending

\* Two routes of the database never share a kernel route.
LEMMA RouteOfInjective ==
    ASSUME NEW j \in Key, NEW k \in Key, RouteOf(j) = RouteOf(k)
    PROVE  j = k
<1>1. j.dst = k.dst /\ j.ifi = k.ifi /\ j.nh = k.nh
  BY SMTT(30) DEF RouteOf
<1> QED
  BY <1>1, KeyFields

\* The netlink route for a route of the database.
LEMMA RouteCreated ==
    ASSUME NEW k, NEW desc \in Desc
    PROVE  rip_rtnl_route_create(k, desc) = RouteOf(k)
BY PriorityIs20 DEF RouteOf, Desc

\* The netlink routes for the learned routes of a database.
LEMMA InstalledRoutes ==
    ASSUME NEW d \in Db
    PROVE  {rip_rtnl_route_create(k, d.ok[k]) : k \in Learned(d)} = RoutesOf(Learned(d))
<1>1. ASSUME NEW k \in Learned(d) PROVE rip_rtnl_route_create(k, d.ok[k]) = RouteOf(k)
  BY RouteCreated, DbFields DEF Learned
<1> QED
  BY <1>1 DEF RoutesOf

\* What Installed and InFlight are, before and after a step.
LEMMA OwnedRoutes ==
    ASSUME TypeOK
    PROVE  /\ Installed = RoutesOf(Learned(db))
           /\ Installed \cup InFlight = RoutesOf(Owned)
           /\ Owned \subseteq Key
<1>1. Installed = RoutesOf(Learned(db))
  BY InstalledRoutes DEF TypeOK, Installed
<1>2. InFlight = RoutesOf(Pending)
  BY RouteCreated, SMTT(30) DEF TypeOK, InFlight, Pending, RoutesOf
<1>3. Owned \subseteq Key
  BY DEF Owned, Pending, Learned, TypeOK, Key
<1> QED
  BY <1>1, <1>2, <1>3 DEF RoutesOf, Owned

\* The same after a step.
LEMMA OwnedRoutesNext ==
    ASSUME TypeOK'
    PROVE  /\ Installed' = RoutesOf(Learned(db'))
           /\ (Installed \cup InFlight)' = RoutesOf(Owned')
<1>1. Installed' = RoutesOf(Learned(db'))
  BY InstalledRoutes DEF TypeOK, Installed
<1>2. InFlight' = RoutesOf(Pending')
  BY RouteCreated DEF TypeOK, InFlight, Pending, RoutesOf
<1> QED
  BY <1>1, <1>2 DEF RoutesOf, Owned

----------------------------------------------------------------------------
(***************************************************************************)
(* What a step may do to the kernel's table and to what the daemon owns.   *)
(***************************************************************************)
Keeps == Owned' = Owned /\ kernel' = kernel
Installs(k) ==
    /\ Owned' = Owned \cup {k}
    /\ kernel' = kernel \cup {RouteOf(k)}
    /\ \A r \in kernel : r.dst = k.dst /\ r.prio = 20 => r = RouteOf(k)
Drops(k) ==
    /\ k \in Learned(db)
    /\ Owned' = Owned \ {k}
    /\ kernel' = kernel \ {RouteOf(k)}
Forgets == OutOfMemory /\ pc = "db_add" /\ Owned' \subseteq Owned /\ kernel' = kernel
Exits ==
    /\ pc' = "exited" /\ Owned' = {}
    /\ \/ kernel' = kernel \ RoutesOf(Learned(db))
       \/ kernel' = kernel /\ (Crashes \/ pc = "returned")
Loses == ExternalDrop /\ Owned' = Owned /\ kernel' \subseteq kernel

\* An advertised network is nobody's kernel route.
LEMMA StartupKeeps == TypeOK /\ FullDbInv /\ add_advertised_network_to_db => Keeps
<1> SUFFICES ASSUME TypeOK, FullDbInv, add_advertised_network_to_db PROVE Keeps
  OBVIOUS
<1> DEFINE k == LocalKey(AdvNetworks[n_adv + 1])
           desc == [metric |-> Htonl(1), changed |-> FALSE, is_local |-> TRUE,
                    in_routing_table |-> FALSE, timeout_cnt |-> 0, gc_age |-> 0]
           added == [desc EXCEPT !.changed = TRUE]
<1>1. k \notin LearnedKeys
  <2>1. k.nh = NULL
    BY DEF LocalKey
  <2>2. \A j \in LearnedKeys : j.nh \in Nbr
    BY DEF LearnedKeys, LearnedKey
  <2> QED
    BY <2>1, <2>2, TopologyAssumption
<1>2. added.is_local
  OBVIOUS
<1>3. /\ db' = db \/ db' = rip_db_add(db, k, desc)
      /\ pending' = pending /\ kernel' = kernel
  BY DEF add_advertised_network_to_db, local
<1> HIDE DEF k, desc
<1>4. ASSUME db' = rip_db_add(db, k, desc)
      PROVE  \A j \in Key : db'.ok[j] = IF j = k THEN added ELSE db.ok[j]
  BY <1>4, DbFields DEF rip_db_add, HashmapSet, TypeOK
<1> HIDE DEF added
<1>5. ASSUME NEW j \in Key PROVE j \in Learned(db') <=> j \in Learned(db)
  <2>1. j = k => db.ok[j] = NULL \/ db.ok[j].is_local
    BY <1>1 DEF FullDbInv, GoodDb, GoodRoute
  <2> QED
    BY <1>2, <1>3, <1>4, <2>1 DEF Learned
<1>6. Learned(db') = Learned(db)
  BY <1>5 DEF Learned
<1> QED
  BY <1>3, <1>6 DEF Keeps, Owned, Pending

\* Marking the routes as unchanged keeps every route what it is.
LEMMA MarkKeeps ==
    ASSUME NEW d \in Db, GoodDb(d)
    PROVE  Learned(rip_db_mark_all_routes_as_unchanged(d)) = Learned(d)
<1>1. ASSUME NEW j \in Key
      PROVE  j \in Learned(rip_db_mark_all_routes_as_unchanged(d)) <=> j \in Learned(d)
  BY MarkEffect DEF Learned
<1> QED
  BY <1>1, SMTT(30) DEF Learned

\* Garbage collection removes no usable route.
LEMMA GcKeeps == TypeOK /\ FullDbInv /\ rip_t_gc_expired => Keeps
<1> SUFFICES ASSUME TypeOK, FullDbInv, rip_t_gc_expired PROVE Keeps
  OBVIOUS
<1> DEFINE due(k) == db.garbage[k] # NULL /\ has_time_passed(db.garbage[k])
           kept(map) == [k \in Key |-> IF due(k) THEN NULL ELSE map[k]]
<1>1. db' = db \/ db' = [db EXCEPT !.ok = kept(@), !.garbage = kept(@)]
  BY DEF rip_t_gc_expired, TimerCallback, PANIC
<1>2. ASSUME db' = [db EXCEPT !.ok = kept(@), !.garbage = kept(@)]
      PROVE  db'.ok = kept(db.ok)
  BY <1>2, DbFields, SMTT(30) DEF TypeOK
<1>3. \A j \in Key : db'.ok[j] = db.ok[j]
  BY <1>1, <1>2 DEF FullDbInv, GoodDb, GoodRoute
<1>4. Learned(db') = Learned(db)
  BY <1>3 DEF Learned
<1> QED
  BY <1>4 DEF rip_t_gc_expired, TimerCallback, PANIC, Keeps, Owned, Pending

\* The clock keeps every route what it is.
LEMMA TickKeeps == TypeOK /\ Tick => Keeps
<1> SUFFICES ASSUME TypeOK, Tick PROVE Keeps
  OBVIOUS
<1>1. \A j \in Key : db'.ok[j] = db.ok[j]
  BY TickEffect
<1>2. Learned(db') = Learned(db)
  BY <1>1 DEF Learned
<1> QED
  BY <1>2 DEF Tick, local, Keeps, Owned, Pending

\* A usable route is counted, or it expires and leaves kernel and ok_routes.
LEMMA TimeoutRouteEffect ==
    TypeOK /\ FullDbInv /\ rip_t_timeout_route => Keeps \/ \E k \in Key : Drops(k)
<1> SUFFICES ASSUME TypeOK, FullDbInv, pc = "timeout", pending' = pending,
                    NEW k \in Learned(db),
                    timeout_count(k) \/ rip_route_timeout_expired(k)
             PROVE  Keeps \/ Drops(k)
  BY DEF rip_t_timeout_route, Learned
<1>1. k \in Key /\ db.ok[k] \in Desc /\ db.ok[k] # NULL /\ Aged(k) \in Desc
      /\ Aged(k) = [db.ok[k] EXCEPT !.timeout_cnt = @ + TIMEOUT_PERIOD_TIMER]
  BY AgedType
<1>2. db \in Db /\ GoodDb(db) /\ pending = NULL
  BY NoPending DEF TypeOK, FullDbInv
<1>3. CASE timeout_count(k)
  <2>1. Aged(k).is_local = db.ok[k].is_local /\ Aged(k) # NULL
    BY <1>1, DescNotNull DEF Desc
  <2>2. \A j \in Key : db'.ok[j] = IF j = k THEN Aged(k) ELSE db.ok[j]
    BY <1>2, <1>3, DbFields DEF timeout_count, HashmapSet
  <2>3. ASSUME NEW j \in Key PROVE j \in Learned(db') <=> j \in Learned(db)
    BY <1>1, <2>1, <2>2, ZenonT(30) DEF Learned
  <2>4. Learned(db') = Learned(db)
    BY <2>3 DEF Learned
  <2> QED
    BY <1>3, <2>4 DEF timeout_count, Keeps, Owned, Pending
<1>4. CASE rip_route_timeout_expired(k)
  <2> DEFINE dead == [Aged(k) EXCEPT !.changed = TRUE,
                                     !.metric = Htonl(INFINITY_METRIC),
                                     !.in_routing_table = FALSE, !.gc_age = 0]
  <2>1. rip_rtnl_route_create(k, db.ok[k]) = RouteOf(k)
    BY <1>1, RouteCreated
  <2>2. kernel' = kernel \ {RouteOf(k)}
    BY <1>4, <2>1 DEF rip_route_timeout_expired, rip_route_delete_route
  <2>3. \/ db' = rip_db_move_to_garbage(db, k, dead)
        \/ db' = rip_db_move_to_garbage_oom(db, k, dead)
        \/ db' = rip_db_remove(db, k)
    BY <1>4 DEF rip_route_timeout_expired
  <2> HIDE DEF dead
  <2>4. \A j \in Key : db'.ok[j] = IF j = k THEN NULL ELSE db.ok[j]
    BY <1>2, <2>3, DbFields, SMTT(30) DEF rip_db_move_to_garbage, rip_db_move_to_garbage_oom,
       rip_db_remove, HashmapDelete
  <2>5. Learned(db') = Learned(db) \ {k}
    BY <2>4 DEF Learned
  <2> QED
    BY <1>2, <2>2, <2>5 DEF Drops, Owned, Pending
<1> QED
  BY <1>3, <1>4

(***************************************************************************)
(* An entry installs a route, or drops the one it was to replace, or is    *)
(* ignored.  When a route is replaced, the kernel route is the same one.   *)
(***************************************************************************)
LEMMA EntryEffect ==
    TypeOK /\ FullDbInv /\ handle_ripv2_entry
        => Keeps \/ \E k \in Key : Installs(k) \/ Drops(k)
<1> SUFFICES ASSUME TypeOK, FullDbInv, handle_ripv2_entry
             PROVE  Keeps \/ \E k \in Key : Installs(k) \/ Drops(k)
  BY SMTT(30)
<1>1. pc = "entry" /\ rx.nbr \in Nbr /\ pending = NULL /\ db \in Db /\ GoodDb(db)
  BY NoPending, Zenon DEF handle_ripv2_entry, TypeOK, FullDbInv
<1>2. PICK dst \in Dest \cup {BadDest}, wire \in WireMetric :
          IF ~is_entry_valid(dst, Ntohl(wire))
          THEN /\ rx' = NextEntry
               /\ UNCHANGED <<pc, db, kernel, pending>>
          ELSE LET k == LearnedKey(rx.nbr, dst)
                   desc == build_route_description(Htonl(update_metric(Ntohl(wire))))
               IN  IF db.ok[k] # NULL
                   THEN handle_ok_route_update(k, desc)
                   ELSE handle_non_existing_route(k, desc, rip_db_remove(db, k), kernel)
  BY DEF handle_ripv2_entry
<1>3. CASE UNCHANGED <<pc, db, kernel, pending>>
  BY <1>3 DEF Keeps, Owned, Pending
<1>4. CASE is_entry_valid(dst, Ntohl(wire)) /\ ~UNCHANGED <<pc, db, kernel, pending>>
  <2> DEFINE k == LearnedKey(rx.nbr, dst)
             desc == build_route_description(Htonl(update_metric(Ntohl(wire))))
             old == rip_rtnl_route_create(k, db.ok[k])
             route == rip_rtnl_route_create(k, desc)
  <2>1. k \in LearnedKeys /\ k \in Key
    BY <1>1, <1>4, LearnedKeyType DEF is_entry_valid, Key
  <2>2. desc \in Desc
    BY <1>4, ReceivedMetric, ZenonT(30) DEF build_route_description, Desc
  <2>3. \/ db.ok[k] # NULL /\ old \in kernel
           /\ handle_non_existing_route(k, desc, rip_db_remove(db, k), kernel \ {old})
        \/ db.ok[k] = NULL
           /\ handle_non_existing_route(k, desc, rip_db_remove(db, k), kernel)
    BY <1>2, <1>4, Zenon DEF handle_ok_route_update, rip_route_delete_fails, rip_route_delete_route
  <2>4. route = RouteOf(k)
    BY <2>2, RouteCreated
  <2>5. db.ok[k] # NULL => old = RouteOf(k) /\ k \in Learned(db)
    <3>1. db.ok[k] # NULL => db.ok[k] \in Desc
      BY <1>1, <2>1, DbFields, SMTT(30)
    <3>2. db.ok[k] # NULL => ~db.ok[k].is_local
      BY <1>1, <2>1, SMTT(30) DEF GoodDb, GoodRoute
    <3> QED
      BY <2>1, <3>1, <3>2, RouteCreated DEF Learned
  <2>6. PICK krt : /\ \/ krt = kernel \ {RouteOf(k)} /\ k \in Learned(db) /\ RouteOf(k) \in kernel
                      \/ krt = kernel /\ k \notin Learned(db)
                   /\ handle_non_existing_route(k, desc, rip_db_remove(db, k), krt)
    <3>1. db.ok[k] = NULL => k \notin Learned(db)
      BY DEF Learned
    <3> QED
      BY <2>3, <2>5, <3>1
  <2> HIDE DEF k, desc
  <2>7. Learned(db') = Learned(db) \ {k}
    <3>1. db' = rip_db_remove(db, k)
      BY <2>6, SMTT(30) DEF handle_non_existing_route
    <3>2. \A j \in Key : db'.ok[j] = IF j = k THEN NULL ELSE db.ok[j]
      BY <1>1, <2>1, <3>1, RemoveEffect
    <3> QED
      BY <3>2 DEF Learned
  <2>8. CASE /\ ~AlreadyExists(krt, route)
             /\ kernel' = krt \cup {route}
             /\ pending' = [key |-> k, desc |-> desc]
    <3>1. pending' # NULL
      <4>1. [key |-> k, desc |-> desc] \in [key : LearnedKeys, desc : Desc]
        BY <2>1, <2>2
      <4> QED
        BY <2>8, <4>1, NullAssumption
    <3>2. Owned' = Owned \cup {k}
      BY <1>1, <2>7, <2>8, <3>1 DEF Owned, Pending
    <3>3. kernel' = kernel \cup {RouteOf(k)}
      BY <2>4, <2>6, <2>8, SMTT(30)
    <3>4. ASSUME NEW r \in kernel, r.dst = k.dst, r.prio = 20 PROVE r = RouteOf(k)
      BY <2>4, <2>6, <2>8, <3>4 DEF AlreadyExists, RouteOf
    <3> QED
      BY <2>1, <3>2, <3>3, <3>4 DEF Installs
  <2>9. CASE kernel' = krt /\ pending' = pending
    <3>1. Owned' = Owned \ {k}
      BY <1>1, <2>7, <2>9 DEF Owned, Pending
    <3>2. CASE k \in Learned(db)
      BY <2>1, <2>6, <2>9, <3>1, <3>2, SMTT(30) DEF Drops
    <3>3. CASE k \notin Learned(db)
      BY <1>1, <2>6, <2>9, <3>1, <3>3 DEF Keeps, Owned, Pending
    <3> QED
      BY <3>2, <3>3
  <2> QED
    BY <2>6, <2>8, <2>9 DEF handle_non_existing_route, rip_route_add_route
<1> QED
  BY <1>2, <1>3, <1>4

\* The pending route enters the database, or is forgotten for want of memory.
LEMMA AddEffect ==
    TypeOK /\ FullDbInv /\ handle_non_existing_route_db_add => Keeps \/ Forgets
<1> SUFFICES ASSUME TypeOK, FullDbInv, handle_non_existing_route_db_add
             PROVE  Keeps \/ Forgets
  BY SMTT(30)
<1> DEFINE k == pending.key
           added == [pending.desc EXCEPT !.changed = TRUE]
<1>1. /\ pc = "db_add" /\ pending # NULL /\ pending' = NULL /\ kernel' = kernel
      /\ k \in Key /\ pending.desc \in Desc /\ ~pending.desc.is_local
  BY Zenon DEF handle_non_existing_route_db_add, TypeOK, FullDbInv, PendingInv, Key
<1>2. CASE OutOfMemory /\ db' = db
  BY <1>1, <1>2 DEF Forgets, Owned, Pending
<1>3. CASE db' = rip_db_add(db, k, pending.desc)
  <2>1. added \in Desc /\ ~added.is_local
    BY <1>1, ZenonT(30) DEF Desc
  <2>2. added # NULL
    BY <2>1, DescNotNull, ZenonT(30)
  <2>3. \A j \in Key : db'.ok[j] = IF j = k THEN added ELSE db.ok[j]
    BY <1>3, DbFields DEF rip_db_add, HashmapSet, TypeOK
  <2> HIDE DEF added
  <2>4. Learned(db') = Learned(db) \cup {k}
    BY <1>1, <2>1, <2>2, <2>3 DEF Learned
  <2> QED
    BY <1>1, <2>4 DEF Keeps, Owned, Pending
<1> QED
  BY <1>2, <1>3 DEF handle_non_existing_route_db_add

\* The process ends: after its exit handler, or without it.
LEMMA ExitEffect ==
    TypeOK /\ (atexit_handler \/ exit_without_cleanup) => Exits
<1> SUFFICES ASSUME TypeOK, atexit_handler \/ exit_without_cleanup PROVE Exits
  OBVIOUS
<1>1. Gone
  BY DEF atexit_handler, rip_cleanup, exit_without_cleanup
<1>2. pc' = "exited" /\ Owned' = {}
  BY <1>1 DEF Gone, Owned, Pending, Learned, rip_db_init, HashmapNew
<1>3. CASE exit_without_cleanup
  BY <1>2, <1>3 DEF exit_without_cleanup, Exits
<1>4. CASE atexit_handler
  <2> DEFINE infinite(desc) == [desc EXCEPT !.metric = Htonl(INFINITY_METRIC)]
             d == [db EXCEPT !.ok = ForEach(@, infinite), !.garbage = ForEach(@, infinite)]
  <2>1. ASSUME NEW desc \in Desc
        PROVE  infinite(desc) \in Desc /\ infinite(desc).is_local = desc.is_local
               /\ infinite(desc) # NULL
    <3>1. infinite(desc) \in Desc /\ infinite(desc).is_local = desc.is_local
      BY InfiniteType, SMTT(30) DEF Desc
    <3> QED
      BY <3>1, DescNotNull
  <2> HIDE DEF infinite
  <2>2. db.ok \in [Key -> Desc \cup {NULL}] /\ db.garbage \in [Key -> Desc \cup {NULL}]
    BY DbFields, SMTT(30) DEF TypeOK
  <2>3. d \in Db
    BY <2>1, <2>2, ZenonT(30) DEF Db, ForEach, TypeOK
  <2>4. d.ok = ForEach(db.ok, infinite)
    BY DbFields DEF TypeOK
  <2>5. ASSUME NEW j \in Key PROVE j \in Learned(d) <=> j \in Learned(db)
    <3>1. db.ok[j] \in Desc \cup {NULL}
      BY <2>2
    <3> QED
      BY <2>1, <2>4, <3>1 DEF ForEach, Learned
  <2>6. Learned(d) = Learned(db)
    BY <2>5 DEF Learned
  <2>7. kernel' = rip_clear_routing_table(d, kernel)
    BY <1>4 DEF atexit_handler, rip_cleanup, Withdrawn, infinite
  <2> HIDE DEF d
  <2>8. kernel' = kernel \ RoutesOf(Learned(db))
    BY <2>3, <2>6, <2>7, InstalledRoutes, ZenonT(30) DEF rip_clear_routing_table
  <2> QED
    BY <1>2, <2>8 DEF Exits
<1> QED
  BY <1>3, <1>4

(***************************************************************************)
(* Every step of the daemon has one of these effects.                      *)
(***************************************************************************)
LEMMA KernelEffect ==
    TypeOK /\ FullDbInv /\ [Next]_vars =>
        \/ Exits
        \/ /\ pc' # "exited" \/ pc' = pc
           /\ Keeps \/ Forgets \/ Loses \/ \E k \in Key : Installs(k) \/ Drops(k)
<1> SUFFICES ASSUME TypeOK, FullDbInv, [Next]_vars
             PROVE  \/ Exits
                    \/ /\ pc' # "exited" \/ pc' = pc
                       /\ Keeps \/ Forgets \/ Loses \/ \E k \in Key : Installs(k) \/ Drops(k)
  OBVIOUS
<1> DEFINE Quiet ==
      \/ rip_init_timers \/ rip_begin_fails \/ event_dispatcher_poll \/ dispatch_done
      \/ \E i \in Ifc : rip_handle_response(i) \/ rip_handle_other_message(i)
      \/ rip_handle_response_done
      \/ \E t \in Timer : rip_t_oneshot_expired(t)
      \/ rip_t_timeout_expired \/ rip_t_timeout_done
      \/ sig_handler \/ Restart \/ UNCHANGED vars
<1>1. CASE Quiet
  <2>1. db' = db /\ pending' = pending /\ kernel' = kernel /\ (pc' # "exited" \/ pc' = pc)
    BY <1>1 DEF rip_init_timers, rip_begin_fails, event_dispatcher_poll, dispatch_done,
       rip_handle_response, rip_handle_other_message, rip_handle_response_done,
       rip_t_oneshot_expired, rip_t_timeout_expired, TimerCallback, PANIC,
       rip_t_timeout_done, sig_handler, Restart, vars, local
  <2> QED
    BY <2>1, SMTT(30) DEF Keeps, Owned, Pending
<1>2. ASSUME pending' = pending, kernel' = kernel,
             db' = db \/ db' = rip_db_mark_all_routes_as_unchanged(db)
      PROVE  Keeps
  BY <1>2, MarkKeeps DEF Keeps, Owned, Pending, TypeOK, FullDbInv
<1>3. CASE check_route_changed
  <2>1. pc' # "exited"
    BY <1>3, ZenonT(30) DEF check_route_changed
  <2>2. Keeps
    BY <1>2, <1>3, ZenonT(30) DEF check_route_changed, rip_send_advertisement_multicast, local
  <2> QED
    BY <2>1, <2>2
<1>4. CASE rip_t_update_expired
  <2>1. pc' # "exited" \/ pc' = pc
    BY <1>4, ZenonT(30) DEF rip_t_update_expired, TimerCallback, PANIC
  <2>2. Keeps
    BY <1>2, <1>4, ZenonT(30) DEF rip_t_update_expired, rip_send_advertisement_multicast,
       TimerCallback, PANIC
  <2> QED
    BY <2>1, <2>2
<1>5. CASE KernelDrop
  BY <1>5 DEF KernelDrop, Loses, Owned, Pending, local
<1>6. CASE rip_t_gc_expired
  BY <1>6, GcKeeps DEF rip_t_gc_expired, TimerCallback, PANIC
<1>7. CASE Tick
  BY <1>7, TickKeeps, SMTT(30) DEF Tick
<1>8. CASE add_advertised_network_to_db
  BY <1>8, StartupKeeps DEF add_advertised_network_to_db
<1>9. CASE rip_t_timeout_route
  <2>1. pc' # "exited"
    BY <1>9 DEF rip_t_timeout_route, timeout_count, rip_route_timeout_expired
  <2> QED
    BY <1>9, <2>1, TimeoutRouteEffect, SMTT(30)
<1>10. CASE handle_ripv2_entry
  <2>1. pc' # "exited"
    BY <1>10, ZenonT(30) DEF handle_ripv2_entry, handle_ok_route_update, handle_non_existing_route
  <2> QED
    BY <1>10, <2>1, EntryEffect, SMTT(30)
<1>11. CASE handle_non_existing_route_db_add
  BY <1>11, AddEffect DEF handle_non_existing_route_db_add
<1> QED
  BY <1>1, <1>3, <1>4, <1>5, <1>6, <1>7, <1>8, <1>9, <1>10, <1>11, ExitEffect, SMTT(30)
  DEF Next, Startup, Handlers, Exit, rip_t_triggered_lock_expired, Timer,
      rip_t_request_warmup_expired

----------------------------------------------------------------------------
\* Every step keeps the agreement between the kernel and the database.
LEMMA KernelStep ==
    TypeOK /\ TypeOK' /\ FullDbInv /\ KernelInv /\ [Next]_vars => KernelInv'
<1> SUFFICES ASSUME TypeOK, TypeOK', FullDbInv, KernelInv, [Next]_vars PROVE KernelInv'
  OBVIOUS
<1>1. Owned \subseteq Key /\ (~ExternalDrop => RoutesOf(Owned) \subseteq kernel)
  BY OwnedRoutes DEF KernelInv
<1>2. KernelUnique' /\ (~ExternalDrop => RoutesOf(Owned') \subseteq kernel')
  <2>1. CASE Exits
    BY <2>1 DEF Exits, KernelInv, KernelUnique, RoutesOf
  <2>2. CASE Keeps \/ Forgets \/ Loses
    BY <1>1, <2>2 DEF Keeps, Forgets, Loses, KernelInv, KernelUnique, RoutesOf
  <2>3. ASSUME NEW k \in Key, Installs(k)
        PROVE  KernelUnique' /\ (~ExternalDrop => RoutesOf(Owned') \subseteq kernel')
    <3>1. RouteOf(k).dst = k.dst /\ RouteOf(k).prio = 20
      BY DEF RouteOf
    <3> QED
      BY <1>1, <2>3, <3>1 DEF Installs, KernelInv, KernelUnique, RoutesOf
  <2>4. ASSUME NEW k \in Key, Drops(k)
        PROVE  KernelUnique' /\ (~ExternalDrop => RoutesOf(Owned') \subseteq kernel')
    <3>1. \A j \in Owned' : RouteOf(j) # RouteOf(k)
      BY <1>1, <2>4, RouteOfInjective DEF Drops
    <3> QED
      BY <1>1, <2>4, <3>1 DEF Drops, KernelInv, KernelUnique, RoutesOf
  <2> QED
    BY <2>1, <2>2, <2>3, <2>4, KernelEffect
<1> QED
  BY <1>2, OwnedRoutesNext DEF KernelInv

\* The kernel and the database agree in every reachable state.
THEOREM KernelAgrees == Spec => []KernelInv
<1>1. Init => KernelInv
  <2> SUFFICES ASSUME Init PROVE KernelInv
    OBVIOUS
  <2>1. Owned = {}
    BY DEF Init, Fresh, Owned, Pending, Learned, rip_db_init, HashmapNew
  <2> QED
    BY <2>1, InitType, OwnedRoutes DEF Init, KernelInv, KernelUnique, RoutesOf
<1> QED
  BY <1>1, KernelStep, TypeCorrect, DbCorrect, PTL DEF Spec

(***************************************************************************)
(* Every usable learned route is in the kernel, unless someone else takes  *)
(* routes out: with signals, crashes, refused and replaced routes.         *)
(***************************************************************************)
THEOREM UsableRoutesAreInstalled == Spec => []UsableIsInstalled
<1>1. KernelInv => UsableIsInstalled
  BY DEF KernelInv, UsableIsInstalled
<1> QED
  BY <1>1, KernelAgrees, PTL

(***************************************************************************)
(* At most one usable next hop per network.  It follows from the kernel's  *)
(* refusal of a second route with the same network and priority, because   *)
(* every route is given the priority 20.                                   *)
(***************************************************************************)
THEOREM OneNextHopOnly == Spec => []OneNextHop
<1>1. TypeOK /\ KernelInv => OneNextHop
  <2> SUFFICES ASSUME TypeOK, KernelInv, ~ExternalDrop,
                      NEW j \in Learned(db), NEW k \in Learned(db), j.dst = k.dst
               PROVE  j = k
    BY DEF OneNextHop
  <2>1. RouteOf(j) \in kernel /\ RouteOf(k) \in kernel
    BY OwnedRoutes DEF KernelInv, RoutesOf
  <2>2. RouteOf(j).dst = RouteOf(k).dst /\ RouteOf(j).prio = RouteOf(k).prio
    BY DEF RouteOf
  <2>3. RouteOf(j) = RouteOf(k)
    BY <2>1, <2>2 DEF KernelInv, KernelUnique
  <2> QED
    BY <2>3, RouteOfInjective DEF Learned
<1> QED
  BY <1>1, KernelAgrees, TypeCorrect, PTL

(***************************************************************************)
(* A kernel route loses its owner only when the process ends or a hash     *)
(* table cannot grow.                                                      *)
(***************************************************************************)
THEOREM OrphansNeedAFault == Spec => OrphansOnlyByFault
<1>1. TypeOK /\ TypeOK' /\ FullDbInv /\ [Next]_vars =>
        [Orphans' \subseteq Orphans \/ pc' = "exited" \/ (OutOfMemory /\ pc = "db_add")]_vars
  <2> SUFFICES ASSUME TypeOK, TypeOK', FullDbInv, [Next]_vars
               PROVE  Orphans' \subseteq Orphans \/ pc' = "exited"
                        \/ (OutOfMemory /\ pc = "db_add")
    OBVIOUS
  <2>1. /\ Orphans = kernel \ RoutesOf(Owned)
        /\ Orphans' = kernel' \ RoutesOf(Owned')
    BY OwnedRoutes, OwnedRoutesNext DEF Orphans
  <2>2. ASSUME NEW k \in Key, Installs(k) \/ Drops(k)
        PROVE  Orphans' \subseteq Orphans
    BY <2>1, <2>2 DEF Installs, Drops, RoutesOf
  <2> QED
    BY <2>1, <2>2, KernelEffect DEF Exits, Keeps, Forgets, Loses
<1> QED
  BY <1>1, TypeCorrect, DbCorrect, PTL DEF Spec, OrphansOnlyByFault

(***************************************************************************)
(* The daemon removes no RIP route from the kernel that is not its own.    *)
(***************************************************************************)
THEOREM ForeignRoutesStay == Spec => ForeignRoutesUntouched
<1>1. TypeOK /\ FullDbInv /\ [Next]_vars => [Orphans \subseteq kernel' \/ ExternalDrop]_vars
  <2> SUFFICES ASSUME TypeOK, FullDbInv, [Next]_vars
               PROVE  Orphans \subseteq kernel' \/ ExternalDrop
    OBVIOUS
  <2>1. Orphans = kernel \ RoutesOf(Owned)
    BY OwnedRoutes DEF Orphans
  <2>2. ASSUME NEW k \in Key, Installs(k) \/ Drops(k)
        PROVE  Orphans \subseteq kernel'
    BY <2>1, <2>2 DEF Installs, Drops, RoutesOf, Owned
  <2>3. CASE Exits
    BY <2>1, <2>3 DEF Exits, RoutesOf, Owned
  <2> QED
    BY <2>1, <2>2, <2>3, KernelEffect DEF Keeps, Forgets, Loses
<1> QED
  BY <1>1, TypeCorrect, DbCorrect, PTL DEF Spec, ForeignRoutesUntouched

(***************************************************************************)
(* An exit through the exit handler leaves none of the daemon's routes in  *)
(* the kernel, although rip_cleanup has changed their metrics first: the   *)
(* netlink route does not depend on the metric.                            *)
(***************************************************************************)
THEOREM ExitIsClean == Spec => CleanExit
<1>1. TypeOK /\ FullDbInv /\ [Next]_vars =>
        [pc = "exit" /\ pc' = "exited" /\ ~Crashes => kernel' \cap Installed = {}]_vars
  <2> SUFFICES ASSUME TypeOK, FullDbInv, [Next]_vars, pc = "exit", pc' = "exited", ~Crashes
               PROVE  kernel' \cap Installed = {}
    OBVIOUS
  <2>1. Exits
    BY KernelEffect
  <2> QED
    BY <2>1, OwnedRoutes DEF Exits
<1> QED
  BY <1>1, TypeCorrect, DbCorrect, PTL DEF Spec, CleanExit
=============================================================================
