----------------------------- MODULE RipNetwork -----------------------------
(***************************************************************************)
(* Several daemons on point-to-point links, and their routes to the one    *)
(* network that Owner advertises: rip_recv.c and rip_update.c seen from    *)
(* outside, over datagrams that may be lost, duplicated and reordered.     *)
(* Of a daemon's inside (Ripd) this module keeps what the others can tell  *)
(* apart.  Handlers are one step each here, and there is at most one       *)
(* usable route, because the kernel refuses a second (Ripd!OneNextHop).    *)
(***************************************************************************)
EXTENDS CNull, Naturals

CONSTANTS
    Router, Owner,
    Link,             \* point-to-point networks
    Ends,             \* the two routers of each link
    Distance,         \* the number of links between a router and the owner
    INFINITY_METRIC,  \* 16 in the code
    Timeout,          \* life of a route, in periods of the regular update
    Garbage,          \* how long it is kept as garbage, in such periods
    Duplicates,       \* a datagram may be delivered twice
    Losses,           \* a datagram may be lost
    Mortal,           \* routers that may stop
    Restarts,         \* and start again
    Fresh             \* routers whose daemon has just started; others have
                      \* sent their first request, and it was not answered

ASSUME NetworkAssumption ==
    /\ Owner \in Router /\ Mortal \cup Fresh \subseteq Router
    /\ NULL \notin Link /\ NULL \notin Nat
    /\ NULL \notin [link : Link, metric : Nat, age : Nat]
    /\ \A l \in Link : \E r, s \in Router : r # s /\ Ends[l] = {r, s}
    /\ INFINITY_METRIC \in Nat \ {0, 1}
    /\ Timeout \in Nat /\ Garbage \in Nat /\ Timeout > Garbage

\* All that is used of distances.
ASSUME DistanceAssumption ==
    /\ Distance \in [Router -> Nat]
    /\ Distance[Owner] = 0
    /\ \A l \in Link : \A r, s \in Ends[l] : Distance[r] <= Distance[s] + 1

VARIABLES
    up,       \* the routers whose daemon runs
    ok,       \* the usable learned route of each router, or NULL
    garbage,  \* the age of each garbage route, by the link it came from, or NULL
    changed,  \* the routes not yet advertised: links, and NULL for the local one
    net,      \* datagrams on their way
    orphan,   \* routers whose kernel keeps the route of a daemon that crashed
    request,  \* routers that have not sent their first request
    updated   \* routers that have sent the regular update of this period

netVars == <<up, ok, garbage, changed, net, request, orphan, updated>>

Links(r) == {l \in Link : r \in Ends[l]}
Peer(r, l) == CHOOSE s \in Ends[l] : s # r

----------------------------------------------------------------------------
(***************************************************************************)
(* What router r sends on link l: its routes, or the changed ones, except  *)
(* those that came from l.  A route is named by the link it came from, the *)
(* local one by NULL.  All are routes to one network, of which the         *)
(* receiver keeps the best: a message is the smallest of its metrics.      *)
(***************************************************************************)
Local(r) == IF r = Owner THEN {NULL} ELSE {}
Usable(r) == IF ok[r] # NULL THEN {ok[r].link} ELSE {}
Sources(r) == Local(r) \cup Usable(r) \cup {l \in Link : garbage[r][l] # NULL}

fill_buffer_with_entries(r, l, only_changed) ==
    {x \in Sources(r) \ {l} : only_changed => x \in changed[r]}

Metric(r, sources) ==
    IF NULL \in sources THEN 1
    ELSE IF sources \cap Usable(r) # {} THEN ok[r].metric ELSE INFINITY_METRIC

Response(r, l, metric) ==
    [cmd |-> "response", link |-> l, to |-> Peer(r, l), metric |-> metric]

\* rip_send sends no message without entries.
rip_send_response(r, ls, only_changed) ==
    {Response(r, l, Metric(r, fill_buffer_with_entries(r, l, only_changed))) :
       l \in {k \in ls : fill_buffer_with_entries(r, k, only_changed) # {}}}

rip_send_advertisement_multicast(r, only_changed) ==
    /\ net' = net \cup rip_send_response(r, Links(r), only_changed)
    /\ changed' = [changed EXCEPT ![r] = {}]

----------------------------------------------------------------------------
NoGarbage == [l \in Link |-> NULL]

NetInit ==
    /\ up = Router
    /\ ok = [r \in Router |-> NULL]
    /\ garbage = [r \in Router |-> NoGarbage]
    /\ changed = [r \in Router |-> Local(r)]
    /\ net = {}
    /\ orphan = {}
    /\ request = Fresh
    /\ updated = {}

\* The regular update, once in a period.
rip_t_update_changed_only(r) ==
    /\ r \in up \ updated
    /\ rip_send_advertisement_multicast(r, TRUE)
    /\ updated' = updated \cup {r}
    /\ UNCHANGED <<up, ok, garbage, request, orphan>>
rip_t_update_expired(r) ==
    /\ r \in up \ updated
    /\ rip_send_advertisement_multicast(r, FALSE)
    /\ updated' = updated \cup {r}
    /\ UNCHANGED <<up, ok, garbage, request, orphan>>

\* The triggered update.
check_route_changed(r) ==
    /\ r \in up /\ changed[r] # {}
    /\ rip_send_advertisement_multicast(r, TRUE)
    /\ UNCHANGED <<up, ok, garbage, request, orphan, updated>>

rip_t_request_warmup_expired(r) ==
    /\ r \in up \cap request
    /\ net' = net \cup {[cmd |-> "request", link |-> l, to |-> Peer(r, l),
                         metric |-> INFINITY_METRIC] : l \in Links(r)}
    /\ request' = request \ {r}
    /\ UNCHANGED <<up, ok, garbage, changed, orphan, updated>>

----------------------------------------------------------------------------
(***************************************************************************)
(* A datagram arrives, and may arrive again.                               *)
(***************************************************************************)
update_metric_not(metric) == metric
update_metric(metric) == IF metric + 1 < INFINITY_METRIC THEN metric + 1 ELSE INFINITY_METRIC

\* The kernel refuses a second RIP route to the network.  The garbage route
\* is removed before that is known.
handle_keeps_garbage(r, l, metric) ==
    LET taken == ok[r] = NULL /\ r \notin orphan
    IN  /\ ok' = IF taken THEN [ok EXCEPT ![r] = [link |-> l, metric |-> metric, age |-> 0]]
                 ELSE ok
        /\ changed' = IF taken THEN [changed EXCEPT ![r] = @ \cup {l}] ELSE changed
        /\ UNCHANGED garbage
handle_ripv2_entry(r, l, metric) ==
    LET same == ok[r] # NULL /\ ok[r].link = l
        new == [link |-> l, metric |-> metric, age |-> 0]
        taken == (ok[r] = NULL /\ r \notin orphan) \/ (same /\ ok[r].metric > metric)
    IN  /\ garbage' = IF same THEN garbage ELSE [garbage EXCEPT ![r][l] = NULL]
        /\ ok' = IF taken THEN [ok EXCEPT ![r] = new] ELSE ok
        /\ changed' = [changed EXCEPT ![r] =
                         IF taken THEN @ \cup {l} ELSE IF same THEN @ ELSE @ \ {l}]

Receive(m) == net' \in {net \ {m}} \cup {n \in {net} : Duplicates}

rip_handle_response(m) ==
    /\ m.cmd = "response" /\ m.to \in up
    /\ handle_ripv2_entry(m.to, m.link, update_metric(m.metric))
    /\ Receive(m)
    /\ UNCHANGED <<up, request, orphan, updated>>

rip_send_advertisement_unicast(m) ==
    /\ m.cmd = "request" /\ m.to \in up
    /\ \E rest \in {net \ {m}} \cup {n \in {net} : Duplicates} :
         net' = rest \cup rip_send_response(m.to, {m.link}, FALSE)
    /\ UNCHANGED <<up, ok, garbage, changed, request, orphan, updated>>

Lose(m) ==
    /\ Losses \/ m.to \notin up
    /\ net' = net \ {m}
    /\ UNCHANGED <<up, ok, garbage, changed, request, orphan, updated>>

----------------------------------------------------------------------------
(***************************************************************************)
(* Time.  A period of some 30 seconds ends when every router has sent its  *)
(* update, and what was sent has arrived or is lost.  The first request,   *)
(* triggered updates (held back for 5 seconds at most), expired routes and *)
(* old garbage do not wait as long as that.                                *)
(***************************************************************************)
Expired(r) == ok[r] # NULL /\ ok[r].age >= Timeout
Collectable(r, l) == garbage[r][l] # NULL /\ garbage[r][l] >= Garbage

Tick ==
    /\ updated = up /\ net = {} /\ request = {}
    /\ \A r \in up : changed[r] = {} /\ ~Expired(r) /\ \A l \in Link : ~Collectable(r, l)
    /\ ok' = [r \in Router |-> IF ok[r] = NULL THEN NULL ELSE [ok[r] EXCEPT !.age = @ + 1]]
    /\ garbage' = [r \in Router |-> [l \in Link |->
                     IF garbage[r][l] = NULL THEN NULL ELSE garbage[r][l] + 1]]
    /\ updated' = {}
    /\ UNCHANGED <<up, changed, net, request, orphan>>

\* What is learned is never refreshed: it ends when its time is over.
rip_route_timeout_expired(r) ==
    /\ r \in up /\ Expired(r)
    /\ ok' = [ok EXCEPT ![r] = NULL]
    /\ garbage' = [garbage EXCEPT ![r][ok[r].link] = 0]
    /\ changed' = [changed EXCEPT ![r] = @ \cup {ok[r].link}]
    /\ UNCHANGED <<up, net, request, orphan, updated>>

rip_t_gc_expired(r) ==
    /\ r \in up
    /\ LET old == {l \in Link : Collectable(r, l)}
       IN  /\ old # {}
           /\ garbage' = [garbage EXCEPT ![r] = [l \in Link |->
                            IF l \in old THEN NULL ELSE garbage[r][l]]]
           /\ changed' = [changed EXCEPT ![r] = @ \ old]
    /\ UNCHANGED <<up, ok, net, request, orphan, updated>>

----------------------------------------------------------------------------
(***************************************************************************)
(* A daemon ends: without a word, or after all its routes were advertised  *)
(* as unreachable.                                                         *)
(***************************************************************************)
Ended(r) ==
    /\ up' = up \ {r}
    /\ ok' = [ok EXCEPT ![r] = NULL]
    /\ garbage' = [garbage EXCEPT ![r] = NoGarbage]
    /\ changed' = [changed EXCEPT ![r] = {}]
    /\ request' = request \ {r}
    /\ updated' = updated \ {r}

Crash(r) ==
    /\ r \in Mortal \cap up
    /\ Ended(r)
    /\ orphan' = IF ok[r] = NULL THEN orphan ELSE orphan \cup {r}
    /\ UNCHANGED net

rip_send_advertisement_shutdown(r) ==
    /\ r \in Mortal \cap up
    /\ net' = net \cup {Response(r, l, INFINITY_METRIC) :
                          l \in {k \in Links(r) : fill_buffer_with_entries(r, k, FALSE) # {}}}
    /\ Ended(r)
    /\ UNCHANGED orphan

rip_begin(r) ==
    /\ Restarts /\ r \in Router \ up
    /\ up' = up \cup {r}
    /\ changed' = [changed EXCEPT ![r] = Local(r)]
    /\ request' = request \cup {r}
    /\ UNCHANGED <<ok, garbage, net, orphan, updated>>

----------------------------------------------------------------------------
Deliver(m) == rip_handle_response(m) \/ rip_send_advertisement_unicast(m)

RouterStep(r) ==
    \/ rip_t_update_expired(r)
    \/ check_route_changed(r)
    \/ rip_t_request_warmup_expired(r)
    \/ rip_route_timeout_expired(r)
    \/ rip_t_gc_expired(r)

NetNext ==
    \/ \E r \in Router : \/ RouterStep(r)
                        \/ Crash(r) \/ rip_send_advertisement_shutdown(r) \/ rip_begin(r)
    \/ \E m \in net : Deliver(m) \/ Lose(m)
    \/ Tick

NetSpec == NetInit /\ [][NetNext]_netVars

(***************************************************************************)
(* Time goes on, timers are served, and datagrams do not stay in the       *)
(* network; of those sent again and again to a router some arrive.         *)
(***************************************************************************)
Datagram == [cmd : {"request", "response"}, link : Link, to : Router, metric : 1..INFINITY_METRIC]
FairNetSpec ==
    /\ NetSpec
    /\ WF_netVars(Tick)
    /\ \A r \in Router : /\ WF_netVars(rip_t_update_expired(r))
                         /\ WF_netVars(check_route_changed(r))
                         /\ WF_netVars(rip_t_request_warmup_expired(r))
                         /\ WF_netVars(rip_route_timeout_expired(r))
                         /\ WF_netVars(rip_t_gc_expired(r))
                         /\ SF_netVars(\E m \in net : m.to = r /\ rip_handle_response(m) /\ net' # net)
    /\ WF_netVars(\E m \in net : (Deliver(m) \/ Lose(m)) /\ m \notin net')

----------------------------------------------------------------------------
(***************************************************************************)
(* Types; and a route that is marked changed is one that is there.         *)
(***************************************************************************)
NetTypeOK ==
    /\ updated \subseteq up /\ request \subseteq up
    /\ net \subseteq Datagram
    /\ \A r \in Router :
         /\ ok[r] # NULL => /\ ok[r].link \in Links(r)
                            /\ ok[r].metric \in 2..INFINITY_METRIC
                            /\ garbage[r][ok[r].link] = NULL
         /\ changed[r] \subseteq Sources(r)

(***************************************************************************)
(* No router takes the network for nearer than it is: the metric of a      *)
(* route, unless infinite, is at least the length of a shortest path over  *)
(* the link it goes by, whatever is lost, late or doubled and whoever      *)
(* stops and starts.                                                       *)
(***************************************************************************)
NotTooNear ==
    \A r \in Router :
      ok[r] # NULL /\ ok[r].metric < INFINITY_METRIC =>
        ok[r].metric >= Distance[Peer(r, ok[r].link)] + 2

(***************************************************************************)
(* Every router that runs has a route again and again, although each one   *)
(* is given up when its time is over, and any datagram may be lost: the    *)
(* answer to the first request too.  A crash ends this: the kernel keeps   *)
(* the route, the next daemon is refused one, and those behind it as well. *)
(***************************************************************************)
EveryoneLearns ==
    \A r \in Router \ {Owner} :
      <>[](up = Router /\ orphan = {}) => []<>(ok[r] # NULL)

(***************************************************************************)
(* What plan.todo:39-42 says of a route with an infinite metric, "there is *)
(* no point in adding a route which is unusable": when the owner of the    *)
(* network is gone for good, the routers forget the network.               *)
(***************************************************************************)
DeadNetworkForgotten ==
    <>[](Owner \notin up) => <>[](\A r \in Router : ok[r] = NULL)
=============================================================================
