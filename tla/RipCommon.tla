----------------------------- MODULE RipCommon -----------------------------
(***************************************************************************)
(* The data every component of the daemon shares: the routes, the entries  *)
(* of a RIP message and the byte order in which their metrics are kept     *)
(* (librip/rip_common.h, rip_common.c and the entry helpers of rip_recv.c) *)
(***************************************************************************)
EXTENDS Integers, Sequences, FiniteSets

CONSTANTS
    NULL,            \* no route; as a next hop, the address 0.0.0.0
    Ifc,             \* the interfaces RIP runs on
    Nbr,             \* the neighbouring routers
    IfcOf,           \* the interface on which each neighbour is heard
    Dest,            \* networks (address and mask) a valid entry may name
    BadDest,         \* a network is_entry_valid refuses
    AdvNetworks,     \* the configured networks: a sequence of [dev, dst]
    INFINITY_METRIC  \* 16 in the code

ASSUME TopologyAssumption ==
    /\ NULL \notin Nbr
    /\ IfcOf \in [Nbr -> Ifc]
    /\ BadDest \notin Dest
    /\ AdvNetworks \in Seq([dev : Ifc, dst : Dest])

\* The upper bound keeps a metric within one byte (and TLC within 32 bits).
ASSUME InfinityAssumption == INFINITY_METRIC \in 2..127

----------------------------------------------------------------------------
(***************************************************************************)
(* Byte order.  Metrics stay below 256, so only the low byte of a host     *)
(* order metric is in use; on a little-endian build htonl moves it to the  *)
(* top byte of the uint32_t.  16777216 is 2^24.                            *)
(***************************************************************************)
Htonl(metric) == metric * 16777216
Ntohl(metric) == metric \div 16777216

\* The metrics a stored route can have, in network order.
NetMetric == {Htonl(m) : m \in 1..INFINITY_METRIC}

----------------------------------------------------------------------------
(***************************************************************************)
(* What identifies a route in the hash tables: the interface, the network  *)
(* and the next hop.                                                       *)
(***************************************************************************)
LearnedKey(nbr, dst) == [ifi |-> IfcOf[nbr], dst |-> dst, nh |-> nbr]
LocalKey(net) == [ifi |-> net.dev, dst |-> net.dst, nh |-> NULL]
LearnedKeys == {LearnedKey(nbr, dst) : nbr \in Nbr, dst \in Dest}
Key == LearnedKeys \cup {LocalKey(AdvNetworks[i]) : i \in DOMAIN AdvNetworks}

(***************************************************************************)
(* The fields of a route outside its key.  gc_age stands for the time that *)
(* has passed since gc_started_at.                                         *)
(***************************************************************************)
Desc == [metric : NetMetric, changed : BOOLEAN, is_local : BOOLEAN,
         in_routing_table : BOOLEAN, timeout_cnt : Nat, gc_age : Nat]

\* NULL stands for the absence of a route.
ASSUME NullAssumption ==
    /\ NULL \notin Desc
    /\ NULL \notin [key : LearnedKeys, desc : Desc]
    /\ NULL \notin [nh : Nbr, metric : Nat]

----------------------------------------------------------------------------
(***************************************************************************)
(* Receiving an entry: the validity test and the metric the route gets.    *)
(***************************************************************************)
is_metric_valid(metric) == metric >= 1 /\ metric <= INFINITY_METRIC
is_entry_valid(dst, metric) == dst \in Dest /\ is_metric_valid(metric)

update_metric(metric) ==
    IF metric + 1 < INFINITY_METRIC THEN metric + 1 ELSE INFINITY_METRIC

\* The values of a metric field: the valid ones and one on either side.
WireMetric == {Htonl(m) : m \in 0..(INFINITY_METRIC + 1)}

build_route_description(net_metric) ==
    [metric |-> net_metric, changed |-> FALSE, is_local |-> FALSE,
     in_routing_table |-> TRUE, timeout_cnt |-> 0, gc_age |-> 0]
============================================================================
