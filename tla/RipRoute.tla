------------------------------ MODULE RipRoute ------------------------------
(***************************************************************************)
(* The kernel's main routing table as librip/rip_route.c uses it over      *)
(* netlink: the set of routes with protocol RIP.  The kernel tells routes  *)
(* to one network apart by their priority.                                 *)
(***************************************************************************)
EXTENDS RipDb

(***************************************************************************)
(* The netlink route built for a database route.  rip_fill_route takes the *)
(* metric as a uint8_t, but the caller passes the network order uint32_t:  *)
(* what is left is the low byte.                                           *)
(***************************************************************************)
route_create_host_order(k, desc) ==
    [dst |-> k.dst, prio |-> 20 + Ntohl(desc.metric), ifi |-> k.ifi, nh |-> k.nh]
rip_rtnl_route_create(k, desc) ==
    [dst |-> k.dst, prio |-> 20 + (desc.metric % 256), ifi |-> k.ifi, nh |-> k.nh]

KernelRoute == [dst : Dest, prio : 20..275, ifi : Ifc, nh : Nbr \cup {NULL}]

\* NLM_F_EXCL: the kernel refuses a second route with this network and priority.
AlreadyExists(kernel, route) ==
    \E r \in kernel : r.dst = route.dst /\ r.prio = route.prio

rip_route_add_route(kernel, route) == kernel \cup {route}

\* A delete names one route exactly and fails when the kernel has no such route.
rip_route_delete_fails(kernel, route) == route \notin kernel
rip_route_delete_route(kernel, route) == kernel \ {route}
============================================================================
