------------------------------ MODULE RipdLife ------------------------------
(***************************************************************************)
(* The daemon's tables as RouteLife sees them.  A route that is in the     *)
(* kernel and not yet in the database counts as in use and as changed.     *)
(***************************************************************************)
EXTENDS Ripd

\* b is the database and p the pending route.
InUse(b, p, d) ==
    {[nh |-> k.nh, metric |-> Ntohl(b.ok[k].metric)] : k \in {x \in Learned(b) : x.dst = d}}
      \cup {[nh |-> x.key.nh, metric |-> Ntohl(x.desc.metric)] :
              x \in {y \in {p} : y # NULL /\ y.key.dst = d}}

Unadvertised(b, p, d) ==
    {k.nh : k \in {x \in Learned(b) \cup Items(b.garbage) : x.dst = d /\ Route(b, x).changed}}
      \cup {x.key.nh : x \in {y \in {p} : y # NULL /\ y.key.dst = d}}

LifeRoute(b, p) ==
    [d \in Dest |-> IF InUse(b, p, d) = {} THEN NULL ELSE CHOOSE r \in InUse(b, p, d) : TRUE]
LifeDead(b) == [d \in Dest |-> {k.nh : k \in {x \in Items(b.garbage) : x.dst = d}}]
LifeChanged(b, p) == [d \in Dest |-> Unadvertised(b, p, d)]

Life == INSTANCE RouteLife WITH
    route <- LifeRoute(db, pending),
    dead <- LifeDead(db),
    changed <- LifeChanged(db, pending),
    up <- pc # "exited"

(***************************************************************************)
(* The daemon implements RouteLife: although handle_ok_route_update takes  *)
(* the old route out of the kernel and the database before the new one is  *)
(* in, and an expired route goes through kernel and tables one by one, a   *)
(* route in use is only ever replaced by a better one from its neighbour,  *)
(* ends as a dead one, or with the process.                                *)
(***************************************************************************)
ImplementsLife == Life!Spec
=============================================================================
