----------------------------- MODULE RouteLife -----------------------------
(***************************************************************************)
(* What a daemon promises of the routes it learns, without its tables, its *)
(* timers and its kernel: one route in use for a network, which only gets  *)
(* better until it dies, and is dead for a while before it is forgotten.   *)
(* This is how RipNetwork sees a router; Ripd implements it (RipdLife).    *)
(***************************************************************************)
EXTENDS Naturals

CONSTANTS Nbr, Dest, INFINITY_METRIC, NULL

VARIABLES
    route,   \* the route in use for each network, or NULL
    dead,    \* the neighbours whose route to it died and is still kept
    changed, \* the neighbours whose route, in use or dead, is not yet advertised
    up       \* there is a process

life == <<route, dead, changed, up>>

Init ==
    /\ route = [d \in Dest |-> NULL]
    /\ dead = [d \in Dest |-> {}]
    /\ changed = [d \in Dest |-> {}]
    /\ up = TRUE

Use(d, nbr, metric) ==
    /\ route' = [route EXCEPT ![d] = [nh |-> nbr, metric |-> metric]]
    /\ dead' = [dead EXCEPT ![d] = @ \ {nbr}]
    /\ changed' = [changed EXCEPT ![d] = @ \cup {nbr}]
    /\ up /\ UNCHANGED up

Learn(d, nbr, metric) == route[d] = NULL /\ Use(d, nbr, metric)

\* Better news from the neighbour in use; other neighbours, and worse news,
\* are not heard.
Improve(d, metric) ==
    /\ route[d] # NULL /\ metric < route[d].metric
    /\ Use(d, route[d].nh, metric)

Die(d) ==
    /\ route[d] # NULL
    /\ route' = [route EXCEPT ![d] = NULL]
    /\ dead' = [dead EXCEPT ![d] = @ \cup {route[d].nh}]
    /\ changed' = [changed EXCEPT ![d] = @ \cup {route[d].nh}]
    /\ UNCHANGED up

\* Dead routes are forgotten, advertised or not.
Forget ==
    /\ \A d \in Dest : dead'[d] \subseteq dead[d]
    /\ changed' = [d \in Dest |-> changed[d] \ (dead[d] \ dead'[d])]
    /\ UNCHANGED <<route, up>>

Advertise == changed' = [d \in Dest |-> {}] /\ UNCHANGED <<route, dead, up>>

\* The process ends, and another one starts.
End ==
    /\ up /\ up' = FALSE
    /\ route' = [d \in Dest |-> NULL]
    /\ dead' = [d \in Dest |-> {}]
    /\ changed' = [d \in Dest |-> {}]

Start == ~up /\ up' = TRUE /\ UNCHANGED <<route, dead, changed>>

Next ==
    \/ \E d \in Dest, metric \in 2..INFINITY_METRIC :
         Improve(d, metric) \/ \E nbr \in Nbr : Learn(d, nbr, metric)
    \/ \E d \in Dest : Die(d)
    \/ Forget
    \/ Advertise
    \/ End
    \/ Start

Spec == Init /\ [][Next]_life
============================================================================
