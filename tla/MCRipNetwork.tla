---------------------------- MODULE MCRipNetwork ----------------------------
(***************************************************************************)
(* Topologies for RipNetwork, and the distances in them.                   *)
(***************************************************************************)
EXTENDS RipNetwork, FiniteSets, TLC

\* A line of three routers, the owner first.
LineEnds == "ab" :> {"a", "b"} @@ "bc" :> {"b", "c"}
\* The owner, and two routers with two links between them.
TwinEnds == "ab" :> {"a", "b"} @@ "bc1" :> {"b", "c"} @@ "bc2" :> {"b", "c"}
Ball[n \in 0..Cardinality(Router)] ==
    IF n = 0 THEN {Owner}
    ELSE Ball[n - 1] \cup UNION {Ends[l] : l \in {k \in Link : Ends[k] \cap Ball[n - 1] # {}}}
MCDistance ==
    [r \in Router |-> CHOOSE n \in 0..Cardinality(Router) :
                        r \in Ball[n] /\ (n > 0 => r \notin Ball[n - 1])]
=============================================================================
