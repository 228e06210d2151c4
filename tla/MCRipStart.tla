----------------------------- MODULE MCRipStart -----------------------------
(***************************************************************************)
(* Configuration files for RipStart: a version with all pairs of lists of  *)
(* up to two items, right and wrong in every way the parser tells apart;   *)
(* and all sequences of up to three keys, repeated and in any order, with  *)
(* fewer values.  eth0 exists and eth9 does not.                           *)
(***************************************************************************)
EXTENDS RipStart

UpTo(S, n) == UNION {[1..k -> S] : k \in 0..n}

Eth0 == [Blank EXCEPT !.dev = "eth0"]
IfcItem == {NULL, Blank, Eth0, [Blank EXCEPT !.dev = "list"], [Blank EXCEPT !.dev = "eth9"]}
Net == [dev |-> "eth0", prefix |-> "24", address |-> "10.0.0.0"]
NetItem ==
    {NULL, Net, [Net EXCEPT !.dev = "eth9"], [Net EXCEPT !.address = "text"]}
      \cup {[Net EXCEPT !.prefix = p] : p \in {NULL, "16", "text", "too_long"}}

Line(k, v) == [key |-> k, value |-> v]
Pair ==
    {Line("version", v) : v \in {"2", "text", "list"}}
      \cup {Line("rip_interfaces", v) : v \in {NULL, <<>>, <<Eth0>>, <<NULL, Eth0>>}}
      \cup {Line("advertised_networks", v) : v \in {NULL, <<Net>>, <<NULL, Net>>}}
      \cup {Line("unknown", NULL)}

MCDocs ==
    {[file |-> f, pairs |-> <<>>] : f \in {"missing", "no_yaml", "empty", "other"}}
      \cup {[file |-> "rip", pairs |-> <<Line("version", "2"),
                                         Line("rip_interfaces", i),
                                         Line("advertised_networks", n)>>] :
              i \in UpTo(IfcItem, 2), n \in UpTo(NetItem, 2)}
      \cup {[file |-> "rip", pairs |-> p] : p \in UpTo(Pair, 3)}
=============================================================================
