------------------------------- MODULE MCRipd -------------------------------
(***************************************************************************)
(* Instances of Ripd for TLC: two interfaces, with one neighbour each, and *)
(* one or two networks.                                                    *)
(***************************************************************************)
EXTENDS RipdInv, RipdLife, TLC

CONSTANTS if1, if2, n1, n2, net1, net2

\* n1 is heard on if1 and n2 on if2.
MCIfcOf == (n1 :> if1) @@ (n2 :> if2)
OneNbr == (n1 :> if1)

\* Nothing is configured, or one network on if1.
NoNetworks == <<>>
OneNetwork == <<[dev |-> if1, dst |-> net1]>>
============================================================================
