------------------------------ MODULE MCRipIpc ------------------------------
(***************************************************************************)
(* Instances of RipIpc for TLC: two terminals, three queue objects (one a  *)
(* terminal has open, one the daemon has open, one that is new).           *)
(***************************************************************************)
EXTENDS RipIpc

\* -h, -r, and -n -r.
MCArgv == {<<>>, <<"dump_rip_routes">>, <<"dump_libnl_route_table", "dump_rip_routes">>}
=============================================================================
