------------------------------- MODULE CNull -------------------------------
(***************************************************************************)
(* The null pointer: no queue, no request, no route.                       *)
(***************************************************************************)
CONSTANT NULL
=============================================================================
