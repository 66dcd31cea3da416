--------------------------- MODULE MCRouteEngine ---------------------------
(***************************************************************************)
(* An instance of RouteEngine for TLC.                                     *)
(***************************************************************************)
EXTENDS RouteEngine

CONSTANTS r1, r2, p1, p2
=============================================================================
