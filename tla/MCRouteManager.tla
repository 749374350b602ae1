--------------------------- MODULE MCRouteManager ---------------------------
(* Bounded instance of RouteManager for TLC. *)
EXTENDS RouteManager

CONSTANTS w1, w2, sup, app, d4, d6, n, own, both, vpn
=============================================================================
