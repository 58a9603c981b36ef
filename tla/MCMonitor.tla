----------------------------- MODULE MCMonitor ------------------------------
(* Two stations and a third adapter in the same network; two links. *)
EXTENDS Monitor

CONSTANTS a, b, c

ThreeAdapters == {a, b, c}
=============================================================================
