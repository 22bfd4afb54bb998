----------------------------- MODULE MCGatewayMount -----------------------------
(***************************************************************************)
(* Constants of GatewayMount for TLC.                                      *)
(***************************************************************************)
EXTENDS GatewayMount

CONSTANTS j1, m1, f1, f2

MCJob == {j1}
MCNone == {}
MCFile == {f1, f2}
MCMounter == {m1}
================================================================================
