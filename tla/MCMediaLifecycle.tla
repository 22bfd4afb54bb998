---------------------------- MODULE MCMediaLifecycle ----------------------------
(***************************************************************************)
(* Constants of MediaLifecycle for TLC: two episodes of one season pack.   *)
(***************************************************************************)
EXTENDS MediaLifecycle, TLC

CONSTANTS e1, e2, p1, c1, q1, q2

MCItem == {e1, e2}
MCPrimary == {e1}
MCSecond == {e2}
MCNone == {}
MCRelease == {p1}
MCReleaseOf == (e1 :> p1) @@ (e2 :> p1)
MCController == {c1}
MCRequest == {q1}
MCScope == (q1 :> {e1, e2})
MCRequests == {q1, q2}
MCScopes == (q1 :> {e1}) @@ (q2 :> {e2})
================================================================================
