--------------------------------- MODULE MCPaths ---------------------------------
(***************************************************************************)
(* The release mount and the library's links into it, for TLC: gateway     *)
(* jobs that are verified through it, reads of it that hang, files that    *)
(* are missing from it, the sources rows get from where their links lead,  *)
(* and the delivery links its files are streamed by.  The parts share no   *)
(* state, so each behaviour is one of the part in focus; the others keep   *)
(* their initial states.                                                   *)
(***************************************************************************)
EXTENDS MCGatewayMount, Paths

CONSTANTS k1, k2, k3, p1, p2, p3, d1, d2, path, c1, g1, r1, r2

MCChecker == {k1, k2, k3}
MCProbePath == {p1, p2, p3}
MCItem == {1}
MCDownload == {d1, d2}
MCInGateway == {d1}
MCPath == {path}
MCCall == {c1}
MCStreamed == {g1}
MCReader == {r1, r2}

--------------------------------------------------------------------------------
VARIABLE focus
MCvars == <<vars, probeVars, missingVars, grabVars, deliveryVars, focus>>

MCInit ==
  /\ Init /\ ProbeInit /\ MissingInit /\ GrabInit
  /\ DeliveryInit
  /\ focus \in {"mount", "probe", "missing", "sources", "delivery"}

\* A webhook and a rearm do not overlap; both overlap the worker and the scan.
SourcesOnly == rearm'.step = "idle" \/ \A c \in WebhookCall : call'[c].step = "idle"

MCNext ==
  /\ UNCHANGED focus
  /\ \/ focus = "mount" /\ Next /\ UNCHANGED <<probeVars, missingVars, grabVars, deliveryVars>>
     \/ focus = "probe" /\ ProbeNext /\ UNCHANGED <<vars, missingVars, grabVars, deliveryVars>>
     \/ focus = "missing" /\ MissingNext /\ UNCHANGED <<vars, probeVars, grabVars, deliveryVars>>
     \/ focus = "sources" /\ GrabNext /\ SourcesOnly
        /\ UNCHANGED <<vars, probeVars, missingVars, deliveryVars>>
     \/ focus = "delivery" /\ DeliveryNext
        /\ UNCHANGED <<vars, probeVars, missingVars, grabVars>>

\* The fairness of the part in focus.
MCFairness ==
  \/ []<>(focus = "mount") /\ Fairness
  \/ []<>(focus = "probe")
  \/ []<>(focus = "missing") /\ MissingFairness
  \/ []<>(focus = "sources") /\ GrabFairness
  \/ []<>(focus = "delivery") /\ DeliveryFairness

MCSpec == MCInit /\ [][MCNext]_MCvars /\ MCFairness

================================================================================
