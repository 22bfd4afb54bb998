---------------------------------- MODULE Paths ----------------------------------
(***************************************************************************)
(* The release mount and the library's links into it: gateway jobs that    *)
(* are verified through it, reads of it that hang, files that are missing  *)
(* from it, the sources rows get from where their links lead, and the      *)
(* delivery links its files are streamed by.  The parts share no state, so *)
(* their composition is the conjunction of their specifications.           *)
(***************************************************************************)
EXTENDS GatewayMount, ReadProbe, MissingFiles, GrabSources, DeliveryLinks

PathsSpec == Spec /\ ProbeSpec /\ MissingSpec /\ GrabSpec /\ DeliverySpec

\* Slots, rows, passes and calls keep to their ranges (TypeOK of the modules).
PathsTypesOK ==
  TypeOK /\ ProbeTypeOK /\ MissingTypeOK /\ GrabTypeOK /\ DeliveryTypeOK
================================================================================
