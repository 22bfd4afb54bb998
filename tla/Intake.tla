--------------------------------- MODULE Intake ---------------------------------
(***************************************************************************)
(* The intake: how media rows come to be from movies and from episodes,    *)
(* the refreshes of Jellyfin that follow, and the listing of the TorBox    *)
(* account.  The parts share no state, so their composition is the         *)
(* conjunction of their specifications.                                    *)
(***************************************************************************)
EXTENDS MovieIntake, EpisodeIntake, JellyfinRefresh, AccountListing

IntakeSpec == MovieSpec /\ EpisodeSpec /\ RefreshSpec /\ ListingSpec

\* The rows, passes, debounces, reservations, cooldowns and lookups of the
\* intake keep to their ranges (TypeOK of its modules).
IntakeTypesOK == MovieTypeOK /\ EpisodeTypeOK /\ RefreshTypeOK /\ ListingTypeOK
================================================================================
