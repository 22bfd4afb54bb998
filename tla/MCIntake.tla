-------------------------------- MODULE MCIntake --------------------------------
(***************************************************************************)
(* How media rows come to be, for TLC: the intake of movies and that of    *)
(* episodes; the refreshes of Jellyfin that follow; and the listing of the *)
(* TorBox account.  They share no state, so each behaviour is one of the   *)
(* part in focus; the others keep their initial states.                    *)
(***************************************************************************)
EXTENDS Intake, TLC

CONSTANTS s1, s2, p1, p2, h1, v1, a, b, f1, f2, timer, hook, t1, t2, e1, e2, e3

MCScan == {s1, s2}
MCAsker == {p1, p2, h1}
MCHook == {h1}
MCViewer == {v1}
MCShow == {a, b}
MCFiles == {f1, f2}
MCShowOf == (f1 :> a) @@ (f2 :> b)
MCCaller == {timer, hook}
MCTask == {t1, t2}
MCEntry == {e1, e2, e3}
MCWanted == {e1, e2}

--------------------------------------------------------------------------------
VARIABLE focus
MCvars == <<movieVars, episodeVars, refreshVars, listingVars, focus>>

MCInit ==
  /\ MovieInit /\ EpisodeInit /\ RefreshInit
  /\ \/ ListingInit /\ focus = "listing"
     \/ /\ focus \in {"library", "requests", "episodes", "refreshes"}
        /\ account = <<>> /\ status = [e \in Entry |-> "unknown"] /\ paged = TRUE
        /\ lookup = NoLookup /\ steady = {} /\ removed = FALSE

\* Two scans and a movie that is removed and added again, with one request
\* and no controller.
LibraryOnly ==
  /\ UNCHANGED view /\ \A p \in Asker \ {p1} : ask'[p] = ask[p]
  /\ \A id \in ArrId : ~RowMoves(id)
\* One scan and one movie, with a play intent and requests, two at a time.
RequestsOnly ==
  /\ adds' <= 1 /\ scan'[s2] = scan[s2]
  /\ \E p \in Asker : ask'[p].step = "idle"

MCNext ==
  /\ UNCHANGED focus
  /\ \/ /\ \/ focus = "library" /\ MovieNext /\ LibraryOnly
           \/ focus = "requests" /\ MovieNext /\ RequestsOnly
        /\ UNCHANGED <<episodeVars, refreshVars, listingVars>>
     \/ /\ focus = "episodes" /\ EpisodeNext
        /\ UNCHANGED <<movieVars, refreshVars, listingVars>>
     \/ /\ focus = "refreshes" /\ RefreshNext
        /\ UNCHANGED <<movieVars, episodeVars, listingVars>>
     \/ /\ focus = "listing" /\ ListingNext
        /\ UNCHANGED <<movieVars, episodeVars, refreshVars>>

\* The fairness of the part in focus; in "requests", where one scan never
\* runs, only safety is checked.
MCFairness ==
  \/ []<>(focus \in {"library", "requests"}) /\ MovieFairness
  \/ []<>(focus = "episodes") /\ EpisodeFairness
  \/ []<>(focus = "refreshes") /\ RefreshFairness
  \/ []<>(focus = "listing")

MCSpec == MCInit /\ [][MCNext]_MCvars /\ MCFairness

================================================================================
