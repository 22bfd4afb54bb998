------------------------------- MODULE MovieIntake -------------------------------
(***************************************************************************)
(* How the rows of one movie come to be, and go: Radarr scans, which the   *)
(* timer, webhooks and playback start and nothing keeps from overlapping,  *)
(* Radarr's webhooks, the Seerr poll and webhook, and playback.            *)
(*                                                                         *)
(* media_cache_state has a row for a Radarr id, or for none yet: the       *)
(* placeholder of a Seerr request, whose arr_id is the negative TMDB id    *)
(* and here 0.  A movie that is removed from Radarr and added again has a  *)
(* new id.  What the controller makes of a row is MediaLifecycle's; here   *)
(* its states are those the intake tells apart.                            *)
(***************************************************************************)
EXTENDS Naturals, FiniteSets

CONSTANTS
  MaxAdds,   \* times the movie is added to Radarr
  Scan,      \* scans of Radarr that may be running at once
  Asker,     \* runs of the Seerr poll and deliveries of its webhook
  Hook,      \* the deliveries among them
  Viewer     \* playback intents that name the movie by its TMDB id

ASSUME MovieConstants == MaxAdds \in Nat /\ Hook \subseteq Asker

Placeholder == 0
ArrId == 1 .. MaxAdds
Slot  == {Placeholder} \cup ArrId

VARIABLES
  movie,     \* movie[a]: the row with arr_id a
  radarr,    \* what Radarr lists: the id of the movie (0: none) and its file
  adds,      \* ids Radarr has given out
  scan,      \* a scan's step and the listing it works from
  ask,       \* where a Seerr run is, and whether it created the request's row
  keys,      \* request keys recorded in media_cache_seerr_requests
  view,      \* the row a playback intent has matched
  pollRearms \* history: rearms queued by the poll

movieVars == <<movie, radarr, adds, scan, ask, keys, view, pollRearms>>

\* "Settled" is ARCHIVED, BROKEN or FAILED; file: symlink_path<>''.
MovieRow == [state : {"Absent", "Requested", "Available", "Settled"},
             file : BOOLEAN, requested : BOOLEAN]
NoMovie == [state |-> "Absent", file |-> FALSE, requested |-> FALSE]
Present(a) == movie[a].state # "Absent"

Listing == [id : {0} \cup ArrId, file : BOOLEAN]
NoListing == [id |-> 0, file |-> FALSE]

MovieTypeOK ==
  /\ movie \in [Slot -> MovieRow]
  /\ radarr \in Listing
  /\ adds \in 0 .. MaxAdds
  /\ scan \in [Scan -> [step : {"idle", "track", "import", "prune"}, listed : Listing]]
  /\ ask \in [Asker -> [step : {"idle", "insert", "update", "find", "place", "rearm"},
                        isNew : BOOLEAN]]
  /\ keys \subseteq {"poll", "webhook"}
  /\ view \in [Viewer -> SUBSET Slot]
  /\ pollRearms \in Nat

MovieInit ==
  /\ movie = [a \in Slot |-> NoMovie]
  /\ radarr = NoListing
  /\ adds = 0
  /\ scan = [s \in Scan |-> [step |-> "idle", listed |-> NoListing]]
  /\ ask = [p \in Asker |-> [step |-> "idle", isNew |-> FALSE]]
  /\ keys = {}
  /\ view = [v \in Viewer |-> {}]
  /\ pollRearms = 0

--------------------------------------------------------------------------------
\* The statements on the rows of the movie, as operators on movie.

\* Mutation of Promoted: the placeholder is left where it is.
PromotedNever(rows, a) == rows

\* The UPDATE both upserts begin with: the placeholder becomes the row of a.
Promoted(rows, a) ==
  IF rows[Placeholder].state # "Absent" /\ rows[a].state = "Absent"
  THEN [rows EXCEPT ![a] = rows[Placeholder], ![Placeholder] = NoMovie]
  ELSE rows

\* UpsertRequestedRadarrMovie.
Tracked(rows, a) ==
  LET known == Promoted(rows, a) IN
  IF known[a].state = "Absent"
  THEN [known EXCEPT ![a] = [NoMovie EXCEPT !.state = "Requested"]] ELSE known

\* UpsertImportedMovie.
Imported(rows, a) ==
  [Promoted(rows, a) EXCEPT
     ![a].state = IF @ \in {"Absent", "Requested"} THEN "Available" ELSE @,
     ![a].file = TRUE]

\* Mutation of Pruned: nothing is missing from an inventory.
PrunedNever(rows, listed) == rows

\* ReconcileRadarrInventory; a row that is still requested stays.
Pruned(rows, listed) ==
  [a \in Slot |->
     IF a \in ArrId \ {listed.id} /\ rows[a].state # "Requested"
     THEN NoMovie ELSE rows[a]]

\* Mutation of Rearmable: a movie without a file is rearmed too.
RearmableTracked(r, force) ==
  r.state = "Settled" \/ r.state = "Requested" \/ (force /\ r.state = "Available")

\* The rows RequestRearmByTMDB takes (the placeholder is not one of them).
Rearmable(r, force) ==
  r.file /\ (r.state = "Settled" \/ (force /\ r.state = "Available"))
Rearmed(r) == [r EXCEPT !.state = "Settled", !.requested = TRUE]

\* Rows go: a playback intent that held one of them holds nothing.
Replace(rows) ==
  /\ movie' = rows
  /\ view' = [v \in Viewer |-> {a \in view[v] : rows[a].state # "Absent"}]

--------------------------------------------------------------------------------
\* RadarrSyncer.SyncOnce, for the one movie.

ScanGoto(s, step, listed) ==
  scan' = [scan EXCEPT ![s] = [step |-> step, listed |-> listed]]
ScanEnds(s) == ScanGoto(s, "idle", NoListing)

ScanList(s) ==
  /\ scan[s].step = "idle"
  /\ ScanGoto(s, IF radarr.id = 0 THEN "prune" ELSE "track", radarr)
  /\ UNCHANGED <<movie, radarr, adds, ask, keys, view, pollRearms>>

\* The step after the tracking of the listed movie.
AfterTrack(s) == IF scan[s].listed.file THEN "import" ELSE "prune"

ScanTrack(s) ==
  /\ scan[s].step = "track"
  /\ Replace(Tracked(movie, scan[s].listed.id))
  /\ ScanGoto(s, AfterTrack(s), scan[s].listed)
  /\ UNCHANGED <<radarr, adds, ask, keys, pollRearms>>

ScanImport(s) ==
  /\ scan[s].step = "import"
  /\ Replace(Imported(movie, scan[s].listed.id))
  /\ ScanGoto(s, "prune", scan[s].listed)
  /\ UNCHANGED <<radarr, adds, ask, keys, pollRearms>>

ScanPrune(s) ==
  /\ scan[s].step = "prune"
  /\ Replace(Pruned(movie, scan[s].listed))
  /\ ScanEnds(s)
  /\ UNCHANGED <<radarr, adds, ask, keys, pollRearms>>

\* The caller goes away or the process stops; a statement that fails is logged
\* and, but for the last, the scan goes on.
ScanBreaks(s) ==
  /\ scan[s].step # "idle"
  /\ \/ ScanEnds(s)
     \/ scan[s].step = "track" /\ ScanGoto(s, AfterTrack(s), scan[s].listed)
     \/ scan[s].step = "import" /\ ScanGoto(s, "prune", scan[s].listed)
  /\ UNCHANGED <<movie, radarr, adds, ask, keys, view, pollRearms>>

--------------------------------------------------------------------------------
\* Radarr itself, and its webhooks, which come late or not at all.

RadarrAdds ==
  /\ radarr.id = 0 /\ adds < MaxAdds
  /\ adds' = adds + 1
  /\ radarr' = [id |-> adds + 1, file |-> FALSE]
  /\ UNCHANGED <<movie, scan, ask, keys, view, pollRearms>>

RadarrImports ==
  /\ radarr.id # 0 /\ ~radarr.file
  /\ radarr' = [radarr EXCEPT !.file = TRUE]
  /\ UNCHANGED <<movie, adds, scan, ask, keys, view, pollRearms>>

RadarrRemoves ==
  /\ radarr.id # 0
  /\ radarr' = NoListing
  /\ UNCHANGED <<movie, adds, scan, ask, keys, view, pollRearms>>

\* handleRadarrWebhook, whose scan is one of Scan.
RadarrWebhook(a) ==
  /\ a <= adds
  /\ Replace(Tracked(movie, a))
  /\ UNCHANGED <<radarr, adds, scan, ask, keys, pollRearms>>

DeleteWebhook(a) ==
  /\ a <= adds /\ a # radarr.id /\ Present(a)
  /\ Replace([movie EXCEPT ![a] = NoMovie])
  /\ UNCHANGED <<radarr, adds, scan, ask, keys, pollRearms>>

--------------------------------------------------------------------------------
\* The Seerr poll (SeerrSyncer.SyncOnce) and webhook (handleSeerrPost): record
\* the request, leave a placeholder, ask for a rearm.

Key(p) == IF p \in Hook THEN "webhook" ELSE "poll"
AskGoto(p, step, new) == ask' = [ask EXCEPT ![p] = [step |-> step, isNew |-> new]]

\* Mutation of ActsOn: a request that was known is acted on again.
ActsOnAny(p, new) == TRUE

\* The poll acts on a request it has just recorded, the webhook on any.
ActsOn(p, new) == p \in Hook \/ new
AfterPlaceholder(p, new) == IF ActsOn(p, new) THEN "rearm" ELSE "idle"

\* UpsertSeerrRequest looks the key up ...
AskLookup(p) ==
  /\ ask[p].step = "idle"
  /\ AskGoto(p, IF Key(p) \in keys THEN "update" ELSE "insert", FALSE)
  /\ UNCHANGED <<movie, radarr, adds, scan, keys, view, pollRearms>>

\* ... and inserts it, which fails when another run has done so since (only
\* the webhook goes on then), or updates it.
AskRecord(p) ==
  /\ ask[p].step \in {"insert", "update"}
  /\ LET new == ask[p].step = "insert" /\ Key(p) \notin keys
         failed == ask[p].step = "insert" /\ Key(p) \in keys
     IN AskGoto(p, IF failed /\ p \notin Hook THEN "idle" ELSE "find", new)
  /\ keys' = keys \cup {Key(p)}
  /\ UNCHANGED <<movie, radarr, adds, scan, view, pollRearms>>

\* UpsertRequestedMoviePlaceholder looks for a row of the movie ...
AskFind(p) ==
  /\ ask[p].step = "find"
  /\ AskGoto(p, IF \E a \in Slot : Present(a) THEN AfterPlaceholder(p, ask[p].isNew)
                ELSE "place", ask[p].isNew)
  /\ UNCHANGED <<movie, radarr, adds, scan, keys, view, pollRearms>>

\* ... and inserts the placeholder.
AskPlace(p) ==
  /\ ask[p].step = "place"
  /\ movie' = [movie EXCEPT ![Placeholder].state = "Requested"]
  /\ AskGoto(p, AfterPlaceholder(p, ask[p].isNew), ask[p].isNew)
  /\ UNCHANGED <<radarr, adds, scan, keys, view, pollRearms>>

AskRearm(p) ==
  /\ ask[p].step = "rearm"
  /\ \E force \in BOOLEAN :
       LET taken == {a \in ArrId : Rearmable(movie[a], force)} IN
       /\ force => p \in Hook
       /\ movie' = [a \in Slot |-> IF a \in taken THEN Rearmed(movie[a]) ELSE movie[a]]
       /\ AskGoto(p, "idle", FALSE)
       /\ pollRearms' = IF taken # {} /\ p \notin Hook THEN pollRearms + 1
                        ELSE pollRearms
  /\ UNCHANGED <<radarr, adds, scan, keys, view>>

\* The process stops, or a statement fails.
AskBreaks(p) ==
  /\ ask[p].step # "idle"
  /\ AskGoto(p, "idle", FALSE)
  /\ UNCHANGED <<movie, radarr, adds, scan, keys, view, pollRearms>>

--------------------------------------------------------------------------------
\* handlePlaybackIntent.  A match that fails starts a scan and is tried again.

\* Mutation of Playable: the placeholder is not told apart.
PlayableAny(a, r) == r.state # "Absent" /\ r.state # "Available"

\* The row is in the way of playing; a placeholder is told apart first.
Playable(a, r) == a # Placeholder /\ r.file /\ r.state # "Available"

PlayMatch(v) ==
  /\ view[v] = {}
  /\ \E a \in Slot : Playable(a, movie[a]) /\ view' = [view EXCEPT ![v] = {a}]
  /\ UNCHANGED <<movie, radarr, adds, scan, ask, keys, pollRearms>>

\* MarkPlaybackRearmRequested takes the matched row by its id, unless it is
\* available by now.
PlayRearm(v) ==
  /\ view[v] # {}
  /\ movie' = [a \in Slot |-> IF a \in view[v] /\ movie[a].state # "Available"
                              THEN Rearmed(movie[a]) ELSE movie[a]]
  /\ view' = [view EXCEPT ![v] = {}]
  /\ UNCHANGED <<radarr, adds, scan, ask, keys, pollRearms>>

\* The controller ends a rearm, and a placement is lost.
RowMoves(a) ==
  /\ \/ movie[a].requested
        /\ \E end \in {"Available", "Settled"} :
             movie' = [movie EXCEPT ![a].requested = FALSE, ![a].state = end]
     \/ movie[a].state = "Available" /\ movie' = [movie EXCEPT ![a].state = "Settled"]
  /\ UNCHANGED <<radarr, adds, scan, ask, keys, view, pollRearms>>

--------------------------------------------------------------------------------
ScanStep(s) == ScanList(s) \/ ScanTrack(s) \/ ScanImport(s) \/ ScanPrune(s)

Radarr ==
  \/ RadarrAdds \/ RadarrImports \/ RadarrRemoves
  \/ \E a \in ArrId : RadarrWebhook(a) \/ DeleteWebhook(a)

MovieNext ==
  \/ \E s \in Scan : ScanStep(s) \/ ScanBreaks(s)
  \/ Radarr
  \/ \E p \in Asker : \/ AskLookup(p) \/ AskRecord(p) \/ AskFind(p) \/ AskPlace(p)
                      \/ AskRearm(p) \/ AskBreaks(p)
  \/ \E v \in Viewer : PlayMatch(v) \/ PlayRearm(v)
  \/ \E a \in ArrId : RowMoves(a)

\* The timer starts a scan every few minutes, and a scan goes on.
MovieFairness == \A s \in Scan : WF_movieVars(ScanStep(s))

MovieSpec == MovieInit /\ [][MovieNext]_movieVars
MovieFairSpec == MovieSpec /\ MovieFairness

--------------------------------------------------------------------------------
\* However the polls of several runs interleave, one request makes the poll
\* ask for a rearm once: a movie that is archived again later is not rearmed
\* for the same request (UpsertSeerrRequest's lookup and insert are two
\* statements, and two runs may be between them).
PollRearmsOnce == pollRearms <= 1

\* Only a row that has a Radarr id and a file waits for a rearm, whatever is
\* promoted, pruned or tracked again while a request is on its way to it.
RearmsHaveFiles ==
  \A a \in Slot : movie[a].requested => a # Placeholder /\ movie[a].file

\* Once Radarr changes no more and scans run to their end, the rows come to
\* agree with it, and stay so, whatever stale listings, late webhooks and
\* requests were under way: its movie has a row, with a file when Radarr has
\* one, and nothing else is taken to be in the library.
Upset ==
  \/ RadarrAdds \/ RadarrImports \/ RadarrRemoves
  \/ \E s \in Scan : ScanBreaks(s) /\ ~ScanStep(s)
InStep ==
  \A a \in ArrId :
    IF a = radarr.id THEN Present(a) /\ (radarr.file => movie[a].file)
    ELSE movie[a].state \in {"Absent", "Requested"}
LibraryConverges == <>[][~Upset]_movieVars => <>[]InStep
================================================================================
