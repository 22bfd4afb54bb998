------------------------------ MODULE EpisodeIntake ------------------------------
(***************************************************************************)
(* The Sonarr scan (SonarrSyncer.syncOnce): the rows of episode files      *)
(* against a Sonarr that changes while it is listed, show by show.         *)
(*                                                                         *)
(* The timer, the webhooks and playback call it.  One scan runs at a time  *)
(* and not sooner than a while after the last began; other calls are       *)
(* dropped, not queued.  A webhook also spends a debounce of its own before *)
(* it calls.  Sonarr never gives an id out twice.                          *)
(***************************************************************************)
EXTENDS Naturals, FiniteSets

CONSTANTS
  Show,
  EpisodeFile,   \* ids Sonarr gives to episode files
  showOf,
  Caller,        \* the timer and the deliveries of webhooks
  Timer,         \* the timer among them
  ScanDebounce,  \* ticks between the starts of two scans (SonarrOptions.Debounce)
  HookDebounce   \* ticks between two webhooks that call (60 seconds)

ASSUME EpisodeConstants ==
  /\ showOf \in [EpisodeFile -> Show]
  /\ Timer \in Caller
  /\ ScanDebounce \in Nat /\ HookDebounce \in Nat

VARIABLES
  library,   \* episode files Sonarr has
  unborn,    \* those it will have
  episode,   \* the state of the row of a file
  running,   \* SonarrSyncer.running
  sinceScan, \* ticks until a scan may start again
  sinceHook, \* ticks until a webhook may call again
  pass       \* pass[c]: what the call of c is doing

sonarrVars == <<library, unborn>>
clockVars == <<sinceScan, sinceHook>>
episodeVars == <<library, unborn, episode, running, sinceScan, sinceHook, pass>>

\* todo: shows still to be listed; files: listed ones still to be stored;
\* shows, seen: what was listed; complete: no listing has failed.
PassType == [step : {"idle", "call", "series", "show", "store", "prune"},
             todo : SUBSET Show, files : SUBSET EpisodeFile,
             shows : SUBSET Show, seen : SUBSET EpisodeFile, complete : BOOLEAN]
NoPass == [step |-> "idle", todo |-> {}, files |-> {}, shows |-> {}, seen |-> {},
           complete |-> TRUE]

EpisodeTypeOK ==
  /\ library \subseteq EpisodeFile /\ unborn \subseteq EpisodeFile
  /\ episode \in [EpisodeFile -> {"Absent", "Requested", "Tracked"}]
  /\ running \in BOOLEAN
  /\ sinceScan \in 0 .. ScanDebounce /\ sinceHook \in 0 .. HookDebounce
  /\ pass \in [Caller -> PassType]

EpisodeInit ==
  /\ library = {} /\ unborn = EpisodeFile
  /\ episode = [f \in EpisodeFile |-> "Absent"]
  /\ running = FALSE
  /\ sinceScan = 0 /\ sinceHook = 0
  /\ pass = [c \in Caller |-> NoPass]

--------------------------------------------------------------------------------
\* Sonarr.  A show is listed while it has a file, or is without one.
Listed(shows) == {f \in library : showOf[f] \in shows}

SonarrImports(f) ==
  /\ f \in unborn
  /\ unborn' = unborn \ {f} /\ library' = library \cup {f}
  /\ UNCHANGED <<episode, running, clockVars, pass>>

\* A file is deleted or replaced, or its series goes.
SonarrDeletes(S) ==
  /\ S # {} /\ S \subseteq library
  /\ library' = library \ S
  /\ UNCHANGED <<unborn, episode, running, clockVars, pass>>

\* SeriesDelete: the rows go at once; the scan may have listed them before.
SeriesDeleted(s) ==
  /\ \A f \in library : showOf[f] # s
  /\ episode' = [f \in EpisodeFile |-> IF showOf[f] = s THEN "Absent" ELSE episode[f]]
  /\ episode' # episode
  /\ UNCHANGED <<sonarrVars, running, clockVars, pass>>

--------------------------------------------------------------------------------
\* The webhook takes its debounce whether or not the scan then runs.
HookCalls(c) ==
  /\ c # Timer /\ pass[c].step = "idle" /\ sinceHook = 0
  /\ sinceHook' = HookDebounce
  /\ pass' = [pass EXCEPT ![c].step = "call"]
  /\ UNCHANGED <<sonarrVars, episode, running, sinceScan>>

TimerCalls ==
  /\ pass[Timer].step = "idle"
  /\ pass' = [pass EXCEPT ![Timer].step = "call"]
  /\ UNCHANGED <<sonarrVars, episode, running, clockVars>>

\* Mutation of MayStart: a scan that is running is not waited for.
MayStartAnyway(active, wait) == wait = 0

MayStart(active, wait) == ~active /\ wait = 0

ScanStarts(c) ==
  /\ pass[c].step = "call" /\ MayStart(running, sinceScan)
  /\ running' = TRUE /\ sinceScan' = ScanDebounce
  /\ pass' = [pass EXCEPT ![c].step = "series"]
  /\ UNCHANGED <<sonarrVars, episode, sinceHook>>

ScanSkipped(c) ==
  /\ pass[c].step = "call" /\ ~MayStart(running, sinceScan)
  /\ pass' = [pass EXCEPT ![c] = NoPass]
  /\ UNCHANGED <<sonarrVars, episode, running, clockVars>>

--------------------------------------------------------------------------------
Goes(c, p) == pass' = [pass EXCEPT ![c] = p]

\* The next step of a pass: store what was listed, list the next show, prune.
Onward(p) == [p EXCEPT !.step = IF p.files # {} THEN "store"
                                ELSE IF p.todo # {} THEN "show" ELSE "prune"]

ListSeries(c) ==
  /\ pass[c].step = "series"
  /\ \E S \in SUBSET Show :
       /\ \A f \in library : showOf[f] \in S
       /\ Goes(c, Onward([pass[c] EXCEPT !.shows = S, !.todo = S]))
  /\ UNCHANGED <<sonarrVars, episode, running, clockVars>>

ListShow(c) ==
  /\ pass[c].step = "show"
  /\ \E s \in pass[c].todo :
       Goes(c, Onward([pass[c] EXCEPT !.todo = @ \ {s}, !.files = Listed({s}),
                                      !.seen = @ \cup Listed({s})]))
  /\ UNCHANGED <<sonarrVars, episode, running, clockVars>>

\* Mutation of Failed: the failure of a show's listing is only logged.
FailedQuietly(p, s) == [p EXCEPT !.todo = @ \ {s}]

\* The files of show s could not be listed.
Failed(p, s) == [p EXCEPT !.todo = @ \ {s}, !.complete = FALSE]

\* Episodes or EpisodeFiles fails; the files are stored when only the former did.
ListShowFails(c) ==
  /\ pass[c].step = "show"
  /\ \E s \in pass[c].todo :
       \/ Goes(c, Onward(Failed(pass[c], s)))
       \/ Goes(c, Onward([Failed(pass[c], s) EXCEPT !.files = Listed({s}),
                                                    !.seen = @ \cup Listed({s})]))
  /\ UNCHANGED <<sonarrVars, episode, running, clockVars>>

\* UpsertImportedEpisode.
StoreFile(c) ==
  /\ pass[c].step = "store"
  /\ \E f \in pass[c].files :
       /\ episode' = [episode EXCEPT ![f] = "Tracked"]
       /\ Goes(c, Onward([pass[c] EXCEPT !.files = @ \ {f}]))
  /\ UNCHANGED <<sonarrVars, running, clockVars>>

\* ReconcileSonarrInventory, when nothing is missing from the inventory; the
\* scan ends.
PruneEpisodes(c) ==
  /\ pass[c].step = "prune"
  /\ episode' = [f \in EpisodeFile |->
       IF /\ pass[c].complete /\ episode[f] = "Tracked"
          /\ showOf[f] \notin pass[c].shows \/ f \notin pass[c].seen
       THEN "Absent" ELSE episode[f]]
  /\ running' = FALSE /\ Goes(c, NoPass)
  /\ UNCHANGED <<sonarrVars, clockVars>>

\* Mutation of Released: only a scan that ends well gives the flag back.
ReleasedAtTheEnd(active) == active

\* running after a scan that breaks off (the deferred function).
Released(active) == FALSE

\* The first listing or the pruning fails, or the context ends.
PassBreaks(c) ==
  /\ pass[c].step \notin {"idle", "call"}
  /\ running' = Released(running)
  /\ Goes(c, NoPass)
  /\ UNCHANGED <<sonarrVars, episode, clockVars>>

\* A file that is not stored is logged.
StoreFails(c) ==
  /\ pass[c].step = "store"
  /\ \E f \in pass[c].files : Goes(c, Onward([pass[c] EXCEPT !.files = @ \ {f}]))
  /\ UNCHANGED <<sonarrVars, episode, running, clockVars>>

\* Flags and clocks are in memory.
ProcessRestarts ==
  /\ running
  /\ running' = FALSE /\ sinceScan' = 0 /\ sinceHook' = 0
  /\ pass' = [c \in Caller |-> NoPass]
  /\ UNCHANGED <<sonarrVars, episode>>

\* The controller lacks the metadata of a file (MarkRequestedMetadataPending).
EpisodePending(f) ==
  /\ episode[f] = "Tracked"
  /\ episode' = [episode EXCEPT ![f] = "Requested"]
  /\ UNCHANGED <<sonarrVars, running, clockVars, pass>>

Less(n) == IF n > 0 THEN n - 1 ELSE 0
EpisodeTick ==
  /\ sinceScan > 0 \/ sinceHook > 0
  /\ sinceScan' = Less(sinceScan) /\ sinceHook' = Less(sinceHook)
  /\ UNCHANGED <<sonarrVars, episode, running, pass>>

--------------------------------------------------------------------------------
PassStep(c) ==
  ListSeries(c) \/ ListShow(c) \/ StoreFile(c) \/ PruneEpisodes(c)

EpisodeNext ==
  \/ \E f \in EpisodeFile : SonarrImports(f) \/ EpisodePending(f)
  \/ \E S \in SUBSET EpisodeFile : SonarrDeletes(S)
  \/ \E s \in Show : SeriesDeleted(s)
  \/ \E c \in Caller : \/ HookCalls(c) \/ ScanStarts(c) \/ ScanSkipped(c) \/ PassStep(c)
                       \/ ListShowFails(c) \/ StoreFails(c) \/ PassBreaks(c)
  \/ TimerCalls \/ ProcessRestarts \/ EpisodeTick

\* The timer never stops, and its call finds the debounce over some time; a
\* scan goes on; time passes.
EpisodeFairness ==
  /\ WF_episodeVars(TimerCalls) /\ WF_episodeVars(EpisodeTick)
  /\ \A c \in Caller : /\ WF_episodeVars(ScanSkipped(c)) /\ WF_episodeVars(PassStep(c))
                       /\ SF_episodeVars(ScanStarts(c))

EpisodeSpec == EpisodeInit /\ [][EpisodeNext]_episodeVars
EpisodeFairSpec == EpisodeSpec /\ EpisodeFairness

--------------------------------------------------------------------------------
\* A scan never prunes the row of a file Sonarr still has, although it lists
\* shows at different times, listings fail, and webhooks ask for other scans
\* meanwhile (inventoryComplete, running).
PruneOnlyGone ==
  [][\A c \in Caller, f \in EpisodeFile :
       PruneEpisodes(c) /\ episode[f] # "Absent" /\ episode'[f] = "Absent"
         => f \notin library]_episodeVars

\* Once Sonarr changes no more and its listings and the database answer, the
\* rows come to be those of Sonarr's files and stay so: calls that were
\* skipped, dropped by a debounce or broken off are made good by the timer.
EpisodesUnsettled ==
  \/ \E f \in EpisodeFile : SonarrImports(f)
  \/ \E S \in SUBSET EpisodeFile : SonarrDeletes(S)
  \/ /\ \/ \E c \in Caller : ListShowFails(c) \/ StoreFails(c) \/ PassBreaks(c)
        \/ ProcessRestarts
     /\ ~\E c \in Caller : PassStep(c)
EpisodesInStep ==
  /\ \A f \in library : episode[f] # "Absent"
  /\ \A f \in EpisodeFile \ library : episode[f] # "Tracked"
EpisodesConverge == <>[][~EpisodesUnsettled]_episodeVars => <>[]EpisodesInStep
================================================================================
