------------------------------ MODULE MediaLifecycle ------------------------------
(***************************************************************************)
(* The controller's two passes over media_cache_state, the clients that    *)
(* ask for a rearm, and what both have to do with the gateway's jobs.      *)
(*                                                                         *)
(* A controller alternates a visibility pass and a rearm pass.  A pass     *)
(* claims up to MaxRearmsPerRun rows in one statement, starts a goroutine  *)
(* for each, and waits for all of them.  A goroutine's steps are separate  *)
(* actions; requests, library refreshes and the gateway worker take theirs *)
(* in between.  The job of a release is the gateway's: Queued stands for   *)
(* Submitting too, Working for every state with a provider id on the way   *)
(* to Completed, Unknown for SubmissionUnknown, and Warned for the gap     *)
(* between GatewayRecoveryWaiting and the row update after it.             *)
(***************************************************************************)
EXTENDS MediaRows, FiniteSets, FiniteSetsExt

CONSTANTS Item,             \* movies and episode files
          Release,          \* what the gateway keeps one job for
          releaseOf,        \* the release an item was imported from
          Controller,       \* replicas that run the rearm loop
          MaxRearmsPerRun,  \* rows a pass claims
          MaxRecoveries,    \* times a lost release is submitted again
          Pruned,           \* items archived by an earlier version
          Incomplete,       \* those of them without the IDs of their series
          Forced,           \* items named in a forced rearm request
          Asked,            \* items named in any other request
          Deletable,        \* items Radarr or Sonarr deletes
          SeerrRequest,     \* approved TV requests
          scope,            \* the items in the seasons of a request
          Bulk              \* whether the bulk operations are used

ASSUME MediaConstants ==
  /\ releaseOf \in [Item -> Release]
  /\ scope \in [SeerrRequest -> SUBSET Item]
  /\ MaxRearmsPerRun \in Nat \ {0} /\ MaxRecoveries \in Nat
  /\ Pruned \subseteq Item /\ Incomplete \subseteq Pruned
  /\ Forced \subseteq Item /\ Asked \subseteq Item /\ Deletable \subseteq Item
  /\ Bulk \in BOOLEAN

VARIABLES row,        \* media_cache_state
          source,     \* items with a row in media_cache_torrent_sources
          job,        \* state of the gateway job of a release
          recoveries, \* times it was submitted again
          phase,      \* the pass a controller is in
          step,       \* where a controller's goroutine for an item is
          consumed,   \* TV requests whose rearm_requested_at is set
          unseen,     \* history: items asked for since their last claim
          abandoned   \* history: items left rearming by a handler that died or
                      \* could not write its verdict

tables    == <<row, source, job, recoveries, consumed>>
workers   == <<phase, step>>
histories == <<unseen, abandoned>>
vars      == <<tables, workers, histories>>

JobState == {"Absent", "Queued", "Working", "Completed", "Missing", "Warned",
             "Unknown", "Failed"}

Step == {"none", "pending", "start", "resolve", "ensure", "ready", "probe",
         "orphan", "orphanEnsure"}

TypeOK ==
  /\ row \in [Item -> MediaRow]
  /\ source \subseteq Item
  /\ job \in [Release -> JobState]
  /\ recoveries \in [Release -> 0 .. MaxRecoveries]
  /\ phase \in [Controller -> {"visibility", "rearm"}]
  /\ step \in [Controller -> [Item -> Step]]
  /\ consumed \subseteq SeerrRequest
  /\ unseen \subseteq Item
  /\ abandoned \subseteq Item

Init ==
  /\ row = [i \in Item |-> IF i \in Pruned THEN PrunedRow(i \notin Incomplete)
                                           ELSE NoMediaRow]
  /\ source = Pruned
  /\ job = [r \in Release |-> "Absent"]
  /\ recoveries = [r \in Release |-> 0]
  /\ phase = [c \in Controller |-> "rearm"]
  /\ step = [c \in Controller |-> [i \in Item |-> "none"]]
  /\ consumed = {} /\ unseen = {} /\ abandoned = {}

Handles(c, i) == step[c][i] \in {"pending", "start", "resolve", "ensure", "ready", "probe"}
Held(i)       == \E c \in Controller : Handles(c, i)
Rearming      == {i \in Item : row[i].state = "Rearming"}

--------------------------------------------------------------------------------
\* The controller's passes.

PassOver(c) == \A i \in Item : step[c][i] = "none"

\* Rows one claim statement takes, the oldest first; none if it fails.
Claimed(due) ==
  {{}} \cup kSubset(IF Cardinality(due) < MaxRearmsPerRun
                    THEN Cardinality(due) ELSE MaxRearmsPerRun, due)

\* A goroutine decides by the row as it was claimed whether it can be used
\* (itemRearmable, itemHasUsablePath).
Begin(c, S, first) ==
  /\ step' = [step EXCEPT ![c] = [i \in Item |->
                 IF i \notin S THEN "none"
                 ELSE IF row[i].complete THEN first ELSE "pending"]]
  /\ unseen' = unseen \ S
  /\ abandoned' = abandoned \ S

\* The UPDATE of RearmWorkItems marks what it claims.
RearmWorkItems(c) ==
  /\ phase[c] = "visibility" /\ PassOver(c)
  /\ \E S \in Claimed({i \in Item : RearmDue(row[i])}) :
       /\ row' = [i \in Item |-> IF i \in S THEN RearmingRow(row[i]) ELSE row[i]]
       /\ Begin(c, S, "start")
  /\ phase' = [phase EXCEPT ![c] = "rearm"]
  /\ UNCHANGED <<source, job, recoveries, consumed>>

\* The UPDATE of VisibilityWorkItems sets last_checked only.
VisibilityWorkItems(c) ==
  /\ phase[c] = "rearm" /\ PassOver(c)
  /\ \E S \in Claimed({i \in Item : VisibilityDue(row[i])}) : Begin(c, S, "ready")
  /\ phase' = [phase EXCEPT ![c] = "visibility"]
  /\ UNCHANGED tables

--------------------------------------------------------------------------------
\* One goroutine: handleRearm from "start", handleVisibility from "ready".

Goto(c, i, s) == step' = [step EXCEPT ![c][i] = s]

\* The goroutine writes its verdict and ends.
Report(c, i, r) ==
  /\ row' = [row EXCEPT ![i] = r]
  /\ Goto(c, i, "none")

SkipIncomplete(c, i) ==
  /\ step[c][i] = "pending"
  /\ Report(c, i, MetadataPendingRow(row[i]))
  /\ UNCHANGED <<source, job, recoveries, phase, consumed, histories>>

MarkRearming(c, i) ==
  /\ step[c][i] = "start"
  /\ row' = [row EXCEPT ![i] = RearmingRow(@)]
  /\ Goto(c, i, "resolve")
  /\ UNCHANGED <<source, job, recoveries, phase, consumed, histories>>

\* resolveRearmTorrent asks the gateway, then the saved source, and
\* SaveTorrentMetadata keeps the answer.  The gateway may have the source and
\* not give it: it is asked by the row's identity, which may be another one, or
\* does not answer.  (A capture that is pending is a RearmError.)
ResolveSource(c, i) ==
  /\ step[c][i] = "resolve"
  /\ \/ /\ i \in source \/ job[releaseOf[i]] # "Absent"
        /\ source' = source \cup {i} /\ Goto(c, i, "ensure") /\ UNCHANGED row
     \/ /\ i \notin source
        /\ Report(c, i, SourceRequiredRow(row[i])) /\ UNCHANGED source
  /\ UNCHANGED <<job, recoveries, phase, consumed, histories>>

\* AddGatewaySource and WakeGatewayJob.
EnsuredJob(j) == IF j = "Absent" THEN "Queued" ELSE j

EnsureJob(c, i) ==
  /\ step[c][i] = "ensure"
  /\ job' = [job EXCEPT ![releaseOf[i]] = EnsuredJob(@)]
  /\ Goto(c, i, "ready")
  /\ UNCHANGED <<row, source, recoveries, phase, consumed, histories>>

\* resolveRearmTorrent, SaveTorrentMetadata or Ensure returns an error.
RearmError(c, i) ==
  /\ step[c][i] \in {"resolve", "ensure"}
  /\ Report(c, i, FailedRow(row[i]))
  /\ UNCHANGED <<source, job, recoveries, phase, consumed, histories>>

\* rearmReady; the look it takes at the path of a completed job is one of
\* those at "probe".
CheckReady(c, i) ==
  /\ step[c][i] = "ready"
  /\ CASE job[releaseOf[i]] \in {"Failed", "Unknown"} ->
            Report(c, i, SourceRequiredRow(row[i]))
       [] job[releaseOf[i]] = "Completed" -> Goto(c, i, "probe") /\ UNCHANGED row
       [] OTHER -> Report(c, i, WaitingRow(row[i]))
  /\ UNCHANGED <<source, job, recoveries, phase, consumed, histories>>

\* The job could not be read: waitAfterStatusError.
StatusError(c, i) ==
  /\ step[c][i] = "ready"
  /\ Report(c, i, WaitingRow(row[i]))
  /\ UNCHANGED <<source, job, recoveries, phase, consumed, histories>>

PathReadable(c, i) ==
  /\ step[c][i] = "probe"
  /\ Report(c, i, AvailableRow(row[i]))
  /\ UNCHANGED <<source, job, recoveries, phase, consumed, histories>>

PathNotReadable(c, i) ==
  /\ step[c][i] = "probe"
  /\ Report(c, i, WaitingRow(row[i]))
  /\ UNCHANGED <<source, job, recoveries, phase, consumed, histories>>

\* A row deleted meanwhile takes no verdict; Ensure may still be under way.
FinishOrphan(c, i) ==
  /\ step[c][i] \in {"orphan", "orphanEnsure"}
  /\ Goto(c, i, "none")
  /\ \/ UNCHANGED job
     \/ step[c][i] = "orphanEnsure"
        /\ job' = [job EXCEPT ![releaseOf[i]] = EnsuredJob(@)]
  /\ UNCHANGED <<row, source, recoveries, phase, consumed, histories>>

\* The statement that writes the verdict fails: it is logged, never repeated.
LoseVerdict(c, i) ==
  /\ Handles(c, i)
  /\ Goto(c, i, "none")
  /\ abandoned' = abandoned \cup ({i} \cap Rearming)
  /\ UNCHANGED <<tables, phase, unseen>>

\* A replica stops and starts again.
Restart(c) ==
  /\ ~PassOver(c)
  /\ step' = [step EXCEPT ![c] = [i \in Item |-> "none"]]
  /\ phase' = [phase EXCEPT ![c] = "rearm"]
  /\ abandoned' = abandoned \cup {i \in Rearming : Handles(c, i)}
  /\ UNCHANGED <<tables, unseen>>

--------------------------------------------------------------------------------
\* Requests.

Changed(S, Change(_)) ==
  [i \in Item |-> IF i \in S THEN Change(row[i]) ELSE row[i]]

\* One statement over the items of S; what it queues waits for a claim.
Request(S, new) ==
  /\ row' = new
  /\ row' # row
  /\ unseen' = unseen \cup {i \in S : row'[i].requested /\ row'[i].state \in Settled}
  /\ UNCHANGED <<source, job, recoveries, consumed, workers, abandoned>>

ForceRequest(i) == i \in Forced /\ Request({i}, Changed({i}, ForceRow))
AskRequest(i)   == i \in Asked /\ Request({i}, Changed({i}, AskRow))
Playback(i)     == i \in Asked /\ Request({i}, Changed({i}, PlayRow))
QueueFullRearm  == Bulk /\ Request(Item, Changed(Item, FullRearmRow))
RetryFailed     == Bulk /\ \E S \in SUBSET Item : Request(S, Changed(S, RetryRow))

\* Rows RequestSeerrTV takes for request q, and the releases already in hand.
Candidates(q) ==
  {i \in scope[q] \cap source :
     row[i].state \in Settled /\ ~row[i].requested /\ row[i].imported}

Active(r) ==
  \E i \in Item : /\ releaseOf[i] = r /\ row[i].requested
                  /\ row[i].state \in {"Archived", "Rearming", "Waiting"}

\* One candidate per release: the lowest id, which says nothing of the item.
Firsts(S) ==
  {F \in SUBSET S : \A i \in S : \E j \in F :
     {k \in F : releaseOf[k] = releaseOf[i]} = {j}}

RequestSeerrTV(q) ==
  /\ q \notin consumed
  /\ \E F \in Firsts(Candidates(q)) :
       row' = [i \in Item |->
                 IF i \notin Candidates(q) THEN row[i]
                 ELSE IF i \in F /\ ~Active(releaseOf[i]) THEN QueuedForRearm(row[i])
                 ELSE [QueuedForRearm(row[i]) EXCEPT !.state = "Waiting"]]
  /\ unseen' = unseen \cup Candidates(q)
  /\ consumed' = consumed \cup {q}
  /\ UNCHANGED <<source, job, recoveries, workers, abandoned>>

--------------------------------------------------------------------------------
\* Radarr and Sonarr, the library, and time.

Observe(i, r) ==
  /\ row[i] # r /\ row' = [row EXCEPT ![i] = r]
  /\ UNCHANGED <<job, recoveries, consumed, workers, histories>>

Track(i)  == Observe(i, TrackedRow(row[i])) /\ UNCHANGED source
Import(i) == Observe(i, ImportedRow(row[i])) /\ UNCHANGED source

\* LinkGrabSourceForItem: the grab's source is the release's.
LinkSource(i) ==
  /\ row[i].imported /\ i \notin source /\ job[releaseOf[i]] # "Absent"
  /\ source' = source \cup {i}
  /\ UNCHANGED <<row, job, recoveries, consumed, workers, histories>>

FlagMissing(i) ==
  i \notin source /\ Observe(i, FlaggedRow(row[i])) /\ UNCHANGED source

\* The row goes, and by foreign key its source; an inventory pass keeps a
\* placeholder, a webhook does not.
Delete(i) ==
  /\ i \in Deletable /\ row[i].state # "Absent"
  /\ row' = [row EXCEPT ![i] = NoMediaRow]
  /\ source' = source \ {i}
  /\ step' = [c \in Controller |-> [step[c] EXCEPT ![i] =
                 CASE @ = "none" -> @ [] @ = "ensure" -> "orphanEnsure"
                   [] OTHER -> "orphan"]]
  /\ unseen' = unseen \ {i} /\ abandoned' = abandoned \ {i}
  /\ UNCHANGED <<job, recoveries, phase, consumed>>

\* next_retry_at passes.
RetryDue(i) ==
  /\ ~row[i].due
  /\ row' = [row EXCEPT ![i].due = TRUE]
  /\ UNCHANGED <<source, job, recoveries, consumed, workers, histories>>

--------------------------------------------------------------------------------
\* The gateway, as far as a media row depends on it.

JobMoves(r, from, to) ==
  /\ job[r] \in from /\ job' = [job EXCEPT ![r] = to]
  /\ UNCHANGED <<row, source, consumed, workers, histories>>

\* An Arr client submits the release.
GrabRelease(r) == JobMoves(r, {"Absent"}, "Queued") /\ UNCHANGED recoveries

JobSubmitted(r) ==
  \/ JobMoves(r, {"Queued"}, "Working") /\ UNCHANGED recoveries
  \/ JobMoves(r, {"Queued"}, "Unknown") /\ UNCHANGED recoveries
JobAdopted(r) == JobMoves(r, {"Unknown"}, "Working") /\ UNCHANGED recoveries
JobFinishes(r) == JobMoves(r, {"Working"}, "Completed") /\ UNCHANGED recoveries

\* A poll that read Mounting lists the files in another order and writes that
\* over the completion it was overtaken by.
JobRelisted(r) == JobMoves(r, {"Completed"}, "Working") /\ UNCHANGED recoveries
JobFails(r) ==
  JobMoves(r, {"Queued", "Working", "Completed", "Missing"}, "Failed") /\ UNCHANGED recoveries
PlacementLost(r)  == JobMoves(r, {"Working", "Completed"}, "Missing") /\ UNCHANGED recoveries
PlacementFound(r) == JobMoves(r, {"Missing"}, "Working") /\ UNCHANGED recoveries

RecoveryLimit(r) ==
  recoveries[r] = MaxRecoveries /\ JobMoves(r, {"Missing"}, "Failed") /\ UNCHANGED recoveries

\* Mutation of WarnRelated: the limit is not looked at.
WarnRelatedAlways(r) ==
  /\ job[r] = "Missing"
  /\ job' = [job EXCEPT ![r] = "Warned"]
  /\ row' = Changed({i \in source : releaseOf[i] = r}, RecoveryRow)
  /\ UNCHANGED <<source, recoveries, consumed, workers, histories>>

\* GatewayRecoveryWaiting, which takes only rows that have a saved source.
WarnRelated(r) ==
  /\ job[r] = "Missing" /\ recoveries[r] < MaxRecoveries
  /\ job' = [job EXCEPT ![r] = "Warned"]
  /\ row' = Changed({i \in source : releaseOf[i] = r}, RecoveryRow)
  /\ UNCHANGED <<source, recoveries, consumed, workers, histories>>

Requeue(r) ==
  /\ JobMoves(r, {"Warned"}, "Queued")
  /\ recoveries' = [recoveries EXCEPT ![r] = @ + 1]

\* The worker stops between the two updates.
RecoveryInterrupted(r) == JobMoves(r, {"Warned"}, "Missing") /\ UNCHANGED recoveries

--------------------------------------------------------------------------------
GoesOn(c, i) ==
  \/ SkipIncomplete(c, i) \/ MarkRearming(c, i)
  \/ ResolveSource(c, i) \/ EnsureJob(c, i) \/ CheckReady(c, i)
  \/ PathReadable(c, i) \/ FinishOrphan(c, i)

Handle(c, i) ==
  GoesOn(c, i) \/ RearmError(c, i) \/ StatusError(c, i) \/ PathNotReadable(c, i)

Control(c) ==
  \/ RearmWorkItems(c) \/ VisibilityWorkItems(c) \/ Restart(c)
  \/ \E i \in Item : Handle(c, i) \/ LoseVerdict(c, i)

Clients ==
  \/ QueueFullRearm \/ RetryFailed
  \/ \E q \in SeerrRequest : RequestSeerrTV(q)
  \/ \E i \in Item : ForceRequest(i) \/ AskRequest(i) \/ Playback(i)

Library ==
  \E i \in Item : \/ Track(i) \/ Import(i) \/ LinkSource(i) \/ FlagMissing(i)
                  \/ Delete(i) \/ RetryDue(i)

JobSettles(r) ==
  JobSubmitted(r) \/ JobFinishes(r) \/ PlacementFound(r)
    \/ RecoveryLimit(r) \/ WarnRelated(r) \/ Requeue(r)

Gateway ==
  \E r \in Release : \/ GrabRelease(r) \/ JobSettles(r) \/ JobAdopted(r) \/ JobFails(r)
                     \/ JobRelisted(r) \/ PlacementLost(r) \/ RecoveryInterrupted(r)

Next == (\E c \in Controller : Control(c)) \/ Clients \/ Library \/ Gateway

Spec == Init /\ [][Next]_vars

\* The claims are ordered by updated_at, which every claim moves, so a row
\* that stays due has its turn.
TakesRearm(c, i)      == RearmWorkItems(c) /\ step'[c][i] # "none"
TakesVisibility(c, i) == VisibilityWorkItems(c) /\ step'[c][i] # "none"

\* A pass goes on while its process runs, and the gateway works on its jobs.
Fairness ==
  /\ \A c \in Controller :
       /\ WF_vars(RearmWorkItems(c) \/ VisibilityWorkItems(c))
       /\ \A i \in Item :
            /\ WF_vars(Handle(c, i))
            /\ SF_vars(TakesRearm(c, i)) /\ SF_vars(TakesVisibility(c, i))
  /\ \A i \in Item : WF_vars(RetryDue(i))
  /\ \A r \in Release : WF_vars(JobSettles(r))

FairSpec == Spec /\ Fairness

--------------------------------------------------------------------------------
\* An open request is in a state that one of the two claims looks for, in the
\* hands of a handler, out of retries, or was dropped by a handler that died
\* or could not write its verdict; and no row without a request is left in a
\* state that only a request leads out of (RearmWorkItems,
\* VisibilityWorkItems, the Mark statements, GatewayRecoveryWaiting).
OpenRequestsReachable ==
  \A i \in Item :
    IF row[i].requested
    THEN \/ row[i].imported /\ row[i].state \in {"Waiting", "Failed"}
         \/ /\ row[i].imported /\ row[i].state \in {"Archived", "Broken"}
            /\ row[i].retries < MaxRetries
         \/ row[i].state = "Rearming" /\ (Held(i) \/ i \in abandoned)
    ELSE row[i].state \notin {"Rearming", "Waiting", "Broken"}

\* A request that asks only for settled rows is not answered by work that
\* began before it: between the request and the write that closes it, a
\* claim took the row (RequestRearmByArrIDIfArchived,
\* MarkPlaybackRearmRequested, QueueFullRearm, RequestSeerrTV).
GuardedRequestsKept ==
  [][\A i \in Item \ Forced :
       row[i].requested /\ ~row'[i].requested /\ row'[i].state # "Absent"
         => i \notin unseen]_vars

\* What a run of bad luck could repeat for ever.
Trouble ==
  \/ \E r \in Release : PlacementLost(r) \/ RecoveryInterrupted(r) \/ JobRelisted(r)
  \/ /\ \E c \in Controller :
          \/ Restart(c)
          \/ \E i \in Item : \/ RearmError(c, i) \/ StatusError(c, i)
                            \/ PathNotReadable(c, i) \/ LoseVerdict(c, i)
     /\ ~\E c \in Controller, i \in Item : GoesOn(c, i)

\* Once the provider loses no more placements and lists the files of one in the
\* same order each time, what is completed is readable, the replicas stay up
\* and their statements succeed, a request ends: the item
\* is available or its source is gone, unless its retries are spent, its
\* handler died, or it waits for a job that nobody has created.  The two
\* passes between them leave no due row out (reconcileVisibility,
\* reconcileRearms, the Mark statements' next_retry_at).
RequestServed ==
  <>[][~Trouble]_vars =>
    \A i \in Item :
      row[i].requested ~>
        \/ ~row[i].requested \/ row[i].state = "Failed"
        \/ row[i].state = "Rearming" /\ i \in abandoned
        \/ row[i].state = "Waiting" /\ job[releaseOf[i]] = "Absent"

\* With TV requests alone, at most one item of a release is on its way to
\* being submitted; the others wait for it (RequestSeerrTV).
OnePrimary ==
  \A r \in Release :
    Cardinality({i \in Item : /\ releaseOf[i] = r /\ row[i].requested
                             /\ row[i].state \in {"Archived", "Rearming", "Broken"}}) <= 1
================================================================================
