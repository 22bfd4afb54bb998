# Rehydrator in TLA+

A verification development of the rehydrator: a controller that brings back
media whose payload left the TorBox cache, and a gateway that poses as a
download client (qBittorrent, SABnzbd) for Radarr and Sonarr, submits what they
grab to TorBox, and stages symbolic links to the mounted payload. All state that
matters is in PostgreSQL; several processes (controller, gateway, replicas of
them, HTTP handlers) change the same rows, one SQL statement at a time.

Every definition names the code it stands for in `PROJECT.json` ("map").
`runs` there are the TLC configurations, `theorems` the results TLAPS checks,
`hazards` the places in the code the properties are aimed at.

## Inventory

| Component | State | Operations | Hard behaviour | What makes it correct | Module |
|---|---|---|---|---|---|
| Gateway provider worker (`gateway/service.go` Run, Reconcile; `db/gateway_jobs.go`, `db/gateway.go`) | `gateway_jobs` rows: state, attempts, missing_count, provider_id, files, next_check_at; the submission gate | claim, list the account, upload, defer, poll, write back, look up an unknown outcome, wake, add | lost responses, crashes between claim and write, write-back of stale copies, replicas, leases | never more uploads than attempts, no blind retry, one live copy, one submission at a time, no outcome stays open | `GatewayRows`, `GatewayWorker` |
| Mount verification and staging (`gateway/service.go` ReconcileMount, verifyMount, createLinks, removeStagedLinks; `db/gateway_mount.go`, `db/gateway_release_folder.go`) | the same rows: state, catalog_revision, release_folder, hidden, cleanup_requested, verify_next_at; links on disk | claim, pin, stage a link, probe, finish, remove a link, finish cleanup; hide, clean up, add again | verification racing provider polls and clients, partial staging, repeated passes | completed means verified and staged; a cleanup leaves nothing; both come to an end | `GatewayMount` |
| Media life cycle controller (`controller/*.go`, `db/repo.go`) | `media_cache_state` rows: state, rearm_requested, retry_count, next_retry_at, torrent and path columns; saved sources | work claims, rearm, visibility checks, rearm requests, retries, playback, inventory, deletion | unconditional Mark statements racing requests, claims without leases, crashes between claim and Mark | no request is lost, nothing stays in a state no query selects, every request ends | `MediaRows`, `MediaLifecycle` |
| Grab sources (`controller/grab.go`, `db/grab_sources.go`, `controller/rearm.go`) | captured grabs, imports, the source a row and its saved torrent name | record a grab, record an import, capture what is pending, link, scan, pick a source to restore | webhooks in any order, more than once or never; rows that cannot be captured; a rearm while a capture is pending | the source of the file that is there wins; what the gateway holds is captured; no rearm waits for a capture for good | `GrabSources` |
| Movies: Radarr syncer, Seerr poll and webhook, playback (`syncer/radarr.go`, `syncer/seerr.go`, `db/repo.go`, `health/server.go`) | the rows of a movie: placeholder, tracked, imported, pruned; recorded request keys | scan, webhook, request, play | scans, polls and webhooks overlap and break off; a listing is old when it is used to prune | one rearm per request, rearms only of rows with a file, the rows come to agree with Radarr | `MovieIntake` |
| Seerr TV requests (`db/seerr_tv.go`) | requests of seasons, primaries and siblings | request a season | a row that has failed and waits is not seen as active | one primary for a release | `RequestSeerrTV` in `MediaLifecycle` |
| Episodes: Sonarr syncer (`syncer/sonarr.go`) | the rows of episode files; running flag and debounces | full scan, single calls, store, prune | shows are listed at different times; listings fail; calls are dropped | nothing Sonarr has is pruned; the rows come to agree with Sonarr | `EpisodeIntake` |
| Jellyfin refresh and inventory (`controller/controller.go`, `jellyfin_inventory.go`) | in-memory reservations, recorded successes, inventory cooldown | reserve, check, wait, refresh, record, self-heal, inventory pass | a reservation seen by a caller and then given up; a success that is not recorded; a cooldown spent by a failed pass | no event is left without a scan, none is doubled | `JellyfinRefresh` |
| Read probes (`csi/probe.go`) | active paths, slots | check, time out, late return | a read that never returns keeps its slot | a path has one read, slots and reads agree | `ReadProbe` |
| TorBox client (`torbox/`) | none of its own; the account is external | submit, create, get, look up, list | the list changes while it is read; short and repeated pages | absence only from a complete listing | `AccountListing`; its outcomes in `GatewayWorker` |
| WebDAV server (`gateway/dav.go`) | delivery-link cache and its mutex | take a link, make one, deliver, drop, try again | the mutex is held over a provider call; links are revoked | no request ends on a link from the cache; the mutex is passed on | `DeliveryLinks` |
| Missing files (`controller/arr_missing.go`, `arr/missing_file.go`, `db/jellyfin_inventory.go`) | flags, reports; files in Arr | flag, probe, confirm, delete, verify, report | a file that is replaced between the check and the deletion; an outage of the mount | only what was read as missing is deleted; what is lost is removed | `MissingFiles` |
| Client APIs (`gateway/qbit.go`, `sab.go`, `dashboard*.go`) | the rows above | add, delete, reconcile, rearm | a client acting during a pass | through the modules above | their row changes in `GatewayWorker`, `GatewayMount` |
| Login, source validation, rclone and HTTP clients, web UI, configuration | | | | | see Not modelled |

How they interact. The client APIs, the provider worker and the mount worker
meet in the `gateway_jobs` rows. The provider worker owns state up to Mounting; the
mount worker owns Mounting to Completed and the links; clients own hidden and
cleanup_requested and may make a row due. In the split roles, which the example
deployment has and the modules describe, none of them calls another. In the combined
role there is no mount worker: a provider pass that has published a list reads the row
again and calls `verifyMount` itself (`service.go:243-248`), and a deletion removes the
links itself (`qbit.go:266-269`). To `GatewayWorker` that verification is one of the
moments at which `FinishGatewayMount` may come; `GatewayMount` has the split roles only.
The controller asks for releases through `Service.Ensure`, which adds or wakes
a gateway job, and watches the result as a file that becomes readable. The
intake (scans, polls, webhooks) decides which media rows there are and asks for
rearms by the statements `MediaLifecycle` also has as its environment; a rearm
takes its source from what `GrabSources` has linked to the row; what it brings
back is refreshed in Jellyfin, and a file that stays gone is flagged and removed
from Arr.

## Modules

| Module | What it is | Proofs |
|---|---|---|
| `GatewayRows` | one `gateway_jobs` row as the provider worker sees it, and each SQL statement as an operator from row to row | |
| `GatewayWorker` | the provider worker against those rows and the TorBox account; extends `GatewayRows` | `GatewayWorker_proofs`, `GatewaySole_proofs` (one worker) |
| `SubmissionLedger` | abstract: what the gateway promises of submissions; implemented by `GatewayWorker` | `GatewayLedger_proofs` |
| `ReleaseJobs` | abstract: what becomes of a release's job for who asked for it; implemented by `GatewayWorker` (one worker) and by `MediaLifecycle` | `GatewaySole_proofs`, `MediaLifecycle_proofs` |
| `GatewayMount` | the mount worker against the provider worker's writes and the clients | `GatewayMount_proofs` |
| `MediaRows` | one `media_cache_state` row and each SQL statement on it as an operator from row to row | |
| `MediaLifecycle` | the controller's passes and handlers against those rows, the requests, the library and the gateway's jobs; extends `MediaRows` | `MediaLifecycle_proofs` |
| `MovieIntake` | Radarr scans and webhooks, the Seerr poll and webhook, and playback, on the rows of one movie | `Intake_proofs` |
| `EpisodeIntake` | the Sonarr scan, its running flag and its debounces, against a Sonarr that changes | `Intake_proofs` |
| `GrabSources` | webhooks, the capture worker, the scan and the rearm that give one row its source | `Paths_proofs` |
| `JellyfinRefresh` | the refreshes of one path: tasks, self-heal, inventory | `JellyfinRefresh_proofs` |
| `MissingFiles` | flagging rows whose file is gone and removing the file from Arr | `Paths_proofs` |
| `ReadProbe` | the read probe's slots | `Paths_proofs` |
| `DeliveryLinks` | streaming through cached delivery links | `Paths_proofs` |
| `AccountListing` | the paged lookup of a torrent on the account | `Intake_proofs` |
| `Paths`, `Intake` | the parts that use the mount, and the parts of the intake: conjunctions of specifications that share no state | `Paths_proofs`, `Intake_proofs` |
| `MCGatewayWorker`, `MCGatewayMount`, `MCMediaLifecycle` | constants for TLC | |
| `MCPaths`, `MCIntake` | constants for TLC of `Paths` and `Intake`; a behaviour is one of the part in `focus` | |

### GatewayWorker

A `Worker` is a process that runs `Reconcile`. The code's pass is cut at each
database statement and each provider call; between two cuts anything else may
happen. `pc[w]` names the next one:

    idle -> lookup -> resolve                    (ClaimUnknownGatewayTorrent)
         -> claim -> preflight -> post -> write  (a submission; NZBs skip preflight)
                         `-> defer
                  -> poll -> write               (any other claimed job)

`copy[w]` is the Go value `j` of the pass: what was read when the row was
claimed and what the pass has made of it since. `UpdateGatewayJob` writes it
back whatever the row holds by then, as the code's `UPDATE ... WHERE id=$1`
does; its one condition is that a completed job refuses to be Mounting again with the
very list it holds. `provider[j]` lists what became of each placement of j: the one the
account held before (`OnAccount`), then one per upload. An upload whose answer
is lost, one that TorBox puts in its own queue, and one it refuses look the same
to the worker.

Time is counted in ticks. `wait` stands for `next_check_at`, `gate` for
`next_submit_at`, `budget` for what is left of the pass context. What the
properties need of the real delays is their order only: a pass (55 s) is shorter
than the submission interval (validated to be 60 s or more) and than the lease
(5 min); that is `WorkerConstants`. Polling delays count as no wait or as a
lease's.

A file list is an element of `Catalog`, and `Content` says which files, by name and
size, it holds. `sameCatalog` compares the content (`SameCatalog`), but the write-back
compares the lists themselves (`files=$5::jsonb`), with their order and file ids: a poll
that read Mounting, was overtaken by the verification and lists the same files in
another order puts the completed job back to Mounting. Crashes,
expired contexts and failed statements are one action, `Abandon`: nothing of the
pass is written any more. What the poll does to library items
(`GatewayRecoveryWaiting`) is `WarnRelated` of `MediaLifecycle`. `WakeGatewayJob`
stands for the three callers that make a job due.

`SubmissionLedger` keeps, per job, the attempts charged, the workers with an
attempt in hand, and the uploads. `GatewayWorker` implements it (`Ledger`,
`ImplementsLedger`) with `attempts` from the row, a worker in `reserved` from the
claim of a queued job until its upload or the end of that part of its pass, and
`uploads` from the placements. A claim of a queued job is a `Reserve`, an upload
an `Upload`, the deferral of a job that is still Submitting a `GiveBack`;
adoption, an unreadable source, an abandoned or expired pass and the deferral of
a job someone else has moved are a `Lose`; everything else stutters. It shows
that no step but these touches the accounts, which the row's `attempts` alone
does not, since many statements write that row.

`ReleaseJobs` is what the controller relies on: per release, the phase of its job and
how often it was submitted again. `GatewayWorker` implements it (`Jobs`,
`ImplementsReleaseJobs`) with Submitting as Queued, every state with a provider id on
the way to Completed as Working, and the row's attempts but the current submission's as
`recoveries`. A completed job may go back to Working without having been missing: that
is the reordered list above, after which the mount worker verifies the job again.
`MediaLifecycle` has the same jobs as its environment; that no move of
them is missing there, nor one too many, is proved (below).

TorBox may answer that a placement it still serves is absent (`FalseAbsence`),
but never `MissingThreshold` recorded polls in a row: that the third absence is
believed is what the code relies on, and a copy that is declared lost by three
false answers would be uploaded again.

### GatewayMount

A `Mounter` runs `ReconcileMount`, cut at each statement and each link. The
columns the mount worker does not tell apart are one value: every provider state
but Mounting and Completed is `Away`. The provider worker appears as
`ObserveProvider` (it claims the job and copies the row) and `UpdateGatewayJob`
(it writes one of the `Outcomes` its `Reconcile` has for that copy, with the
same file list or with a reordered one), with any number of other steps in
between; there is at most one such pass for a job, as with one gateway process.
Clients hide a job, ask for its cleanup, or add its source again.

`against` and `publication` are history: how often the job has had to be
verified, and at which of these the mounter's copy was read. A published file
list never changes but in order (`CatalogStable` of `GatewayWorker`), so `File`
is fixed. A job that was completed by a version without release folders is in
`Legacy`. Links below the older download paths, and a foreign file where a link
should go, are left out: the first are not below the release folder, the second
ends the pass.

### MediaLifecycle

A `Controller` alternates the visibility pass and the rearm pass of `reconcile`.
A claim (`RearmWorkItems`, `VisibilityWorkItems`) takes up to `MaxRearmsPerRun`
due rows and starts a goroutine for each; the next claim waits for all of them
(`runItems`). `step[c][i]` names what the goroutine does next:

    start -> resolve -> ensure -> ready -> probe     (handleRearm)
                                  ready -> probe     (handleVisibility)
    pending                                          (metadata incomplete)

Each step may end the goroutine with a verdict, one of the Mark statements, which
write whatever the row holds by then. `rearmReady` looks at the path once before
`refreshRclone` and the later looks; all looks are one step, `probe`, whose answer
is the mount's and is free. A statement that fails is logged and not repeated
(`LoseVerdict`), and a process may restart at any point (`Restart`). When a row is
deleted, its handlers go on for nothing (`orphan`); a re-import has a new id.

The gateway is kept to what a media row depends on: the state of a release's one
job, and the two statements with which a confirmed loss wakes related imports and
queues the job (`WarnRelated`, `Requeue`), with a crash possible between them.
`recover_missing` is taken to be on. `recoveries` counts submissions after the
first. `JobRelisted` is the completed job that a reordered list puts back to work. A
rearm may find that the gateway holds no source for the row's identity, or cannot tell,
although a job for its release exists: then the row is FAILED until a source comes
(`SourceRequiredRow`).

`due` stands for `next_retry_at`, and an item is `Incomplete` while its row lacks
the IDs that `itemHasUsablePath` asks for. `unseen` and `abandoned` are history:
which items were asked for since their last claim, and which were left REARMING by
a handler that died.

A row that is REARMING when its handler dies is claimed by neither pass; only a
forced request moves it again. `OpenRequestsReachable` names these rows and shows
there is no other such state. In the same way `RequestServed` names the one state
in which a request waits for ever although nothing goes wrong any more: a sibling
of a TV request whose primary was deleted before it created the job.

### MovieIntake

One movie, which Radarr may remove and add again under a new id, and the rows it
has: one per id, and the placeholder a Seerr request makes before Radarr knows the
movie. A `Scan` is cut at its calls and statements (list, track, import, prune)
and nothing keeps two from overlapping: the timer, webhooks and playback start
them. An `Asker` is a run of the Seerr poll or a delivery of its webhook: look the
key up, record it, find the row, place it, rearm it. A `Viewer` matches a row and
asks for its rearm in a second statement. Any of them may break off after any
step. `RowMoves` is the controller of `MediaLifecycle`.

Three things are as the code leaves them, and no property says otherwise:
a poll that stops between recording a key and its rearm never does that rearm,
because a recorded key is not new; a placeholder may stay beside the row of the
movie it stood for; and the webhook rearms however often it is delivered.

### EpisodeIntake

Sonarr's scan lists the shows, then the files of one show after the other, stores each
file, and prunes at the end; `library` may change between any two calls. `running` and
the debounce are those of `SonarrSyncer`: a call that finds a scan running, or the
debounce not over, is dropped. A pass keeps what it has seen (`PassType`), and whether
all listings answered (`complete`). `PassBreaks` gives the flag back, as the deferred
call does, and a restart forgets flag and debounces.

### GrabSources

One media row, and the releases Arr may import for it. `waiting` is the pending
rows in the order of `next_retry_at`, so that a pass of the worker takes its first
`BatchSize`. Webhooks, worker, scan and rearm are cut at each statement and each
question to the gateway; each of them calls `Link` (`linkGrabSources`), one
transaction. `file` is what Arr has on disk; the scan reads where its link leads
(`Target`). A release in `InGateway` has its source in the gateway, though a
capture of it may fail; any other is never captured. A release in `Nzb` comes from
Usenet: for these `SaveTorrentMetadata`, called by rearms and scans, writes the
download id into the row as well (`Save`), an older release's too if that is what the
scan or the rearm has read.

### JellyfinRefresh

One path. A `Task` is a call of `scheduleJellyfinRefresh` with its goroutine:
reserved in memory, checked against the recorded successes, delayed, requested,
recorded. `reservedFor`, `eventAge`, `noteAge` and `claimFor` count ticks; ages
stop at the limit beyond which the code no longer tells them apart. `scanAge` is
history; a failed lookup, a lost record and a restart excuse the next scan. The
inventory pass takes its cooldown before it asks Jellyfin.

### MissingFiles and ReadProbe

The pass of `reconcileJellyfinInventory` and `reconcileArrMissing` over movies whose
torrent is missing, cut at each read of the mount, each statement and each call to Arr,
against a mount that goes down or hangs, files Arr replaces, and rows that other parts
move. A row is flagged by the inventory pass, which asks again for what it saw
(`Flaggable`), or by a rearm that found no source and asks for nothing
(`MarkSourceRecoveryRequired`, in `Rearmed`). A probe answers as `ReadProbe` does: from
the mount, or not at all. `ReadProbe` itself is the accounting of slots and paths in
`csi/probe.go`, with reads that outlive the check that started them.

### DeliveryLinks and AccountListing

`DeliveryLinks` numbers the links minted for a file; the provider refuses those up
to `revoked`. A reader waits for the mutex, takes the cached link or has one made
with the mutex held, and tries a second time with a new one when the first is
refused. Asking the delivery server and copying the file are one step, which may never
come: nothing bounds it.

`AccountListing` is `LookupTorrent` over pages of an account that grows, shrinks
and changes while it is read. An offset moves by what a page held. Short pages and
a server that ignores the offset are choices of the environment; the answer
"absent" needs an empty page.

## Runs

| Run | Instance | Shows |
|---|---|---|
| `sole` | `GatewayWorker`: 1 worker, an NZB or a torrent the account had before, 3 file lists of which two hold the same files, 3 attempts, 3 confirmations, with fairness | `LeaseOutlivesPass`, `AtMostOneLiveCopy`, `NoBlindRetry`, `CatalogStable`, `ImplementsReleaseJobs`, `SubmittingSettles`, `UnknownFirstUploadAdopted` |
| `replicas` | 2 workers, a torrent through loss and recovery, or a torrent and an NZB through their first submissions | `TypeOK`, `UploadBudget`, `OneSubmissionInFlight`, `ImplementsLedger` |
| `replicas_retry` | 2 workers, 1 NZB | violates `NoBlindRetry` (finding 1) |
| `unknown_adopted` | 1 worker, 1 torrent | violates `UnknownUploadAdopted` (finding 2) |
| `mount` | `GatewayMount`, `ReadProbe`, `MissingFiles`, `GrabSources` or `DeliveryLinks`, with fairness | the properties of these modules but those below |
| `mount_legacy` | `GatewayMount` with a job completed before release folders | violates `CompletedAsVerified` (finding 3) |
| `mount_readded` | `GatewayMount` | violates `VisibleRestaged` (finding 4) |
| `media` | `MediaLifecycle`: 1 controller, 2 items of one release, 1 TV request, with fairness | `TypeOK`, `OpenRequestsReachable`, `GuardedRequestsKept`, `RequestServed` |
| `media_seerr` | `MediaLifecycle` with 2 TV requests only | violates `OnePrimary` (finding 5) |
| `intake` | `MovieIntake`, `EpisodeIntake`, `JellyfinRefresh` or `AccountListing`, with fairness | the properties of these modules |
| `source_restored` | `GrabSources`: 2 releases in the gateway, 1 webhook | violates `NoOlderRestored` (finding 6) |
| `outage` | `MissingFiles`: 1 movie, 1 file | violates `OutageSparesFiles` (finding 7) |

What `mount` and `intake` check, by part:

| Part | Properties |
|---|---|
| `GatewayMount` | `StagedBeforeCompleted`, `CompletedAsVerified`, `CleanupLeavesNothing`, `MountingSettles`, `CleanupSettles` |
| `ReadProbe` | `ProbeBounded` |
| `MissingFiles` | `ReplacementSpared`, `LostRemoved` |
| `GrabSources` | `CapturesHappen`, `RearmsUnblocked`, `SourceSettles` |
| `DeliveryLinks` | `OnlyNewLinksRefused`, `WaitersServed` |
| `MovieIntake` | `PollRearmsOnce`, `RearmsHaveFiles`, `LibraryConverges` |
| `EpisodeIntake` | `PruneOnlyGone`, `EpisodesConverge` |
| `JellyfinRefresh` | `ScansSpaced`, `EventsNoted`, `MissingIndexed` |
| `AccountListing` | `AbsenceIsReal` |
| all of them | `PathsTypesOK` (run `mount`), `IntakeTypesOK` (run `intake`) |

The parts of such a run share no state. A behaviour is one of the part that
`focus` names, under that part's fairness (`MCFairness`), while the others keep
their initial states; checking them together is checking each.

Bounds.

- `sole`: three attempts and three confirmations are the code's own numbers. Jobs
  share only the gate and the claim, so one job shows everything but the gate;
  `chosen` is the one. Three file lists let a placement come back with the list it had,
  with its files in another order (`c1`, `c1r`) and with other files (`c2`); the list
  published first is `c1` (`FirstListing`), because one of the other two would not lead
  to anything else.
- `replicas`: two attempts and two confirmations still have a first submission, a
  recovery and an absence that does not confirm. The gate needs two jobs; there
  each has its first submission only (`FirstSubmissions`), because what follows it
  does not depend on the other job. Workers are symmetric.
- A pass of one tick and a lease and a gate of two let a pass end before, at and
  after any wake-up and let a crashed pass's lease run out. The number of uploads
  is bounded by `MaxAttempts`.
- `GatewayMount`: two links let a pass stop half-way. `MaxRevision` bounds
  `catalog_revision`; at the bound only provider writes that keep the revision are
  left. Four revisions are a publication, the pin, a loss and a second publication.
- `MediaLifecycle`: two items of one release are a primary and a sibling; a claim of
  one row makes them compete for it; two retries are a failure that is tried again
  and one that is not; one recovery is a loss that is made good and one that is not.
  One item is requested by name, by a TV request and by the bulk operations, lacks
  metadata and may be deleted; the other is requested by force.
- `MovieIntake`: the movie is added twice, so that a listing, a webhook or a row can
  be of the one that was removed. `LibraryOnly` has two scans and one request;
  `RequestsOnly` has one scan, one addition, a viewer, and two polls and a webhook of
  which any two overlap. Each pair of callers meets in one of them.
- `EpisodeIntake`: two shows, so that one can be listed before and one after a
  change, and one can fail; a file each. The timer and a webhook compete for one scan.
- `GrabSources`: two releases at one path are an older and a newer import; one of
  them the gateway does not hold and is never captured, so a batch of one can be
  taken up by it. Two imports and one webhook at a time; a webhook and a rearm do
  not overlap in this run (`SourcesOnly`), but both overlap worker and scan. Both
  releases are torrents (`Nzb` is empty): with a Usenet release the instance is too
  large for this run.
- `JellyfinRefresh`: two tasks are a reserved one and one that comes too late. A
  window of three ticks is just longer than a delay and a request of one each, as
  `RefreshConstants` asks; the self-heal window fits two of its passes and a window.
- `MissingFiles`: one movie whose file is imported three times, so that it can be
  replaced between any two steps. `ReadProbe`: three checks and paths for two slots.
  `DeliveryLinks`: two readers of a file and three links, so that the second attempt's
  link can be revoked too. `AccountListing`: three entries, two of them wanted, pages
  of two and three pages: an account of exactly a page, of more, and of none.

Fairness. `Service.Run` starts a pass every 15 seconds for as long as the process
lives, and so does the mount worker; a restarted process goes on. Hence weak
fairness of a worker's own steps, strong fairness of the claims (a due row is
the oldest some time) and of the steps that another outcome could pre-empt
forever, and fairness of the clock. For the mount worker a pass on a job that is
tried forever is not given up every time (`PassEnds`): the mount comes back and
the links can be made some time. Clients, TorBox and the controller are assumed
to do nothing. In `MediaLifecycle` a pass goes on while its process lives and a row
that stays due is claimed some time, because claims take the oldest `updated_at`
and move it; the gateway works on its jobs and TorBox finishes or fails them.

Scans, capture, self-heal and inventory passes run from tickers, so each goes on
and starts again; a Sonarr scan that the timer keeps asking for finds the debounce
over some time (`SF` of `ScanStarts`). A release the gateway holds is not failed by
every one of infinitely many captures. The TorBox client has a time limit (45 s), so a
provider call under the link cache's mutex returns, and Go's mutex passes to a waiter
within a bounded time (`SF` of `TakeLink`). Nothing is assumed of the delivery server:
`streamHTTPClient` bounds only the wait for its headers, so connecting and copying the
body may last for ever, and `WaitersServed` speaks of the wait for a link alone. A read
probe has no fairness at all: a read may hang for good.

`RequestServed`, `CapturesHappen`, `RearmsUnblocked`, `SourceSettles`, `LibraryConverges`,
`EpisodesConverge`, `EventsNoted`, `MissingIndexed` and `LostRemoved` are
conditional. Their premise, `<>[][~Trouble]_vars`, says that from some point on
calls and statements do not fail, processes do not restart, and the outside world
(or the clients the property names) stays as it is; a step counts as trouble only
when no regular step of the code makes the same transition.

## What is proved

TLAPS checks these for any finite number of workers, mounters, readers, tasks or
scans, any jobs, files and catalogs, and any limits, from the assumptions the
modules name (`RowConstants`, `WorkerConstants`, `MountConstants`,
`RefreshConstants`, ...) alone, unless a condition is given.

Gateway.

- `TypeCorrect`, `MountTypeCorrect`: the type invariants. That attempts stay
  within `MaxAttempts` needs the sweep that fails exhausted jobs before a claim.
- `SubmissionsExclusive` (`OneSubmissionInFlight`): by itself not inductive. A
  worker that may still upload has no more budget than the gate has ticks to go,
  and less than the interval minus what has passed; so when the gate opens, no
  earlier submission can still be running.
- `BudgetRespected` (`UploadBudget`), `UploadsBounded`: uploads and the attempts
  reserved by workers on their way to one never exceed the row's attempts. The
  step that needs care is the refund: a deferred submission gives back the
  attempt its own reservation stood for, and no stale write touches `attempts`.
- `LedgerImplemented` (`ImplementsLedger`): every step of any number of replicas is
  one of the ledger's or a stutter. That a refund leaves the row something to take back
  is `UploadBudget`.
- `LeaseHolds` (`LeaseOutlivesPass`), for one worker: a row's lease runs out
  later than the pass that claimed it, and while the pass may upload nothing else
  (a wake-up, a verification) touches a Submitting row.
- `RetriesInformed` (`NoBlindRetry`), `CopiesSingle` (`AtMostOneLiveCopy`), for one
  worker (`SoleWorker`). Both follow from one invariant, `SoleInv`. Of a job it says
  that nothing is live twice and that a torrent the account had before is gone
  before anything is uploaded (`PlacedOk`); that between submissions only the
  placement the row names can be live, that its counted absences are no more than
  the false ones unless that placement is dead, and that every upload but the last
  is on record (`Good`). Of a pass it says what its copy and its step know of the job
  (`PassGood`). With two workers the last is what fails: the row may have moved.
- `CatalogsKept` (`CatalogStable`), for one worker: a pass carries the files the row
  publishes, and `sameCatalog` sends a list of others away.
- `JobsImplemented` (`ImplementsReleaseJobs`), for one worker and `MissingThreshold`
  above one (the code has 3), from `JobsInv` and `SoleInv`: a pass's copy differs from
  its row by nothing but a completion by the mount worker meanwhile, so that what the
  poll makes of it and writes back is a move `ReleaseJobs` allows. The completed job that
  is Mounting again, with another order of its files, is one of these moves. With a
  threshold of one, a Mounting job whose placement is absent would be queued without ever
  being Missing. The model's placements do not go back from ready to active (`ProviderMove`); a
  completed job that TorBox took up again would go back to work too.
- `CompletionStaged` (`StagedBeforeCompleted`): strengthened by what each
  mounter has staged so far of the copy it holds, and by the fact that links of a
  job no client removed are never taken away. Without legacy jobs.
- `CompletionFenced` (`CompletedAsVerified`), without legacy jobs: the catalog
  revision a mounter's copy carries equals the row's only while the publication
  it was read at is the current one. Legacy jobs break exactly this, see
  finding 3.
- `CleanupComplete` (`CleanupLeavesNothing`), for one mounter: after a cleanup is
  done the job stays hidden until it is added again, a hidden copy has no links to
  make, and a cleanup finishes only after its last link is gone.
- `MountersOnlyComplete`, without legacy jobs: only the provider pass's own write and
  the completion of a Mounting job change a job's state. That is all `GatewayWorker`
  knows of mounters and clients (its `FinishGatewayMount`), so it knows enough. It fails
  with legacy jobs, which pinning moves back to Mounting.

Controller.

- `MediaTypeCorrect`: the type invariant, for any number of controllers.
- `OpenRequestsKept` (`OpenRequestsReachable`), `GuardedRequestsServed`
  (`GuardedRequestsKept`), for one controller (`SoleController`), from
  `RequestInv`: every row is sound (a request in it can be claimed by one of the two
  passes, or is being handled), a row in a handler's hands is requested, and a
  REARMING row is in some hands or abandoned. With two controllers the visibility
  pass of one can take a row the other has in hand, since it locks no longer than its
  statement.
- `RequestsHeardByAll`, for any number of controllers, is what of this survives them:
  an open request can be claimed, is in some hands, is out of retries or abandoned, and
  a WAITING row has a request. What does not survive is that only the request's own
  handler closes it, and that without a request no row is left BROKEN or REARMING. It rests
  on a weaker invariant (`HeardInv`): what a row in a handler's hands keeps
  is not its request but its file.
- `JobsAsPromised`, `PromiseCovered`: the gateway as `MediaLifecycle` has it keeps what
  `ReleaseJobs` promises, and every move the promise allows is one of its steps (that
  of a lost job in two, as the code has it). With `JobsImplemented` the
  two models meet: what is proved of media rows is proved against whatever the
  worker may do to a job, and no more than that.

Intake.

- `OneRearmPerRequest` (`PollRearmsOnce`): only the run that inserted the key has
  the right to act, and it loses it by acting.
- `RearmsReachFiles` (`RearmsHaveFiles`): a row that has a file keeps it for as
  long as it is there, so that a row a playback intent matched still has one, and a
  placeholder never gets one.
- `PrunesOnlyGone` (`PruneOnlyGone`): a complete pass has listed every
  show that has a file with a row, and has seen that file or has its show still to do;
  one scan runs at a time, so no other one adds rows meanwhile.
- `AbsencesReal` (`AbsenceIsReal`): as long as no entry is removed, a wanted one that
  has been usable since the lookup began keeps its position or moves to a later one, so
  it is at none that has been read: its page would have ended the lookup. An empty page
  leaves no position for one.
- `IntakeTyped` (`IntakeTypesOK`): the type invariants of the four parts, for their
  conjunction `IntakeSpec`.
- `ScansApart` (`ScansSpaced`): the reservation outlasts the one task that is active,
  and the recorded success is no older than the last scan unless a task is about to
  record it.

The release mount.

- `ProbesBounded` (`ProbeBounded`): what is active is what is read, and each is read
  once, so that a returning read frees its own path and slot.
- `FreshLinkOnRefusal` (`OnlyNewLinksRefused`): in its second attempt a reader holds a
  link made after it came, since it is made under the mutex and not taken from the cache.
- `ReplacementsSpared` (`ReplacementSpared`): the row in hand is the one that was
  listed, and the file Arr named is the one confirmed.
- `PathsTyped` (`PathsTypesOK`): the type invariants of the five parts, for their
  conjunction `PathsSpec`. That a row taken up is the one removed from the rows waiting
  needs that a set of positions has a least one, which is taken from the well-founded
  order of the naturals.

Model-checked only. The liveness properties, with their fairness; ENABLED and fairness
are beyond the prover: `SubmittingSettles`, `UnknownFirstUploadAdopted`,
`MountingSettles`, `CleanupSettles`, `RequestServed`, `CapturesHappen`,
`RearmsUnblocked`, `SourceSettles`, `LostRemoved`, `WaitersServed`, `LibraryConverges`,
`EpisodesConverge`, `EventsNoted` and `MissingIndexed`. Every invariant and every action
property that a passing run checks is stated by a theorem.

## Findings

1. `replicas_retry`. `gateway_jobs.go:67-68` promises that polling is bounded
   across replicas and that a lost response never authorizes a blind retry. A
   stale poll's write-back undoes another replica's unknown outcome. It needs two
   gateway replicas; the example deployment has one, and with one the property
   holds (run `sole`, theorem `RetriesInformed`).
2. `unknown_adopted`. `web/README.md:131-133` says scheduled reconciliation
   adopts unknown torrent submissions. Only first ones: a recovery keeps the old
   provider ID, and the lookup asks for rows without one.
3. `mount_legacy`. `gateway_mount.go:29-30` says that observation and verification
   never overwrite each other. For a job completed before release folders existed,
   a poll that read Completed writes it over the Mounting that pinning has set.
4. `mount_readded`. `nzb-gateway-setup.md:125-126` says a hidden job is restaged
   when it is made visible again. A hidden Completed job with a release folder
   never is.
5. `media_seerr`. `CHANGELOG.md:144` promises one primary submission per release
   for TV requests. A primary that failed once is BROKEN until its retry and is not
   counted as active, so a second season's request queues another. The gateway job
   is shared, so nothing is uploaded twice.
6. `source_restored`. `grab_sources.go:103` says that an older identity is not
   restored while the current import's capture is pending. `rearm.go` asks the
   gateway for the source the row had before it asks whether a capture is pending,
   so a rearm in that time restores the older release. The next scan that reads
   the link puts the row right.
7. `outage`. `arr_missing.go:13-14` says that the canary keeps an outage of the mount
   from looking like missing releases. It is read once, before the rows; an outage
   that begins after it, with the links dangling, has healthy files confirmed missing
   and removed from Arr.

With two mounters `CleanupLeavesNothing` fails too: a cleanup request makes the
job due at once, also while it is leased to the controller that is staging it
(`gateway_mount.go:36`), against what the comment at lines 8-9 says of the lease.
The other properties of `GatewayMount` hold with two mounters.

Two weaknesses no document denies, found on the way. `SourceRecoveryWorkItems`
takes the first flagged rows by id, and a flagged row whose file is present keeps
its place, so with as many of these as the limit later rows are never looked at;
`LostRemoved` speaks of the rows a pass looks at. And the Seerr poll loses a rearm
when it stops between recording a request and rearming it.

## Not modelled

- Dashboard login: each request is one critical section over an in-memory map of
  login states and sessions; what remains is cryptography and redirects.
- Source validation (magnets, torrent files, NZBs), release folder names, path
  mapping, failure texts, custom formats: pure functions of unbounded strings.
- HTTP decoding, routing, authentication and read-only endpoints of the servers and
  clients; rclone and HTTP helpers; the web UI; configuration parsing. Limits that
  are configured are constants, with what validation ensures as their assumptions.
- Statements and sweeps no code calls: those of `file_health.go`,
  `stale_pruning.go`, `archived_recovery.go` and, in `repo.go`, pruning, archiving,
  `SaveTorBoxTorrentID`, `ClaimProviderRetry` and `EnsureNZBJob`. Provider status
  records and events are written and read by no decision.
- The dashboard's rate limits and the qBittorrent session and category handling:
  in-memory, read by nothing else.
- Several controllers in `MediaLifecycle`'s run, whose properties are for one, which is
  what the example deployment runs; of several there is `RequestsHeardByAll`.

## Limits

Request and response bodies, names, paths and logging are abstracted. The database
is taken to execute each statement (and each transaction the code opens) atomically.
What recursive definitions compute for every input, liveness and ENABLED are out of
the prover's reach and are checked by TLC on bounded instances.
