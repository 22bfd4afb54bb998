-------------------------------- MODULE GrabSources --------------------------------
(***************************************************************************)
(* Which source one media row gets: Arr's Grab and import webhooks, late,  *)
(* again or never; the worker that captures what they left pending; the    *)
(* statement that links a row to its newest import (linkGrabSources); the  *)
(* scan, which reads the link on disk; and a rearm, which picks the source *)
(* it restores (resolveRearmTorrent).                                      *)
(*                                                                         *)
(* A release is its download id.  A torrent's source is known by its       *)
(* infohash, a Usenet one only by its download id.                         *)
(***************************************************************************)
EXTENDS Naturals, FiniteSets, Sequences, SequencesExt

CONSTANTS
  Download,
  Nzb,          \* the Usenet releases
  InGateway,    \* the releases sent to the gateway, which keeps their sources
  Path,
  None,
  WebhookCall,  \* webhooks that may be in progress at once
  MaxImports,   \* import webhooks that are delivered
  BatchSize     \* rows a pass of the worker captures (5 in the code)

ASSUME GrabConstants ==
  /\ Nzb \subseteq Download /\ InGateway \subseteq Download
  /\ None \notin Download \cup Path
  /\ MaxImports \in Nat /\ BatchSize \in Nat \ {0}

VARIABLES
  file,      \* Arr's file: where it is, and the release it is of
  grab,      \* rows of media_cache_grab_sources
  waiting,   \* rows to capture, in the order of next_retry_at
  recorded,  \* imports recorded so far
  media,     \* the media row
  saved,     \* the release of its row in media_cache_torrent_sources
  call,      \* webhooks in progress
  capturing, \* the worker: rows it still captures
  linkScan,  \* the scan
  rearm,     \* the rearm
  imported   \* history: what Arr has imported, <<release, path>>

grabVars == <<file, grab, waiting, recorded, media, saved, call, capturing,
              linkScan, rearm, imported>>
arrVars   == <<file, imported>>
rowVars   == <<grab, waiting, recorded>>
mediaVars == <<media, saved>>

Identity == Download \cup {None}
\* at: the order of the last import (imported_at), 0 for none.
GrabRow ==
  [exists : BOOLEAN, ready : BOOLEAN, paths : SUBSET Path, at : 0 .. MaxImports]
\* source: infohash and source_protocol; downloadId: source_download_id.
ItemRow == [path : Path \cup {None}, source : Identity, downloadId : Identity]

GrabTypeOK ==
  /\ file \in [path : Path \cup {None}, of : Identity]
  /\ grab \in [Download -> GrabRow]
  /\ waiting \in Seq(Download) /\ recorded \in 0 .. MaxImports
  /\ media \in ItemRow /\ saved \in Identity
  /\ call \in [WebhookCall -> [step : {"idle", "capture", "link"}, of : Identity]]
  /\ capturing \in [step : {"idle", "capture", "link"}, todo : Seq(Download)]
  /\ linkScan \in [step : {"idle", "store", "link", "lookup", "save"},
                   of : Path \cup Identity]
  /\ rearm \in [step : {"idle", "direct", "link", "pending", "read", "match", "save"},
                of : Identity]
  /\ imported \subseteq Download \X Path

At(step, of) == [step |-> step, of |-> of]
Idle == At("idle", None)
IdlePass == [step |-> "idle", todo |-> <<>>]

GrabInit ==
  /\ file = [path |-> None, of |-> None]
  /\ grab = [d \in Download |->
               [exists |-> FALSE, ready |-> FALSE, paths |-> {}, at |-> 0]]
  /\ waiting = <<>> /\ recorded = 0
  /\ media = [path |-> None, source |-> None, downloadId |-> None] /\ saved = None
  /\ call = [c \in WebhookCall |-> Idle]
  /\ capturing = IdlePass /\ linkScan = Idle /\ rearm = Idle
  /\ imported = {}

--------------------------------------------------------------------------------
\* Arr imports a release, often over the file of another.
ArrImports(d, p) ==
  /\ file.of # d /\ file' = [path |-> p, of |-> d]
  /\ imported' = imported \cup {<<d, p>>}
  /\ UNCHANGED <<rowVars, mediaVars, call, capturing, linkScan, rearm>>

--------------------------------------------------------------------------------
\* The statements on media_cache_grab_sources.

Pending(d) == grab[d].exists /\ ~grab[d].ready

\* A row that is new is waiting at once.
DueWith(d) == IF grab[d].exists THEN waiting ELSE Append(waiting, d)

\* CompleteGrabSource.
Complete(d) ==
  /\ Pending(d)
  /\ grab' = [grab EXCEPT ![d].ready = TRUE]
  /\ waiting' = RemoveFirst(waiting, d)

\* Mutation of Later: a capture that failed is waiting again at once, and first.
LaterAtOnce(d, rows) == <<d>> \o RemoveFirst(rows, d)

\* RetryGrabSource: the row is waiting again a minute later.
Later(d, rows) == RemoveFirst(rows, d)

RetryComes(d) ==
  /\ Pending(d) /\ d \notin ToSet(waiting)
  /\ waiting' = Append(waiting, d)
  /\ UNCHANGED <<arrVars, grab, recorded, mediaVars, call, capturing, linkScan, rearm>>

\* captureGrabSource: the gateway does not hold the source, or the capture
\* fails, or the row is completed, unless another call has.
Capture(d) ==
  /\ \/ d \in InGateway /\ Complete(d)
     \/ grab[d].ready /\ UNCHANGED <<grab, waiting>>
     \/ Pending(d) /\ waiting' = Later(d, waiting) /\ UNCHANGED grab
  /\ UNCHANGED recorded

\* The imports recorded for a path, pending or not.
ImportsAt(p) == {d \in Download : p \in grab[d].paths}

\* The release imported last to the path of the row, if any.
Newest == {d \in ImportsAt(media.path) :
             \A e \in ImportsAt(media.path) : grab[e].at <= grab[d].at}

\* The saved source is d's, as far as it is identified.
SavedIs(d) ==
  /\ saved # None
  /\ (d \in Nzb /\ saved \in Nzb) \/ saved = d

\* Mutation of Attachable: a row that has a source keeps it.
AttachableOnce(d) == grab[d].ready /\ media.source = None

\* A capture that is still pending attaches nothing, and nothing older either.
Attachable(d) == grab[d].ready /\ ~(media.downloadId = d /\ SavedIs(d))

\* linkGrabSources.
Link ==
  LET attach == {d \in Newest : Attachable(d)} IN
  \/ \E d \in attach :
       media' = [media EXCEPT !.source = d, !.downloadId = d] /\ saved' = d
  \/ attach = {} /\ UNCHANGED mediaVars

--------------------------------------------------------------------------------
\* Webhooks, which Arr may send again.  CaptureGrab: QueueGrabSource, capture,
\* link.  RecordGrabImport: record, link.

CallGoto(c, step, d) == call' = [call EXCEPT ![c] = At(step, d)]

GrabWebhook(c, d) ==
  /\ call[c].step = "idle"
  /\ grab' = [grab EXCEPT ![d].exists = TRUE]
  /\ waiting' = DueWith(d)
  /\ CallGoto(c, IF grab[d].ready THEN "link" ELSE "capture", d)
  /\ UNCHANGED <<arrVars, recorded, mediaVars, capturing, linkScan, rearm>>

\* RecordGrabImport: a redelivery counts as the newest import.
ImportWebhook(c, d, p) ==
  /\ call[c].step = "idle" /\ recorded < MaxImports
  /\ <<d, p>> \in imported
  /\ recorded' = recorded + 1
  /\ grab' = [grab EXCEPT ![d].exists = TRUE, ![d].paths = @ \cup {p},
                          ![d].at = recorded + 1]
  /\ waiting' = DueWith(d)
  /\ CallGoto(c, "link", d)
  /\ UNCHANGED <<arrVars, mediaVars, capturing, linkScan, rearm>>

CallCaptures(c) ==
  /\ call[c].step = "capture" /\ Capture(call[c].of)
  /\ CallGoto(c, "link", call[c].of)
  /\ UNCHANGED <<arrVars, mediaVars, capturing, linkScan, rearm>>

CallLinks(c) ==
  /\ call[c].step = "link" /\ Link
  /\ CallGoto(c, "idle", None)
  /\ UNCHANGED <<arrVars, rowVars, capturing, linkScan, rearm>>

\* Arr gives up waiting, or the process stops.
CallBreaks(c) ==
  /\ call[c].step # "idle" /\ CallGoto(c, "idle", None)
  /\ UNCHANGED <<arrVars, rowVars, mediaVars, capturing, linkScan, rearm>>

--------------------------------------------------------------------------------
\* reconcileGrabSources.

PassStarts ==
  /\ capturing.step = "idle"
  /\ LET size == IF Len(waiting) < BatchSize THEN Len(waiting) ELSE BatchSize IN
     capturing' = [step |-> IF size = 0 THEN "link" ELSE "capture",
                   todo |-> SubSeq(waiting, 1, size)]
  /\ UNCHANGED <<arrVars, rowVars, mediaVars, call, linkScan, rearm>>

PassCaptures ==
  /\ capturing.step = "capture" /\ Capture(Head(capturing.todo))
  /\ capturing' = [step |-> IF Len(capturing.todo) = 1 THEN "link" ELSE "capture",
              todo |-> Tail(capturing.todo)]
  /\ UNCHANGED <<arrVars, mediaVars, call, linkScan, rearm>>

PassLinks ==
  /\ capturing.step = "link" /\ Link /\ capturing' = IdlePass
  /\ UNCHANGED <<arrVars, rowVars, call, linkScan, rearm>>

CaptureBreaks ==
  /\ capturing.step # "idle" /\ capturing' = IdlePass
  /\ UNCHANGED <<arrVars, rowVars, mediaVars, call, linkScan, rearm>>

--------------------------------------------------------------------------------
\* SaveTorrentMetadata: a torrent leaves source_download_id as it is.
Save(d) ==
  /\ media' = [media EXCEPT !.source = d,
                            !.downloadId = IF d \in Nzb THEN d ELSE @]
  /\ saved' = d

\* RadarrSyncer.SyncOnce for the one row: list, UpsertImportedMovie,
\* LinkGrabSourceForItem, SourceForImport, SaveTorrentMetadata.
ScanLists ==
  /\ linkScan.step = "idle" /\ file.path # None
  /\ linkScan' = At("store", file.path)
  /\ UNCHANGED <<arrVars, rowVars, mediaVars, call, capturing, rearm>>

ScanStores ==
  /\ linkScan.step = "store"
  /\ media' = [media EXCEPT !.path = linkScan.of]
  /\ linkScan' = At("link", None)
  /\ UNCHANGED <<arrVars, rowVars, saved, call, capturing, rearm>>

ScanLinks ==
  /\ linkScan.step = "link" /\ Link
  /\ linkScan' = At("lookup", media.path)
  /\ UNCHANGED <<arrVars, rowVars, call, capturing, rearm>>

\* Mutation of Target: only what the row is linked to already is found.
TargetLinked(p) == IF file.of = media.downloadId THEN file.of ELSE None

\* The release of the gateway's the link at p leads to.
Target(p) == IF file.path = p /\ file.of \in InGateway THEN file.of ELSE None

ScanLooksUp ==
  /\ linkScan.step = "lookup"
  /\ linkScan' = IF Target(linkScan.of) = None THEN Idle
                 ELSE At("save", Target(linkScan.of))
  /\ UNCHANGED <<arrVars, rowVars, mediaVars, call, capturing, rearm>>

ScanSaves ==
  /\ linkScan.step = "save" /\ Save(linkScan.of) /\ linkScan' = Idle
  /\ UNCHANGED <<arrVars, rowVars, call, capturing, rearm>>

\* A statement fails, the link cannot be read, or the process stops.
LinkScanBreaks ==
  /\ linkScan.step # "idle" /\ linkScan' = Idle
  /\ UNCHANGED <<arrVars, rowVars, mediaVars, call, capturing, rearm>>

--------------------------------------------------------------------------------
\* resolveRearmTorrent and the save that follows it.

SourceId == IF media.source \in Nzb THEN media.downloadId ELSE media.source

RearmStarts ==
  /\ rearm.step = "idle" /\ media.path # None
  /\ rearm' = At("direct", SourceId)
  /\ UNCHANGED <<arrVars, rowVars, mediaVars, call, capturing, linkScan>>

\* Gateway.Source, by what the row said then, whatever has been imported.
RearmDirect ==
  /\ rearm.step = "direct"
  /\ \/ rearm.of \in InGateway /\ rearm' = At("save", rearm.of)
     \/ rearm' = At("link", None)
  /\ UNCHANGED <<arrVars, rowVars, mediaVars, call, capturing, linkScan>>

RearmLinks ==
  /\ rearm.step = "link" /\ Link /\ rearm' = At("pending", None)
  /\ UNCHANGED <<arrVars, rowVars, call, capturing, linkScan>>

\* CurrentGrabSourcePending.
ImportPending == \E d \in Newest : ~grab[d].ready \/ media.downloadId # d

RearmChecks ==
  /\ rearm.step = "pending"
  /\ rearm' = IF ImportPending THEN Idle ELSE At("read", None)
  /\ UNCHANGED <<arrVars, rowVars, mediaVars, call, capturing, linkScan>>

RearmReads ==
  /\ rearm.step = "read" /\ rearm' = At("match", media.source)
  /\ UNCHANGED <<arrVars, rowVars, mediaVars, call, capturing, linkScan>>

RearmMatches ==
  /\ rearm.step = "match"
  /\ rearm' = IF SavedIs(rearm.of) THEN At("save", saved) ELSE Idle
  /\ UNCHANGED <<arrVars, rowVars, mediaVars, call, capturing, linkScan>>

RearmSaves ==
  /\ rearm.step = "save" /\ Save(rearm.of) /\ rearm' = Idle
  /\ UNCHANGED <<arrVars, rowVars, call, capturing, linkScan>>

RearmBreaks ==
  /\ rearm.step # "idle" /\ rearm' = Idle
  /\ UNCHANGED <<arrVars, rowVars, mediaVars, call, capturing, linkScan>>

--------------------------------------------------------------------------------
CaptureStep == PassStarts \/ PassCaptures \/ PassLinks
LinkScanStep == ScanLists \/ ScanStores \/ ScanLinks \/ ScanLooksUp \/ ScanSaves

GrabNext ==
  \/ \E d \in Download :
       \/ RetryComes(d)
       \/ \E p \in Path : ArrImports(d, p)
       \/ \E c \in WebhookCall :
            GrabWebhook(c, d) \/ \E p \in Path : ImportWebhook(c, d, p)
  \/ \E c \in WebhookCall : CallCaptures(c) \/ CallLinks(c) \/ CallBreaks(c)
  \/ CaptureStep \/ CaptureBreaks
  \/ LinkScanStep \/ LinkScanBreaks
  \/ RearmStarts \/ RearmDirect \/ RearmLinks \/ RearmChecks \/ RearmReads
  \/ RearmMatches \/ RearmSaves \/ RearmBreaks

\* The worker and the scan run from timers; a minute passes; what the gateway
\* holds is captured when it is tried often enough.
GrabFairness ==
  /\ WF_grabVars(CaptureStep) /\ WF_grabVars(LinkScanStep)
  /\ \A d \in Download : WF_grabVars(RetryComes(d))
  /\ \A d \in InGateway : SF_grabVars(capturing.todo # <<>> /\ Head(capturing.todo) = d
                               /\ Complete(d) /\ PassCaptures)

GrabSpec == GrabInit /\ [][GrabNext]_grabVars
GrabFairSpec == GrabSpec /\ GrabFairness

--------------------------------------------------------------------------------
\* Every release the gateway holds is captured in the end, however many others
\* are pending that it does not (PendingGrabSources takes a few at a time, in
\* the order of next_retry_at), once Grab webhooks no longer come, each of which
\* may put the row off again, and passes run to their end.
CapturesDisturbed ==
  \/ CaptureBreaks /\ ~CaptureStep
  \/ \E c \in WebhookCall, d \in Download : GrabWebhook(c, d)
WebhooksDisturb ==
  \/ CapturesDisturbed
  \/ \E c \in WebhookCall, d \in Download, p \in Path : ImportWebhook(c, d, p)
CapturesHappen ==
  <>[][~CapturesDisturbed]_grabVars => \A d \in InGateway : Pending(d) ~> ~Pending(d)

\* No row is kept from its rearms for good: once webhooks no longer come and
\* passes run to their end, a row whose newest import the gateway holds is found
\* not to be pending, again and again (CurrentGrabSourcePending).  Not for ever:
\* saving another Usenet release writes that one's download id into the row
\* (SaveTorrentMetadata), which makes the import pending until the next link.
RearmsUnblocked ==
  <>[][~WebhooksDisturb]_grabVars
    => []<>(Newest \subseteq InGateway => ~ImportPending)

\* Once Arr imports no more, the row has the source of the file that is there,
\* whatever webhooks and rearms did in between, unless the import recorded last
\* for its path is another release's.
GrabUnsettled ==
  \/ \E d \in Download :
       \/ \E p \in Path : ArrImports(d, p)
       \/ \E c \in WebhookCall :
            GrabWebhook(c, d) \/ \E p \in Path : ImportWebhook(c, d, p)
  \/ CaptureBreaks /\ ~CaptureStep
  \/ LinkScanBreaks /\ ~LinkScanStep
  \/ RearmStarts
SourceSettled ==
  /\ file.path # None /\ file.of \in InGateway
  /\ \A d \in ImportsAt(file.path) : \E e \in ImportsAt(file.path) :
       e = file.of /\ grab[d].at <= grab[e].at
  => media.path = file.path /\ media.source = file.of /\ saved = file.of
SourceSettles == <>[][~GrabUnsettled]_grabVars => <>[]SourceSettled

\* grab_sources.go: "Do not restore/prune an older identity while the current
\* import's capture is pending."
NoOlderRestored ==
  [][rearm.step # "save" /\ rearm'.step = "save"
       => \A d \in Newest :
            Pending(d) /\ file = [path |-> media.path, of |-> d]
              => rearm'.of = d]_grabVars
================================================================================
