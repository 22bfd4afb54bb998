------------------------------- MODULE MissingFiles -------------------------------
(***************************************************************************)
(* The inventory pass on movies whose torrent is missing: rows without a   *)
(* source are flagged (reconcileJellyfinInventory), and with               *)
(* MarkMissingInArr the file of a flagged row is deleted in Radarr         *)
(* (reconcileArrMissing, RemoveMissingImportedFile).                       *)
(*                                                                         *)
(* The library holds links to releases on a mount, which may be down:      *)
(* then either nothing is there or reads hang.  A probe that hangs, or     *)
(* finds a slot taken by one that does, is an error (ReadProbe).  Ids of   *)
(* files are not given out twice.                                          *)
(***************************************************************************)
EXTENDS Naturals, FiniteSets

CONSTANTS
  Item,        \* rows of movies that came as torrents, in the order of their ids
  MaxReports,  \* rows a pass has removed from Arr (max_refreshes_per_run)
  MaxFiles     \* files Arr imports in all

ASSUME MissingConstants ==
  Item \subseteq Nat /\ MaxReports \in Nat \ {0} /\ MaxFiles \in Nat

FileId == 1 .. MaxFiles
Place  == {"here", "there"}

VARIABLES
  mount,      \* "up", "empty" or "stuck"
  files,      \* ids given out
  library,    \* library[i]: the file Arr has for i, 0 for none, and its place
  gone,       \* files whose release is really lost
  entry,      \* entry[i]: its state, its place, and whether a source is saved
  reported,   \* rows with an arr_missing_reported event
  work,       \* the pass: step, listed rows and paths to do, the one in hand,
              \* and the id Arr gave for it
  confirmed   \* history: files that were read as missing when confirmed

missingVars == <<mount, files, library, gone, entry, reported, work, confirmed>>
worldVars == <<mount, files, library, gone>>

\* "busy" is any other state, and an entry with a rearm requested.
Rows == [state : {"available", "busy", "flagged"}, place : Place, saved : BOOLEAN]
Listed == Item \X Place
WorkStepName == {"idle", "list", "probe", "get", "confirm", "delete", "verify",
                 "event", "scan", "stat", "flag"}
IdleWork == [step |-> "idle", todo |-> {}, item |-> {}, id |-> 0]

MissingTypeOK ==
  /\ mount \in {"up", "empty", "stuck"} /\ files \in 0 .. MaxFiles
  /\ library \in [Item -> [id : 0 .. MaxFiles, place : Place]]
  /\ gone \subseteq FileId /\ confirmed \subseteq FileId
  /\ entry \in [Item -> Rows] /\ reported \subseteq Item
  /\ work \in [step : WorkStepName, todo : SUBSET Listed, item : SUBSET Listed,
               id : 0 .. MaxFiles]

MissingInit ==
  /\ mount = "up" /\ files = 0 /\ gone = {} /\ reported = {} /\ confirmed = {}
  /\ library = [i \in Item |-> [id |-> 0, place |-> "here"]]
  /\ entry = [i \in Item |-> [state |-> "available", place |-> "here", saved |-> FALSE]]
  /\ work = IdleWork

--------------------------------------------------------------------------------
\* The world.

MountChanges(to) ==
  /\ mount' = to /\ to # mount
  /\ UNCHANGED <<files, library, gone, entry, reported, work, confirmed>>

\* A first file, or one that replaces another, at its place or elsewhere.
ArrImportsFile(i, p) ==
  /\ files < MaxFiles
  /\ files' = files + 1
  /\ library' = [library EXCEPT ![i] = [id |-> files + 1, place |-> p]]
  /\ UNCHANGED <<mount, gone, entry, reported, work, confirmed>>

ReleaseLost(f) ==
  /\ \E i \in Item : library[i].id = f
  /\ f \notin gone /\ gone' = gone \cup {f}
  /\ UNCHANGED <<mount, files, library, entry, reported, work, confirmed>>

\* A scan takes over Arr's place; a source is captured; a row is rearmed, which
\* for a flagged one takes a source, and ends as available or, when no source is
\* found or its job has failed, as flagged (MarkSourceRecoveryRequired, which
\* looks at neither path nor source).
RowFollows(i) ==
  /\ entry[i].place # library[i].place
  /\ entry' = [entry EXCEPT ![i].place = library[i].place]
  /\ UNCHANGED <<worldVars, reported, work, confirmed>>

SourceSaved(i) ==
  /\ ~entry[i].saved
  /\ entry' = [entry EXCEPT ![i].saved = TRUE]
  /\ UNCHANGED <<worldVars, reported, work, confirmed>>

Rearmed(i) ==
  /\ \/ /\ entry[i].state = "busy"
        /\ \E s \in {"available", "flagged"} : entry' = [entry EXCEPT ![i].state = s]
     \/ entry[i].state = "available" /\ entry' = [entry EXCEPT ![i].state = "busy"]
     \/ /\ entry[i].state = "flagged" /\ entry[i].saved
        /\ entry' = [entry EXCEPT ![i].state = "busy"]
  /\ UNCHANGED <<worldVars, reported, work, confirmed>>

--------------------------------------------------------------------------------
\* The pass.

HasLink(e) == library[e[1]].id # 0 /\ library[e[1]].place = e[2]
Answers == mount # "stuck"

\* NewMissingSymlinkProbe: what is there is a link, and leads nowhere.
Dangling(e) == HasLink(e) /\ (mount = "empty" \/ library[e[1]].id \in gone)

\* NewMissingPathProbe: there is no link, or it leads nowhere.
NothingThere(e) == ~HasLink(e) \/ Dangling(e)

WorkGoto(step, todo, item, id) ==
  work' = [step |-> step, todo |-> todo, item |-> item, id |-> id]
NextRow(step) == WorkGoto(step, work.todo, {}, 0)

\* Without a readable canary no file is deleted; rows are flagged all the same.
Canary ==
  /\ work.step = "idle"
  /\ NextRow(IF mount = "up" THEN "list" ELSE "scan")
  /\ UNCHANGED <<worldVars, entry, reported, confirmed>>

Listing(I) == {<<i, entry[i].place>> : i \in I}

\* SourceRecoveryWorkItems: the first of the flagged rows that have no source
\* and no event.
ToReport ==
  LET flagged ==
        {i \in Item : entry[i].state = "flagged" /\ ~entry[i].saved /\ i \notin reported}
  IN {i \in flagged : Cardinality({k \in flagged : k < i}) < MaxReports}

ListFlagged ==
  /\ work.step = "list" /\ WorkGoto("probe", Listing(ToReport), {}, 0)
  /\ UNCHANGED <<worldVars, entry, reported, confirmed>>

\* An entry is dropped unless its path answers and is seen to be missing.
ProbeLink ==
  /\ work.step = "probe"
  /\ \/ work.todo = {} /\ NextRow("scan")
     \/ \E e \in work.todo :
          IF Answers /\ Dangling(e) THEN WorkGoto("get", work.todo \ {e}, {e}, 0)
          ELSE WorkGoto("probe", work.todo \ {e}, {}, 0)
  /\ UNCHANGED <<worldVars, entry, reported, confirmed>>

\* The identity and the place are what was listed, or nothing is deleted; a
\* row whose file is gone in Arr needs no more than its event.
GetIdentity ==
  /\ work.step = "get"
  /\ \A e \in work.item :
       IF library[e[1]].id = 0 THEN WorkGoto("event", work.todo, {e}, 0)
       ELSE IF library[e[1]].place # e[2] THEN NextRow("probe")
       ELSE WorkGoto("confirm", work.todo, {e}, library[e[1]].id)
  /\ UNCHANGED <<worldVars, entry, reported, confirmed>>

\* Mutation of SeenMissing: the probe is taken for one that reads.
SeenReadable(e) == Answers /\ ~Dangling(e)

\* confirmMissing.
SeenMissing(e) == Answers /\ Dangling(e)

Confirm ==
  /\ work.step = "confirm"
  /\ \A e \in work.item :
       IF SeenMissing(e)
       THEN /\ WorkGoto("delete", work.todo, {e}, work.id)
            /\ confirmed' = confirmed \cup {library[e[1]].id}
       ELSE NextRow("probe") /\ UNCHANGED confirmed
  /\ UNCHANGED <<worldVars, entry, reported>>

\* Mutation of Deleted: what Arr has by then is deleted.
DeletedCurrent(i, id) == library[i].id

\* The file DELETE names.
Deleted(i, id) == id

DeleteFile ==
  /\ work.step = "delete"
  /\ \A e \in work.item :
       /\ library' = IF library[e[1]].id = Deleted(e[1], work.id)
                     THEN [library EXCEPT ![e[1]].id = 0] ELSE library
       /\ WorkGoto("verify", work.todo, {e}, 0)
  /\ UNCHANGED <<mount, files, gone, entry, reported, confirmed>>

VerifyDeleted ==
  /\ work.step = "verify"
  /\ \A e \in work.item :
       IF library[e[1]].id = 0 THEN WorkGoto("event", work.todo, {e}, 0)
       ELSE NextRow("probe")
  /\ UNCHANGED <<worldVars, entry, reported, confirmed>>

ReportMissing ==
  /\ work.step = "event"
  /\ reported' = reported \cup {e[1] : e \in work.item} /\ NextRow("probe")
  /\ UNCHANGED <<worldVars, entry, confirmed>>

\* The rows Jellyfin does not list and that have no source.
ScanInventory ==
  /\ work.step = "scan"
  /\ \E U \in SUBSET {i \in Item : entry[i].state = "available" /\ ~entry[i].saved} :
       WorkGoto(IF U = {} THEN "idle" ELSE "stat", Listing(U), {}, 0)
  /\ UNCHANGED <<worldVars, entry, reported, confirmed>>

StatPath ==
  /\ work.step = "stat"
  /\ \/ work.todo = {} /\ work' = IdleWork
     \/ \E e \in work.todo :
          IF Answers /\ NothingThere(e) THEN WorkGoto("flag", work.todo \ {e}, {e}, 0)
          ELSE WorkGoto("stat", work.todo \ {e}, {}, 0)
  /\ UNCHANGED <<worldVars, entry, reported, confirmed>>

\* FlagMissingInventorySource: still idle at that path, still without a source.
Flaggable(r, p) == r.state = "available" /\ ~r.saved /\ r.place = p

FlagRow ==
  /\ work.step = "flag"
  /\ \A e \in work.item :
       entry' = IF Flaggable(entry[e[1]], e[2])
              THEN [entry EXCEPT ![e[1]].state = "flagged"] ELSE entry
  /\ NextRow("stat")
  /\ UNCHANGED <<worldVars, reported, confirmed>>

\* A request or a statement fails, or the pass ends.
WorkFails ==
  /\ work.step \notin {"idle", "delete"}
  /\ \/ work' = IdleWork
     \/ work.item # {} /\ work.step # "flag" /\ NextRow("probe")
     \/ work.step = "flag" /\ NextRow("stat")
  /\ UNCHANGED <<worldVars, entry, reported, confirmed>>

\* The answer to DELETE is lost, or Arr refuses.
DeleteFails ==
  /\ work.step = "delete"
  /\ NextRow("probe")
  /\ \E e \in work.item :
       \/ UNCHANGED library
       \/ library[e[1]].id = work.id /\ library' = [library EXCEPT ![e[1]].id = 0]
  /\ UNCHANGED <<mount, files, gone, entry, reported, confirmed>>

--------------------------------------------------------------------------------
WorkStep ==
  \/ Canary \/ ListFlagged \/ ProbeLink \/ GetIdentity \/ Confirm \/ DeleteFile
  \/ VerifyDeleted \/ ReportMissing \/ ScanInventory \/ StatPath \/ FlagRow

MissingNext ==
  \/ \E m \in {"up", "empty", "stuck"} : MountChanges(m)
  \/ \E i \in Item, p \in Place : ArrImportsFile(i, p)
  \/ \E f \in FileId : ReleaseLost(f)
  \/ \E i \in Item : RowFollows(i) \/ SourceSaved(i) \/ Rearmed(i)
  \/ WorkStep \/ WorkFails \/ DeleteFails

\* The pass runs from a ticker.
MissingFairness == WF_missingVars(WorkStep)

MissingSpec == MissingInit /\ [][MissingNext]_missingVars
MissingFairSpec == MissingSpec /\ MissingFairness

--------------------------------------------------------------------------------
\* No file is deleted in Arr that has not itself been read as missing, however
\* Arr replaces files between the lookup, the confirmation and the deletion.
ReplacementSpared ==
  [][\A i \in Item : library[i].id # 0 /\ library'[i].id = 0
                       => library[i].id \in confirmed]_missingVars

\* A lost file whose row is among those a pass looks at does not stay in Arr
\* once the mount is up, calls succeed and nothing else changes.  (Rows that
\* are flagged but whose file is there keep their places in the list.)
MissingDisturbed ==
  \/ \E m \in {"up", "empty", "stuck"} : MountChanges(m)
  \/ \E i \in Item, p \in Place : ArrImportsFile(i, p)
  \/ \E i \in Item : RowFollows(i) \/ SourceSaved(i) \/ Rearmed(i)
  \/ (WorkFails \/ DeleteFails) /\ ~WorkStep
LostRemoved ==
  <>[][~MissingDisturbed]_missingVars
    => <>[](mount = "up" => \A e \in Listing(ToReport) : ~Dangling(e))

\* arr_missing.go: "A readable canary on the same remote mount protects against
\* treating a mount outage as many individual missing releases."
OutageSparesFiles ==
  [][\A i \in Item : library[i].id # 0 /\ library'[i].id = 0 => library[i].id \in gone
    ]_missingVars
================================================================================
