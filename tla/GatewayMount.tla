------------------------------ MODULE GatewayMount ------------------------------
(***************************************************************************)
(* Mount verification and staging of gateway jobs: the controller's mount  *)
(* worker (Service.ReconcileMount, verifyMount, createLinks and            *)
(* removeStagedLinks, with the statements of gateway_mount.go and          *)
(* gateway_release_folder.go) against the gateway's provider worker and    *)
(* the download clients' API, which write the same gateway_jobs rows from  *)
(* another process.                                                        *)
(*                                                                         *)
(* A Mounter is a process running ReconcileMount; a pass is cut at every   *)
(* statement and at every link it makes or removes.  There is one gateway, *)
(* so at most one provider pass holds a copy of a job.  Provider states    *)
(* other than Mounting and Completed are one state here, Away.             *)
(***************************************************************************)
EXTENDS Naturals, FiniteSets

CONSTANTS
  Job,
  File,         \* the files of a job's catalog: once published, only their
                \* order in the list may change
  Legacy,       \* jobs completed by a version without release folders
  Mounter,
  NoJob,
  MaxRevision   \* bound on catalog_revision: later provider writes keep it

ASSUME MountConstants ==
  /\ Legacy \subseteq Job /\ NoJob \notin Job
  /\ File # {} /\ IsFiniteSet(File)
  /\ MaxRevision \in Nat

VARIABLES
  row,          \* row[j]: the columns of gateway_jobs used here
  due,          \* due[j]: verify_next_at <= now()
  seen,         \* seen[j]: the state in the provider pass's copy of j, if any
  pc,           \* pc[m]: the next step of mounter m
  held,         \* held[m]: the job m verifies or cleans up
  copy,         \* copy[m]: the Go value j of that pass
  todo,         \* todo[m]: the links m still has to make or remove
  links,        \* links[j]: the staged links below j's release folder
  publication,  \* publication[j]: how often j had to be verified (history)
  against,      \* against[m]: the publication m's copy was read at (history)
  hiddenOnce,   \* hiddenOnce[j]: a client has removed j (history)
  cleaned       \* cleaned[j]: its cleanup is done, j not added again (history)

clientVars == <<hiddenOnce, cleaned>>
mounterVars == <<pc, held, copy, todo, against>>
vars == <<row, due, seen, pc, held, copy, todo, links, publication, against,
          hiddenOnce, cleaned>>

State == {"Away", "Mounting", "Completed"}
MountRow == [state : State, revision : Nat, pinned : BOOLEAN,
             hidden : BOOLEAN, cleanup : BOOLEAN]
Step == {"idle", "pin", "stage", "probe", "finish", "unstage", "cleaned"}

NewRow == [state |-> "Away", revision |-> 0, pinned |-> FALSE,
           hidden |-> FALSE, cleanup |-> FALSE]

TypeOK ==
  /\ row \in [Job -> MountRow]
  /\ due \in [Job -> BOOLEAN]
  /\ seen \in [Job -> State \cup {"none"}]
  /\ pc \in [Mounter -> Step]
  /\ held \in [Mounter -> Job \cup {NoJob}]
  /\ copy \in [Mounter -> MountRow]
  /\ todo \in [Mounter -> SUBSET File]
  /\ links \in [Job -> SUBSET File]
  /\ publication \in [Job -> Nat]
  /\ against \in [Mounter -> Nat]
  /\ hiddenOnce \in [Job -> BOOLEAN]
  /\ cleaned \in [Job -> BOOLEAN]
  /\ \A m \in Mounter : pc[m] # "idle" => held[m] \in Job

Init ==
  /\ row = [j \in Job |-> IF j \in Legacy
                          THEN [NewRow EXCEPT !.state = "Completed"] ELSE NewRow]
  /\ due = [j \in Job |-> TRUE]
  /\ seen = [j \in Job |-> "none"]
  /\ pc = [m \in Mounter |-> "idle"]
  /\ held = [m \in Mounter |-> NoJob]
  /\ copy = [m \in Mounter |-> NewRow]
  /\ todo = [m \in Mounter |-> {}]
  /\ links = [j \in Job |-> {}]
  /\ publication = [j \in Job |-> 0]
  /\ against = [m \in Mounter |-> 0]
  /\ hiddenOnce = [j \in Job |-> FALSE]
  /\ cleaned = [j \in Job |-> FALSE]

--------------------------------------------------------------------------------
\* Statements on a row.

\* Mutation of PublishedRow: a change of state alone leaves the revision.
PublishedRowUnfenced(r, s, same) ==
  [r EXCEPT !.state = IF r.state = "Completed" /\ s = "Mounting" /\ same
                      THEN "Completed" ELSE s,
            !.revision = IF same THEN @ ELSE @ + 1]

\* UpdateGatewayJob with a copy in state s; same: it names the placement and
\* holds the very file list of the row (and its Away state).  A ready poll does
\* not take back a verified completion of that list; any other change raises
\* the revision, and so does a list in another order.
PublishedRow(r, s, same) ==
  IF same /\ (r.state = s \/ (r.state = "Completed" /\ s = "Mounting")) THEN r
  ELSE [r EXCEPT !.state = s, !.revision = @ + 1]

\* Mutations of NeedsMounter: hidden jobs are not verified; only jobs with a
\* placement are cleaned up.
NeedsMounterVisible(r) ==
  \/ r.state = "Mounting" /\ ~r.hidden
  \/ r.cleanup
  \/ r.state = "Completed" /\ ~r.hidden /\ ~r.pinned
NeedsMounterPlaced(r) ==
  \/ r.state = "Mounting"
  \/ r.state = "Completed" /\ (r.cleanup \/ (~r.hidden /\ ~r.pinned))

\* WHERE clause of ClaimGatewayMount.
NeedsMounter(r) ==
  \/ r.state = "Mounting"
  \/ r.cleanup
  \/ r.state = "Completed" /\ ~r.hidden /\ ~r.pinned

\* WHERE clause of PinGatewayReleaseFolder, and what it sets.
Pinnable(r, c) ==
  /\ ~r.pinned /\ r.revision = c.revision
  /\ r.state \in {"Mounting", "Completed"} /\ ~r.cleanup
PinnedRow(r) ==
  [r EXCEPT !.pinned = TRUE, !.state = "Mounting", !.revision = @ + 1]

\* FinishGatewayMount without an error, with copy c.
VerifiedMountRow(r, c) ==
  IF r.state = "Mounting" /\ r.revision = c.revision /\ ~r.cleanup
  THEN [r EXCEPT !.state = "Completed"] ELSE r

\* FinishGatewayCleanup with copy c.
CleanedRow(r, c) ==
  IF r.revision = c.revision /\ r.hidden THEN [r EXCEPT !.cleanup = FALSE] ELSE r

\* What the clients' API sets: the source is added again, the job is removed,
\* or it is removed with its staged links.
AddedAgainRow(r) == [r EXCEPT !.hidden = FALSE, !.cleanup = FALSE]
HiddenRow(r) == [r EXCEPT !.hidden = TRUE]
CleanupRow(r) == [r EXCEPT !.hidden = TRUE, !.cleanup = TRUE]

--------------------------------------------------------------------------------
\* The mount worker.

Return(m) ==
  /\ pc' = [pc EXCEPT ![m] = "idle"]
  /\ held' = [held EXCEPT ![m] = NoJob]
  /\ copy' = [copy EXCEPT ![m] = NewRow]
  /\ todo' = [todo EXCEPT ![m] = {}]
  /\ against' = [against EXCEPT ![m] = 0]

\* Mutation of Verify: hidden jobs are staged as well.
VerifyStagesHidden(m, j, c) ==
  /\ pc' = [pc EXCEPT ![m] = IF c.pinned THEN "stage" ELSE "pin"]
  /\ held' = [held EXCEPT ![m] = j]
  /\ copy' = [copy EXCEPT ![m] = c]
  /\ todo' = [todo EXCEPT ![m] = File]

\* Mutation of Verify: a job with a release folder is taken to be staged.
VerifySkipsLinks(m, j, c) ==
  /\ pc' = [pc EXCEPT ![m] = IF c.pinned THEN "probe" ELSE "pin"]
  /\ held' = [held EXCEPT ![m] = j]
  /\ copy' = [copy EXCEPT ![m] = c]
  /\ todo' = [todo EXCEPT ![m] = {}]

\* verifyMount goes on with copy c of j: the release folder is pinned first,
\* and only a visible job gets links.
Verify(m, j, c) ==
  /\ pc' = [pc EXCEPT ![m] = IF ~c.pinned THEN "pin"
                             ELSE IF c.hidden THEN "probe" ELSE "stage"]
  /\ held' = [held EXCEPT ![m] = j]
  /\ copy' = [copy EXCEPT ![m] = c]
  /\ todo' = [todo EXCEPT ![m] = IF c.hidden THEN {} ELSE File]

\* removeStagedLinks of the copy: a job without a release folder has its links
\* elsewhere.
CleanUp(m, j, c) ==
  /\ pc' = [pc EXCEPT ![m] = IF c.pinned THEN "unstage" ELSE "cleaned"]
  /\ held' = [held EXCEPT ![m] = j]
  /\ copy' = [copy EXCEPT ![m] = c]
  /\ todo' = [todo EXCEPT ![m] = IF c.pinned THEN File ELSE {}]

\* The claim leases the job to this mounter for a minute.
ClaimGatewayMount(m, j) ==
  /\ pc[m] = "idle"
  /\ NeedsMounter(row[j]) /\ due[j]
  /\ due' = [due EXCEPT ![j] = FALSE]
  /\ IF row[j].cleanup THEN CleanUp(m, j, row[j]) ELSE Verify(m, j, row[j])
  /\ against' = [against EXCEPT ![m] = publication[j]]
  /\ UNCHANGED <<row, seen, links, publication, clientVars>>

\* Pinning moves the import path: a job that was verified has to be verified
\* again.  A refused pin ends the pass.
PinGatewayReleaseFolder(m) ==
  /\ pc[m] = "pin"
  /\ LET j == held[m] IN
     IF Pinnable(row[j], copy[m])
     THEN /\ row' = [row EXCEPT ![j] = PinnedRow(@)]
          /\ Verify(m, j, PinnedRow(row[j]))
          /\ publication' = [publication EXCEPT ![j] = @ + 1]
          /\ against' = [against EXCEPT ![m] = publication[j] + 1]
     ELSE Return(m) /\ UNCHANGED <<row, publication>>
  /\ UNCHANGED <<due, seen, links, clientVars>>

\* One link of createLinks; a link that is there already is kept.
StageLink(m) ==
  /\ pc[m] = "stage"
  /\ \E f \in todo[m] :
       /\ links' = [links EXCEPT ![held[m]] = @ \cup {f}]
       /\ todo' = [todo EXCEPT ![m] = @ \ {f}]
       /\ pc' = [pc EXCEPT ![m] = IF todo[m] = {f} THEN "probe" ELSE "stage"]
  /\ UNCHANGED <<row, due, seen, held, copy, against, publication, clientVars>>

\* The byte probe reads the payload through the mount.
Probe(m) ==
  /\ pc[m] = "probe"
  /\ pc' = [pc EXCEPT ![m] = "finish"]
  /\ UNCHANGED <<row, due, seen, held, copy, todo, links, against, publication,
                 clientVars>>

FinishGatewayMount(m) ==
  /\ pc[m] = "finish"
  /\ row' = [row EXCEPT ![held[m]] = VerifiedMountRow(@, copy[m])]
  /\ Return(m)
  /\ UNCHANGED <<due, seen, links, publication, clientVars>>

\* One link of removeStagedLinks; a link that is not there is skipped.
UnstageLink(m) ==
  /\ pc[m] = "unstage"
  /\ \E f \in todo[m] :
       /\ links' = [links EXCEPT ![held[m]] = @ \ {f}]
       /\ todo' = [todo EXCEPT ![m] = @ \ {f}]
       /\ pc' = [pc EXCEPT ![m] = IF todo[m] = {f} THEN "cleaned" ELSE "unstage"]
  /\ UNCHANGED <<row, due, seen, held, copy, against, publication, clientVars>>

FinishGatewayCleanup(m) ==
  /\ pc[m] = "cleaned"
  /\ LET j == held[m] IN
       /\ row' = [row EXCEPT ![j] = CleanedRow(@, copy[m])]
       /\ cleaned' = [cleaned EXCEPT ![j] =
                        @ \/ (row[j].cleanup /\ ~row'[j].cleanup)]
  /\ Return(m)
  /\ UNCHANGED <<due, seen, links, publication, hiddenOnce>>

\* An unreadable mount, a link that cannot be made, a failed statement (at most
\* last_error changes), or a crash of the controller.
GiveUp(m) ==
  /\ pc[m] # "idle"
  /\ Return(m)
  /\ UNCHANGED <<row, due, seen, links, publication, clientVars>>

LeaseExpires(j) ==
  /\ ~due[j]
  /\ due' = [due EXCEPT ![j] = TRUE]
  /\ UNCHANGED <<row, seen, links, publication, mounterVars, clientVars>>

--------------------------------------------------------------------------------
\* The gateway: its provider worker and the download clients' API.

\* The provider worker claims the job and keeps a copy of its state ...
ObserveProvider(j) ==
  /\ seen[j] = "none"
  /\ seen' = [seen EXCEPT ![j] = row[j].state]
  /\ UNCHANGED <<row, due, links, publication, mounterVars, clientVars>>

\* ... which a poll keeps (an inconclusive answer, a completed job that is
\* ready), publishes for verification, or withdraws (any other answer, and
\* every step between two of the states that are Away here).
Outcomes(s) == {"Away", IF s = "Completed" THEN "Completed" ELSE "Mounting", s}

UpdateGatewayJob(j) ==
  /\ seen[j] # "none"
  /\ \E s \in Outcomes(seen[j]), same \in BOOLEAN :
       /\ row[j].revision < MaxRevision \/ PublishedRow(row[j], s, same) = row[j]
       /\ row' = [row EXCEPT ![j] = PublishedRow(@, s, same)]
       /\ publication' =
            IF row[j].state # "Mounting" /\ row'[j].state = "Mounting"
            THEN [publication EXCEPT ![j] = @ + 1] ELSE publication
  /\ seen' = [seen EXCEPT ![j] = "none"]
  /\ UNCHANGED <<due, links, mounterVars, clientVars>>

\* The provider pass ends without a write.
AbandonObservation(j) ==
  /\ seen[j] # "none"
  /\ seen' = [seen EXCEPT ![j] = "none"]
  /\ UNCHANGED <<row, due, links, publication, mounterVars, clientVars>>

\* AddGatewaySource of a source the tenant has already.
AddAgain(j) ==
  /\ row[j].hidden \/ row[j].cleanup
  /\ row' = [row EXCEPT ![j] = AddedAgainRow(@)]
  /\ cleaned' = [cleaned EXCEPT ![j] = FALSE]
  /\ UNCHANGED <<due, seen, links, publication, mounterVars, hiddenOnce>>

\* A client removes the job and keeps its data ...
HideGatewayJob(j) ==
  /\ ~row[j].hidden
  /\ row' = [row EXCEPT ![j] = HiddenRow(@)]
  /\ hiddenOnce' = [hiddenOnce EXCEPT ![j] = TRUE]
  /\ UNCHANGED <<due, seen, links, publication, mounterVars, cleaned>>

\* ... or asks for its staged links to be removed as well.
RequestGatewayCleanup(j) ==
  /\ row' = [row EXCEPT ![j] = CleanupRow(@)]
  /\ due' = [due EXCEPT ![j] = TRUE]
  /\ hiddenOnce' = [hiddenOnce EXCEPT ![j] = TRUE]
  /\ UNCHANGED <<seen, links, publication, mounterVars, cleaned>>

MounterStep(m) ==
  \/ PinGatewayReleaseFolder(m) \/ StageLink(m) \/ Probe(m)
  \/ FinishGatewayMount(m) \/ UnstageLink(m) \/ FinishGatewayCleanup(m)

Next ==
  \/ \E m \in Mounter :
       (\E j \in Job : ClaimGatewayMount(m, j)) \/ MounterStep(m) \/ GiveUp(m)
  \/ \E j \in Job :
       \/ LeaseExpires(j)
       \/ ObserveProvider(j) \/ UpdateGatewayJob(j) \/ AbandonObservation(j)
       \/ AddAgain(j) \/ HideGatewayJob(j) \/ RequestGatewayCleanup(j)

Spec == Init /\ [][Next]_vars

(***************************************************************************)
(* Fairness.  The mount worker runs every 15 seconds for as long as the    *)
(* controller lives and leases run out by the clock.  A claim takes the    *)
(* job that has been due longest, and a job claimed is due a minute later, *)
(* so no job is passed over forever.  A pass that is tried again and again *)
(* is not given up every time: the mount is readable again and the links   *)
(* can be made some time.  Nothing is assumed of the provider worker and   *)
(* the clients.                                                            *)
(***************************************************************************)
PassEnds(m, j) ==
  held[m] = j /\ (FinishGatewayMount(m) \/ FinishGatewayCleanup(m))

Fairness ==
  /\ \A j \in Job : WF_vars(LeaseExpires(j))
  /\ \A m \in Mounter :
       /\ WF_vars(MounterStep(m))
       /\ \A j \in Job :
            /\ SF_vars(ClaimGatewayMount(m, j))
            /\ []<><<ClaimGatewayMount(m, j)>>_vars => []<><<PassEnds(m, j)>>_vars

FairSpec == Spec /\ Fairness

--------------------------------------------------------------------------------
(***************************************************************************)
(* What must hold for every number of mounters, without Legacy jobs.       *)
(***************************************************************************)

\* A job becomes Completed only when a mounter finishes verifying it, and what
\* was verified is what is published now: not a placement that was lost or
\* replaced meanwhile, nor an import path that has moved.
CompletedAsVerified ==
  [][\A j \in Job : row[j].state # "Completed" /\ row'[j].state = "Completed"
       => \E m \in Mounter : /\ pc[m] = "finish" /\ pc'[m] = "idle"
                            /\ held[m] = j /\ against[m] = publication[j]]_vars

\* A download client that sees a job it never removed as completed finds every
\* file of it staged, whatever provider polls and repeated passes did meanwhile.
StagedBeforeCompleted ==
  \A j \in Job : row[j].state = "Completed" /\ row[j].pinned /\ ~hiddenOnce[j]
                  => links[j] = File

(***************************************************************************)
(* What must hold with one mounter.                                        *)
(***************************************************************************)

\* Once a requested cleanup is done nothing stays or becomes staged, however
\* often the hidden job is verified again, until a client adds the job again.
CleanupLeavesNothing == \A j \in Job : cleaned[j] => links[j] = {}

\* A requested cleanup is done, or withdrawn by adding the job again.
CleanupSettles == \A j \in Job : row[j].cleanup ~> ~row[j].cleanup

\* A published job, hidden or not, is completed unless its placement is lost or
\* a client asks for its cleanup.
MountingSettles ==
  \A j \in Job : row[j].state = "Mounting" /\ ~row[j].cleanup
                  ~> row[j].state # "Mounting" \/ row[j].cleanup

\* A completed job that clients see is staged some time, or not completed or
\* not seen any more.
Visible(j) == row[j].state = "Completed" /\ ~row[j].hidden
VisibleRestaged == \A j \in Job : Visible(j) ~> links[j] = File \/ ~Visible(j)
================================================================================
