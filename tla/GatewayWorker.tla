----------------------------- MODULE GatewayWorker -----------------------------
(***************************************************************************)
(* The provider worker of the gateway (gateway.Service.Run and Reconcile)  *)
(* against the gateway_jobs rows of one tenant and against TorBox, which   *)
(* is external and modelled by the calls the worker makes to it.           *)
(*                                                                         *)
(* A Worker is a process running Reconcile: one in the deployment the      *)
(* repository ships, several when gateway replicas share a database.  A    *)
(* pass of Reconcile is cut at every database statement and every provider *)
(* call, so wake-ups, mount verification, other workers and time happen in *)
(* between.  The worker keeps a copy of the row it claimed and writes that *)
(* copy back.                                                              *)
(***************************************************************************)
EXTENDS GatewayRows, Sequences, FiniteSets

CONSTANTS
  Job,             \* jobs of the tenant
  Usenet,          \* the NZB jobs among them; the others are torrents
  NoJob,
  OnAccount,       \* torrents the account holds before their job is added
  Worker,
  RecoverMissing,  \* gateway.recover_missing and rearm_enabled
  SubmitInterval,  \* ticks between two submissions (60 seconds and up)
  PassLimit        \* ticks a pass may last (55 seconds)

ASSUME WorkerConstants ==
  /\ Usenet \subseteq Job /\ NoJob \notin Job
  /\ OnAccount \subseteq Job \ Usenet
  /\ IsFiniteSet(Worker)
  /\ RecoverMissing \in BOOLEAN
  /\ PassLimit \in Nat
  /\ SubmitInterval \in Nat /\ PassLimit < SubmitInterval
  /\ PassLimit < Lease

Torrent == Job \ Usenet

VARIABLES
  row,       \* row[j]: the gateway_jobs row of job j
  gate,      \* ticks until media_cache_cloud_usenet_gate.next_submit_at
  pc,        \* pc[w]: the next statement or call of worker w
  held,      \* held[w]: the job w has claimed
  copy,      \* copy[w]: the Go value j of that pass
  budget,    \* budget[w]: ticks left of the pass context
  provider,  \* provider[j][i]: what became of the i-th placement of j
  recorded,  \* recorded[j]: the uploads a row has ever named (history)
  glitches   \* glitches[j]: false absences since the last other poll result

rowVars == <<row, gate>>
workerVars == <<pc, held, copy, budget>>
history == <<recorded, glitches>>
vars == <<row, gate, pc, held, copy, budget, provider, recorded, glitches>>

--------------------------------------------------------------------------------
\* TorBox.  "queued": accepted into its own queue, no active ID; "evicted":
\* listed, payload no longer present; "gone": not listed (or never accepted).
Placement == {"queued", "active", "ready", "failed", "evicted", "gone"}
Serving == {"active", "ready"}

\* The placement a torrent had already is the first; the others are uploads.
Known(j) == IF j \in OnAccount THEN 1 ELSE 0
Placements(j) == DOMAIN provider[j]
Uploads(j) == {id \in Placements(j) : id > Known(j)}
UploadCount(j) == Len(provider[j]) - Known(j)

StatusOf(j, id) == IF id \in Placements(j) THEN provider[j][id] ELSE "gone"
ServingIds(j) == {id \in Placements(j) : provider[j][id] \in Serving}
StaleIds(j) == {id \in Placements(j) : provider[j][id] \in {"failed", "evicted"}}

--------------------------------------------------------------------------------
CopyType == [state : JobState, attempts : 0 .. MaxAttempts,
             missing : 0 .. MissingThreshold, pid : Nat,
             files : FilesOrNone, delay : {0, Lease}]

Blank == [state |-> "Queued", attempts |-> 0, missing |-> 0, pid |-> 0,
          files |-> NoFiles, delay |-> 0]

\* The columns of a row that the worker carries through its pass.
CopyOf(r) == [state |-> r.state, attempts |-> r.attempts,
              missing |-> r.missing, pid |-> r.pid, files |-> r.files,
              delay |-> 0]

Step == {"idle", "claim", "lookup", "resolve", "preflight", "post", "defer",
         "poll", "write"}

\* Steps of a claimed submission before the provider is asked to add anything.
BeforePost == {"preflight", "post", "defer"}

TypeOK ==
  /\ row \in [Job -> Row]
  /\ gate \in 0 .. SubmitInterval
  /\ pc \in [Worker -> Step]
  /\ held \in [Worker -> Job \cup {NoJob}]
  /\ copy \in [Worker -> CopyType]
  /\ budget \in [Worker -> 0 .. PassLimit]
  /\ provider \in [Job -> Seq(Placement)]
  /\ recorded \in [Job -> SUBSET Nat]
  /\ glitches \in [Job -> Nat]
  /\ \A w \in Worker : pc[w] \notin {"idle", "claim"} => held[w] \in Job

Init ==
  /\ row = [j \in Job |-> NoRow]
  /\ gate = 0
  /\ pc = [w \in Worker |-> "idle"]
  /\ held = [w \in Worker |-> NoJob]
  /\ copy = [w \in Worker |-> Blank]
  /\ budget = [w \in Worker |-> 0]
  /\ provider = [j \in Job |-> IF j \in OnAccount THEN <<"active">> ELSE <<>>]
  /\ recorded = [j \in Job |-> {}]
  /\ glitches = [j \in Job |-> 0]

\* Worker w goes on with step s of its pass, holding job j and the copy c.
Goto(w, s, j, c) ==
  /\ pc' = [pc EXCEPT ![w] = s]
  /\ held' = [held EXCEPT ![w] = j]
  /\ copy' = [copy EXCEPT ![w] = c]
  /\ UNCHANGED budget

\* Reconcile returns.
Return(w) ==
  /\ pc' = [pc EXCEPT ![w] = "idle"]
  /\ held' = [held EXCEPT ![w] = NoJob]
  /\ copy' = [copy EXCEPT ![w] = Blank]
  /\ budget' = [budget EXCEPT ![w] = 0]

--------------------------------------------------------------------------------
\* Reconcile first claims a torrent whose submission outcome is unknown ...
ClaimUnknownGatewayTorrent(w) ==
  /\ pc[w] = "idle"
  /\ \E j \in Torrent :
       /\ UnknownDue(row[j])
       /\ row' = [row EXCEPT ![j].wait = Lease]
       /\ held' = [held EXCEPT ![w] = j]
       /\ copy' = [copy EXCEPT ![w] = CopyOf(row[j])]
  /\ pc' = [pc EXCEPT ![w] = "lookup"]
  /\ budget' = [budget EXCEPT ![w] = PassLimit]
  /\ UNCHANGED <<gate, provider, history>>

\* ... and only when there is none goes on to claim ordinary work.
NoUnknownTorrent(w) ==
  /\ pc[w] = "idle"
  /\ \A j \in Torrent : ~UnknownDue(row[j])
  /\ pc' = [pc EXCEPT ![w] = "claim"]
  /\ budget' = [budget EXCEPT ![w] = PassLimit]
  /\ UNCHANGED <<rowVars, held, copy, provider, history>>

\* The account listing names an active placement of the hash ...
FindActive(w) ==
  /\ pc[w] = "lookup"
  /\ \E id \in ServingIds(held[w]) :
       Goto(w, "resolve", held[w], [copy[w] EXCEPT !.pid = id])
  /\ UNCHANGED <<rowVars, provider, history>>

\* ... or names none or is inconclusive, which changes no more than last_error.
RecordUnknownGatewayLookup(w) ==
  /\ pc[w] = "lookup"
  /\ Return(w)
  /\ UNCHANGED <<rowVars, provider, history>>

ResolveUnknownGatewayTorrent(w) ==
  /\ pc[w] = "resolve"
  /\ LET j == held[w] IN
       /\ row' = [row EXCEPT ![j] = ResolvedRow(@, copy[w].pid)]
       /\ recorded' = [recorded EXCEPT ![j] = @ \cup {row'[j].pid}]
  /\ Return(w)
  /\ UNCHANGED <<gate, provider, glitches>>

\* One transaction: sweep interrupted and exhausted jobs, then claim one that
\* is due.  A queued job is claimed only through the submission gate.
ClaimGatewayJob(w) ==
  /\ pc[w] = "claim"
  /\ LET swept == [j \in Job |-> Swept(row[j])] IN
     \/ \E j \in Job :
          /\ Claimable(swept[j], gate = 0)
          /\ row' = [swept EXCEPT ![j] = ClaimedRow(@)]
          /\ IF swept[j].state = "Queued"
             THEN /\ gate' = SubmitInterval
                  /\ Goto(w, IF j \in Usenet THEN "post" ELSE "preflight", j,
                          [CopyOf(swept[j]) EXCEPT !.attempts = @ + 1])
             ELSE /\ UNCHANGED gate
                  /\ Goto(w, "poll", j, CopyOf(swept[j]))
     \/ /\ \A j \in Job : ~Claimable(swept[j], gate = 0)
        /\ row' = swept
        /\ Return(w)
        /\ UNCHANGED gate
  /\ UNCHANGED <<provider, history>>

--------------------------------------------------------------------------------
\* What the copy becomes once an identity for the submission is known, and
\* once the outcome of the submission is not known.
Accepted(c, id) == [c EXCEPT !.state = "Downloading", !.pid = id,
                             !.missing = 0, !.delay = 0]
Unanswered(c) == [c EXCEPT !.state = "SubmissionUnknown", !.delay = 0]

\* The source is read back (failing to is an unknown outcome, although nothing
\* was sent) and TorrentClient.Submit lists the account: a failed listing or a
\* stale placement defers the submission, an active one is adopted.
Preflight(w) ==
  /\ pc[w] = "preflight"
  /\ LET j == held[w] IN
     \/ Goto(w, "write", j, Unanswered(copy[w]))
     \/ Goto(w, "defer", j, copy[w])
     \/ \E id \in ServingIds(j) : Goto(w, "write", j, Accepted(copy[w], id))
     \/ /\ ServingIds(j) \cup StaleIds(j) = {}
        /\ Goto(w, "post", j, copy[w])
  /\ UNCHANGED <<rowVars, provider, history>>

DeferGatewaySubmission(w) ==
  /\ pc[w] = "defer"
  /\ row' = [row EXCEPT ![held[w]] = DeferredRow(@)]
  /\ Return(w)
  /\ UNCHANGED <<gate, provider, history>>

\* The upload itself.  TorBox accepts it and answers with its ID, accepts it
\* (as active, or into its own queue) and the worker learns no ID, or refuses.
Post(w) ==
  /\ pc[w] = "post"
  /\ LET j == held[w]
         id == Len(provider[j]) + 1
     IN \E outcome \in {"active", "queued", "gone"} :
          /\ provider' = [provider EXCEPT ![j] = Append(@, outcome)]
          /\ \/ /\ outcome = "active"
                /\ Goto(w, "write", j, Accepted(copy[w], id))
             \/ Goto(w, "write", j, Unanswered(copy[w]))
  /\ UNCHANGED <<rowVars, history>>

--------------------------------------------------------------------------------
\* Mutation of AfterAbsence: one confirmation too few.
AfterAbsenceEarly(c) ==
  LET missing == IF c.missing < MissingThreshold THEN c.missing + 1
                 ELSE c.missing
      state == IF missing + 1 < MissingThreshold \/ ~RecoverMissing
               THEN "Missing"
               ELSE IF c.attempts >= MaxAttempts THEN "Failed" ELSE "Queued"
  IN [c EXCEPT !.missing = missing, !.state = state, !.delay = Lease]

\* One absent answer: below the threshold it only counts; at the threshold the
\* job is queued again if recovery is on and attempts are left.
AfterAbsence(c) ==
  LET missing == IF c.missing < MissingThreshold THEN c.missing + 1
                 ELSE c.missing
      state == IF missing < MissingThreshold \/ ~RecoverMissing THEN "Missing"
               ELSE IF c.attempts >= MaxAttempts THEN "Failed" ELSE "Queued"
  IN [c EXCEPT !.missing = missing, !.state = state, !.delay = Lease]

\* Mutation of AfterReady: the new file list is not compared with the old one.
AfterReadyUnchecked(c, f) ==
  [c EXCEPT !.state = IF @ = "Completed" THEN @ ELSE "Mounting",
            !.files = f, !.missing = 0, !.delay = Lease]

\* A ready answer with file list f.  A list of other files than the published
\* one cannot keep the import paths and fails the job; the published files in
\* another order are published again.
AfterReady(c, f) ==
  IF c.files # NoFiles /\ ~SameCatalog(c.files, f)
  THEN [c EXCEPT !.state = "Failed", !.missing = 0, !.delay = Lease]
  ELSE [c EXCEPT !.state = IF @ = "Completed" THEN @ ELSE "Mounting",
                 !.files = f, !.missing = 0, !.delay = Lease]

\* TorBox answers that a serving placement is absent.  Bound: never for
\* MissingThreshold recorded polls in a row, which is what the three
\* confirmations of the code rely on.
FalseAbsence(j) ==
  /\ glitches[j] + 1 < MissingThreshold
  /\ glitches' = [glitches EXCEPT ![j] = @ + 1]

\* Provider.Get of the placement the copy names, and the decision on it.
Poll(w) ==
  /\ pc[w] = "poll"
  /\ LET j == held[w]
         c == copy[w]
         status == StatusOf(j, c.pid)
         Decide(next) == Goto(w, "write", j, next) /\ UNCHANGED glitches
     IN \/ Decide([c EXCEPT !.missing = 0, !.delay = Lease])  \* lookup error
        \/ /\ status = "failed"
           /\ Decide([c EXCEPT !.state = "Failed", !.missing = 0,
                               !.delay = Lease])
        \/ /\ status \in {"queued", "evicted", "gone"}
           /\ Decide(AfterAbsence(c))
        \/ /\ status \in Serving
           /\ FalseAbsence(j)
           /\ Goto(w, "write", j, AfterAbsence(c))
        \/ /\ status = "active"
           /\ Decide([c EXCEPT !.state = "Downloading", !.missing = 0,
                               !.delay = 0])
        \/ /\ status = "ready"
           /\ \E f \in Catalog : Decide(AfterReady(c, f))
  /\ UNCHANGED <<rowVars, provider, recorded>>

UpdateGatewayJob(w) ==
  /\ pc[w] = "write"
  /\ LET j == held[w] IN
       /\ row' = [row EXCEPT ![j] = UpdatedRow(@, copy[w], copy[w].delay)]
       /\ recorded' = [recorded EXCEPT ![j] = @ \cup {copy[w].pid}]
       /\ glitches' = IF copy[w].missing = 0
                      THEN [glitches EXCEPT ![j] = 0] ELSE glitches
  /\ Return(w)
  /\ UNCHANGED <<gate, provider>>

\* A crash, an expired pass, a failed statement or an invalid file list:
\* Reconcile ends here and nothing of the pass is written.
Abandon(w) ==
  /\ pc[w] # "idle"
  /\ Return(w)
  /\ UNCHANGED <<rowVars, provider, history>>

--------------------------------------------------------------------------------
\* A client adds (or adds again) the source of j.
AddGatewaySource(j) ==
  /\ row[j].state = "Absent"
  /\ row' = [row EXCEPT ![j] = AddedRow(@)]
  /\ UNCHANGED <<gate, workerVars, provider, history>>

\* Service.Ensure (each library item that asks for the release), the client's
\* gateway/reconcile call or the dashboard's rearm (RequestGatewayRecovery, on
\* a missing job) make the job due at once.
WakeGatewayJob(j) ==
  /\ row[j].wait > 0 /\ WokenRow(row[j]) # row[j]
  /\ row' = [row EXCEPT ![j] = WokenRow(@)]
  /\ UNCHANGED <<gate, workerVars, provider, history>>

\* The controller completes the job it verified.  Its own guards (the catalog
\* revision it verified, no cleanup requested) only make this rarer.
FinishGatewayMount(j) ==
  /\ row[j].state = "Mounting"
  /\ row' = [row EXCEPT ![j] = VerifiedRow(@)]
  /\ UNCHANGED <<gate, workerVars, provider, history>>

\* TorBox starts, finishes, fails, evicts or drops an upload.
ProviderMove == {<<"queued", "active">>, <<"active", "ready">>,
                 <<"active", "failed">>, <<"ready", "evicted">>,
                 <<"queued", "gone">>, <<"active", "gone">>, <<"ready", "gone">>,
                 <<"failed", "gone">>, <<"evicted", "gone">>}
ProviderStep(j, id) ==
  /\ id \in Placements(j)
  /\ \E move \in ProviderMove :
       /\ provider[j][id] = move[1]
       /\ provider' = [provider EXCEPT ![j][id] = move[2]]
  /\ UNCHANGED <<rowVars, workerVars, history>>

\* Time passes, but not beyond the end of a pass that is still running.
CountDown(n) == IF n > 0 THEN n - 1 ELSE 0
Tick ==
  /\ gate > 0 \/ \E j \in Job : row[j].wait > 0
  /\ \A w \in Worker : pc[w] # "idle" => budget[w] > 0
  /\ row' = [j \in Job |-> [row[j] EXCEPT !.wait = CountDown(@)]]
  /\ gate' = CountDown(gate)
  /\ budget' = [w \in Worker |-> CountDown(budget[w])]
  /\ UNCHANGED <<pc, held, copy, provider, history>>

WorkerNext(w) ==
  \/ ClaimUnknownGatewayTorrent(w) \/ NoUnknownTorrent(w)
  \/ FindActive(w) \/ RecordUnknownGatewayLookup(w)
  \/ ResolveUnknownGatewayTorrent(w)
  \/ ClaimGatewayJob(w) \/ Preflight(w) \/ DeferGatewaySubmission(w)
  \/ Post(w) \/ Poll(w) \/ UpdateGatewayJob(w)

Next ==
  \/ \E w \in Worker : WorkerNext(w) \/ Abandon(w)
  \/ \E j \in Job : AddGatewaySource(j) \/ WakeGatewayJob(j)
                    \/ FinishGatewayMount(j)
  \/ \E j \in Job : \E id \in Placements(j) : ProviderStep(j, id)
  \/ Tick

Spec == Init /\ [][Next]_vars

(***************************************************************************)
(* Fairness.  Service.Run starts a pass every 15 seconds for as long as    *)
(* the process lives, and a restarted process goes on doing so: a worker   *)
(* never stops, and a call or statement it keeps coming back to does not   *)
(* fail every time.  Time passes.  Nothing is assumed of clients, of the   *)
(* controller or of TorBox.                                                *)
(***************************************************************************)
Fairness ==
  /\ SF_vars(Tick)
  /\ \A w \in Worker :
       /\ WF_vars(WorkerNext(w))
       /\ SF_vars(ClaimUnknownGatewayTorrent(w))
       /\ SF_vars(FindActive(w))
       /\ SF_vars(ResolveUnknownGatewayTorrent(w))
       /\ SF_vars(ClaimGatewayJob(w))

FairSpec == Spec /\ Fairness

--------------------------------------------------------------------------------
(***************************************************************************)
(* What must hold for every number of workers.                             *)
(***************************************************************************)

\* The workers that hold an attempt of j they have not spent on an upload.
Reserved(j) == {w \in Worker : held[w] = j /\ pc[w] \in BeforePost}

\* Every upload of a job, and every submission on its way to one, is paid for
\* by an attempt in the row: refunds of deferred submissions, stale writes,
\* interrupted passes and racing workers never let a job exceed MaxAttempts.
UploadBudget ==
  \A j \in Job : UploadCount(j) + Cardinality(Reserved(j)) <= row[j].attempts

\* The worker implements the ledger: an attempt a claim charged is uploaded
\* for once, given back by the worker that holds it, or lost, and no stale
\* write, refund or other replica changes what a job has been charged.
Ledger == INSTANCE SubmissionLedger WITH
  attempts <- [j \in Job |-> row[j].attempts],
  reserved <- [j \in Job |-> Reserved(j)],
  uploads  <- [j \in Job |-> UploadCount(j)]

ImplementsLedger == Ledger!LedgerSpec

\* The tenant's gate admits one submission at a time: while a worker is still
\* about to list or upload, no other worker of any replica can be.
OneSubmissionInFlight ==
  \A v, w \in Worker :
    pc[v] \in {"preflight", "post"} /\ pc[w] \in {"preflight", "post"} => v = w

(***************************************************************************)
(* What must hold when one worker runs at a time.                          *)
(***************************************************************************)

\* What a row says of its job: its state, and the submissions but the first.
PhaseOf(r) ==
  CASE r.state \in {"Queued", "Submitting"}      -> "Queued"
    [] r.state \in {"Downloading", "Mounting"}   -> "Working"
    [] r.state = "SubmissionUnknown"             -> "Unknown"
    [] OTHER                                     -> r.state

Resubmitted(r) ==
  IF r.state \in {"Absent", "Queued"} \/ r.attempts = 0
  THEN r.attempts ELSE r.attempts - 1

\* The worker is a gateway the controller can rely on: whatever the stale
\* write-backs of its polls, no job is submitted again but from Missing and
\* within the limit, nor after a failure or an unknown outcome.  A poll that
\* read Mounting and meets a completion may take it back to work, when the
\* provider listed the files in another order.
Jobs == INSTANCE ReleaseJobs WITH
  Release <- Job, MaxRecoveries <- MaxAttempts - 1,
  job <- [j \in Job |-> PhaseOf(row[j])],
  recoveries <- [j \in Job |-> Resubmitted(row[j])]

ImplementsReleaseJobs == Jobs!JobsSpec

\* A job is uploaded again only when the outcome of every earlier upload has
\* reached its row: a lost response never leads to another upload.
NoBlindRetry ==
  [][\A j \in Job : Len(provider'[j]) > Len(provider[j])
                     => Uploads(j) \subseteq recorded[j]]_vars

\* TorBox never holds two live copies of one job: a torrent the account has is
\* adopted, and the recovery of a missing placement starts only after that
\* placement is really lost.
AtMostOneLiveCopy ==
  \A j \in Job : \A a, b \in Placements(j) :
    /\ provider[j][a] \in Serving \cup {"queued"}
    /\ provider[j][b] \in Serving \cup {"queued"}
    => a = b

\* A submission is never declared interrupted under a pass that still runs:
\* as long as it may upload, its row says Submitting and its lease is alive.
LeaseOutlivesPass ==
  \A w \in Worker : pc[w] \in BeforePost
    => row[held[w]].state = "Submitting" /\ row[held[w]].wait > 0

\* Once a job has published a file list its import paths stay restorable:
\* recovery and later polls never replace or drop the list.
CatalogStable ==
  [][\A j \in Job : row[j].files # NoFiles
        => row'[j].files # NoFiles /\ SameCatalog(row'[j].files, row[j].files)]_vars

(***************************************************************************)
(* What must eventually happen.                                            *)
(***************************************************************************)

\* The outcome of j is unknown and its row names a placement in ids.
UnknownAt(j, ids) == row[j].state = "SubmissionUnknown" /\ row[j].pid \in ids

\* No job stays Submitting: the pass writes an outcome, or the expired lease
\* turns the interrupted submission into one to be inspected.
SubmittingSettles ==
  \A j \in Job : row[j].state = "Submitting" ~> row[j].state # "Submitting"

\* An active upload of a torrent whose first submission lost its response is
\* adopted, unless TorBox loses it before.
UnknownFirstUploadAdopted ==
  \A j \in Torrent :
    UnknownAt(j, {0}) /\ ServingIds(j) # {}
      ~> ~UnknownAt(j, {0}) \/ ServingIds(j) = {}

\* The same without the restriction to a first submission.
UnknownUploadAdopted ==
  \A j \in Torrent :
    UnknownAt(j, Nat) /\ ServingIds(j) # {}
      ~> ~UnknownAt(j, Nat) \/ ServingIds(j) = {}
================================================================================
