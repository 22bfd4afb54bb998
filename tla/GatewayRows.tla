------------------------------ MODULE GatewayRows ------------------------------
(***************************************************************************)
(* One row of the gateway_jobs table, as the provider worker sees it, and  *)
(* the SQL statements of internal/db that read and write it.  A statement  *)
(* is an operator from the row before it to the row after it; statements   *)
(* are atomic, so a module that uses them takes one action per statement.  *)
(*                                                                         *)
(* next_check_at is the countdown wait: the ticks until the row is due.    *)
(* Every delay the code uses is either no longer than one worker pass (an  *)
(* active poll, 15 seconds and up) or longer than one (the 1, 5, 15 and 60 *)
(* minute delays and the 5 minute lease, against a pass of 55 seconds), so *)
(* two lengths are enough: 0 and Lease.                                    *)
(*                                                                         *)
(* The columns of mount verification and client visibility (hidden,        *)
(* cleanup_requested, catalog_revision, release_folder, verify_next_at)    *)
(* are not read by the statements below; they belong to the mount worker.  *)
(***************************************************************************)
EXTENDS Naturals

CONSTANTS
  MaxAttempts,       \* submission attempts a job may spend (3 in the code)
  MissingThreshold,  \* absent polls in a row that confirm a loss (3)
  Lease,             \* ticks of the 5 minute claim and of every long delay
  Catalog,           \* the file lists a provider may report
  Content,           \* Content[f]: the names and sizes that list f holds
  NoFiles            \* files = [] : no catalog published yet

ASSUME RowConstants ==
  /\ MaxAttempts \in Nat \ {0}
  /\ MissingThreshold \in Nat \ {0}
  /\ Lease \in Nat \ {0}
  /\ NoFiles \notin Catalog
  /\ Catalog \subseteq DOMAIN Content

JobState == {"Queued", "Submitting", "Downloading", "Missing", "Mounting",
             "Completed", "Failed", "SubmissionUnknown"}

\* States no claim and no wake-up ever touches.
Parked == {"Failed", "SubmissionUnknown", "Submitting"}

FilesOrNone == Catalog \cup {NoFiles}

\* Two lists of the same files may still differ, in their order or in the
\* provider's file ids.
SameCatalog(f, g) == Content[f] = Content[g]

\* "Absent" stands for a job the table has no row for yet.
Row == [state    : JobState \cup {"Absent"},
        attempts : 0 .. MaxAttempts,
        missing  : 0 .. MissingThreshold,
        pid      : Nat,
        files    : FilesOrNone,
        wait     : 0 .. Lease]

NoRow == [state |-> "Absent", attempts |-> 0, missing |-> 0, pid |-> 0,
          files |-> NoFiles, wait |-> 0]

\* INSERT of a new job; the ON CONFLICT branch leaves these columns alone.
AddedRow(r) ==
  IF r.state = "Absent" THEN [r EXCEPT !.state = "Queued"] ELSE r

\* Mutations of ExpireSubmission: an interrupted submission is queued again;
\* it is never looked at.
ExpiredToQueue(r) ==
  IF r.state = "Submitting" /\ r.wait = 0
  THEN [r EXCEPT !.state = "Queued"] ELSE r
NeverExpired(r) == r

\* Mutation of ExpireSubmission: the interrupted submission's attempt is refunded.
ExpiredRefunded(r) ==
  IF r.state = "Submitting" /\ r.wait = 0
  THEN [r EXCEPT !.state = "SubmissionUnknown", !.attempts = @ - 1] ELSE r

\* First statement of a claim: an interrupted submission is indeterminate.
ExpireSubmission(r) ==
  IF r.state = "Submitting" /\ r.wait = 0
  THEN [r EXCEPT !.state = "SubmissionUnknown"] ELSE r

\* Mutation of FailExhausted: the limit is compared one too late.
FailExhaustedLate(r) ==
  IF r.state = "Queued" /\ r.attempts > MaxAttempts
  THEN [r EXCEPT !.state = "Failed"] ELSE r

\* Second statement of a claim: a queued job without budget fails.
FailExhausted(r) ==
  IF r.state = "Queued" /\ r.attempts >= MaxAttempts
  THEN [r EXCEPT !.state = "Failed"] ELSE r

Swept(r) == FailExhausted(ExpireSubmission(r))

\* Mutation of Claimable: the submission gate is not looked at.
ClaimableUngated(r, gateOpen) ==
  r.state \notin Parked \cup {"Absent"} /\ r.wait = 0

\* Mutation of Claimable: failed jobs are polled too.
ClaimableFailed(r, gateOpen) ==
  /\ r.state \notin (Parked \ {"Failed"}) \cup {"Absent"}
  /\ r.wait = 0
  /\ r.state = "Queued" => gateOpen

\* WHERE clause of the claim.
Claimable(r, gateOpen) ==
  /\ r.state \notin Parked \cup {"Absent"}
  /\ r.wait = 0
  /\ r.state = "Queued" => gateOpen

ClaimedRow(r) ==
  IF r.state = "Queued"
  THEN [r EXCEPT !.state = "Submitting", !.attempts = @ + 1, !.wait = Lease]
  ELSE [r EXCEPT !.wait = Lease]

\* Mutation of UpdatedRow: the copy's attempts are written back as well.
UpdatedWholeRow(r, j, delay) ==
  [r EXCEPT !.state = j.state, !.attempts = j.attempts, !.pid = j.pid,
            !.files = j.files, !.missing = j.missing, !.wait = delay]

\* Writes back what a worker made of its copy j of the row, whatever the row
\* holds by now; only a completed job refuses to be Mounting again, and only
\* with the very list it holds: the comparison of jsonb sees order and ids.
UpdatedRow(r, j, delay) ==
  [r EXCEPT !.state   = IF /\ r.state = "Completed" /\ j.state = "Mounting"
                           /\ r.pid = j.pid /\ r.files = j.files
                        THEN "Completed" ELSE j.state,
            !.pid     = j.pid,
            !.files   = j.files,
            !.missing = j.missing,
            !.wait    = delay]

\* A submission that never reached the provider gives its attempt back.
DeferredRow(r) ==
  IF r.state = "Submitting"
  THEN [r EXCEPT !.state = "Queued",
                 !.attempts = IF @ > 0 THEN @ - 1 ELSE 0,
                 !.wait = Lease]
  ELSE r

\* Mutation of WokenRow: a submitting row is woken too.
WokenEvenSubmitting(r) ==
  IF r.state \notin (Parked \ {"Submitting"}) \cup {"Absent"}
  THEN [r EXCEPT !.wait = 0] ELSE r

WokenRow(r) ==
  IF r.state \notin Parked \cup {"Absent"} THEN [r EXCEPT !.wait = 0] ELSE r

\* WHERE clause of the lookup claim, for a torrent row.
UnknownDue(r) == r.state = "SubmissionUnknown" /\ r.pid = 0 /\ r.wait = 0

\* Mutation of ResolvedRow: it expects the state of a running submission.
ResolvedIfSubmitting(r, id) ==
  IF r.state = "Submitting" /\ r.pid = 0
  THEN [r EXCEPT !.pid = id, !.state = "Downloading", !.wait = 0]
  ELSE r

ResolvedRow(r, id) ==
  IF r.state = "SubmissionUnknown" /\ r.pid = 0
  THEN [r EXCEPT !.pid = id, !.state = "Downloading", !.wait = 0]
  ELSE r

\* The controller's verified completion of a published catalog.
VerifiedRow(r) ==
  IF r.state = "Mounting" THEN [r EXCEPT !.state = "Completed"] ELSE r
================================================================================
