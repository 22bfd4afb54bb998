-------------------------------- MODULE MediaRows --------------------------------
(***************************************************************************)
(* One row of media_cache_state, a movie or an episode file of the         *)
(* library, and the SQL statements of internal/db that read and write it.  *)
(* A statement is an operator from the row before it to the row after it.  *)
(*                                                                         *)
(* due stands for next_retry_at: NULL or not later than now().  imported   *)
(* stands for arr_id>0 AND symlink_path<>''.  The states HOT, COOLING and  *)
(* PRUNING are left out: no statement the program executes sets them.      *)
(***************************************************************************)
EXTENDS Naturals

CONSTANT MaxRetries   \* rearms that may fail before a row is left alone

ASSUME RetryConstant == MaxRetries \in Nat \ {0}

MediaState == {"Requested", "Available", "Archived", "Rearming", "Waiting",
               "Broken", "Failed"}

\* "Absent" stands for an item the table has no row for.
MediaRow == [state     : MediaState \cup {"Absent"},
             requested : BOOLEAN,            \* rearm_requested
             retries   : 0 .. MaxRetries,    \* retry_count
             due       : BOOLEAN,
             imported  : BOOLEAN,
             complete  : BOOLEAN]            \* itemHasUsablePath

NoMediaRow == [state |-> "Absent", requested |-> FALSE, retries |-> 0,
               due |-> TRUE, imported |-> FALSE, complete |-> FALSE]

\* A row an earlier version pruned; it may lack the IDs of its series.
PrunedRow(whole) ==
  [NoMediaRow EXCEPT !.state = "Archived", !.imported = TRUE, !.complete = whole]

--------------------------------------------------------------------------------
\* Inventory: a movie is tracked before it has a file, and imported.

TrackedRow(r) ==
  IF r.state = "Absent" THEN [r EXCEPT !.state = "Requested"] ELSE r
ImportedRow(r) ==
  [r EXCEPT !.imported = TRUE, !.complete = TRUE,
            !.state = IF @ \in {"Absent", "Requested"} THEN "Available" ELSE @]

\* A source-less import whose file is gone.
FlaggedRow(r) ==
  IF r.state = "Available" /\ ~r.requested
  THEN [r EXCEPT !.state = "Failed", !.requested = FALSE, !.due = TRUE] ELSE r

--------------------------------------------------------------------------------
\* Requests.

Settled == {"Archived", "Broken", "Failed"}

QueuedForRearm(r) ==
  [r EXCEPT !.state = "Archived", !.requested = TRUE, !.retries = 0, !.due = TRUE]

\* RequestRearm and the forced RequestRearmByTMDB take a row in any state.
ForceRow(r) ==
  IF r.imported /\ r.state \notin {"Absent", "Requested"}
  THEN QueuedForRearm(r) ELSE r

\* Mutation of AskRow: the list of states is left out.
AskRowAnyState(r) == ForceRow(r)

\* RequestRearmByArrIDIfArchived and the unforced RequestRearmByTMDB.
AskRow(r) ==
  IF r.imported /\ r.state \in Settled THEN QueuedForRearm(r) ELSE r

\* MarkPlaybackRearmRequested, for a row with a file.
PlayRow(r) ==
  IF r.imported /\ r.state \in Settled \cup {"Requested"}
  THEN QueuedForRearm(r) ELSE r

\* QueueFullRearm.
FullRearmRow(r) ==
  IF r.imported /\ r.state \in Settled \cup {"Available"}
  THEN QueuedForRearm(r) ELSE r

\* RetryFailed.
RetryRow(r) ==
  IF r.imported /\ r.state \in {"Broken", "Failed", "Waiting"}
  THEN [r EXCEPT !.requested = @ \/ r.state # "Waiting", !.retries = 0,
                 !.due = TRUE]
  ELSE r

--------------------------------------------------------------------------------
\* Work claims and what a handler reports.

\* Mutation of RearmDue: a broken row is not tried again.
RearmDueOnce(r) ==
  /\ r.requested /\ r.state \in {"Archived", "Failed"}
  /\ r.imported /\ r.retries < MaxRetries /\ r.due

\* WHERE clause of RearmWorkItems.
RearmDue(r) ==
  /\ r.requested /\ r.state \in Settled
  /\ r.imported /\ r.retries < MaxRetries /\ r.due

\* WHERE clause of VisibilityWorkItems.
VisibilityDue(r) ==
  r.state = "Waiting" /\ r.requested /\ r.imported /\ r.due

RearmingRow(r) == [r EXCEPT !.state = "Rearming"]

WaitingRow(r) ==
  [r EXCEPT !.state = "Waiting", !.requested = TRUE, !.due = FALSE]

AvailableRow(r) ==
  [r EXCEPT !.state = "Available", !.requested = FALSE, !.retries = 0, !.due = TRUE]

\* MarkFailed; the count stops at MaxRetries, where the row stops being due.
FailedRow(r) ==
  LET last == r.retries + 1 >= MaxRetries IN
  [r EXCEPT !.state = IF last THEN "Failed" ELSE "Broken",
            !.retries = IF last THEN MaxRetries ELSE @ + 1,
            !.due = last]

\* MarkSourceRecoveryRequired.
SourceRequiredRow(r) ==
  [r EXCEPT !.state = "Failed", !.requested = FALSE, !.due = TRUE]

\* MarkRequestedMetadataPending.
MetadataPendingRow(r) ==
  [r EXCEPT !.state = "Requested", !.requested = FALSE, !.retries = 0, !.due = TRUE]

\* Mutation of RecoveryRow: the row is not handed to the visibility worker.
RecoveryRowUnrequested(r) ==
  IF r.state \in {"Available", "Broken"} /\ ~r.requested
  THEN [r EXCEPT !.state = "Waiting", !.due = TRUE] ELSE r

\* GatewayRecoveryWaiting.
RecoveryRow(r) ==
  IF r.state \in {"Available", "Broken"} /\ ~r.requested
  THEN [r EXCEPT !.state = "Waiting", !.requested = TRUE, !.due = TRUE] ELSE r
================================================================================
