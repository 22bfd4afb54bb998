--------------------------- MODULE MediaLifecycle_proofs ---------------------------
(***************************************************************************)
(* Proofs about the media rows, for any number of items, releases and      *)
(* requests and any limits:                                                *)
(*                                                                         *)
(* for any number of replicas,                                             *)
(*                                                                         *)
(*   MediaTypeCorrect       Spec => []TypeOK                               *)
(*   RequestsHeardByAll     Spec => []RequestsHeard                        *)
(*   JobsAsPromised         Spec => Jobs!JobsSpec, with ReleaseJobs        *)
(*   PromiseCovered         and every move of a job it allows is Gateway's *)
(*                                                                         *)
(* and, when one replica runs the rearm loop:                              *)
(*                                                                         *)
(*   OpenRequestsKept       Spec => []OpenRequestsReachable                *)
(*   GuardedRequestsServed  Spec => GuardedRequestsKept                    *)
(***************************************************************************)
EXTENDS MediaLifecycle, TLAPS

--------------------------------------------------------------------------------
(***************************************************************************)
(* What a statement makes of a row.                                        *)
(***************************************************************************)

Open == {"Archived", "Broken", "Failed", "Rearming", "Waiting"}

\* A row is sound when its request, if any, can still be claimed or is being
\* handled, and when without one it is in no state that waits for a claim.
Sound(r) ==
  /\ r \in MediaRow
  /\ r.state \notin {"Absent", "Requested"} => r.imported
  /\ r.requested => r.state \in Open
  /\ ~r.requested => r.state \notin {"Rearming", "Waiting", "Broken"}
  /\ r.requested /\ r.state \in {"Archived", "Broken"} => r.retries < MaxRetries

\* q follows r by a statement of a client, the library or the gateway.
Follows(r, q) ==
  /\ Sound(q)
  /\ r.requested => q.requested
  /\ q.state = "Rearming" => r.state = "Rearming"

\* ... which leaves the rows alone that a handler may have.
Spares(r, q) ==
  /\ Follows(r, q)
  /\ r.state \in {"Rearming", "Waiting"} => q.state = r.state

LEMMA RowForms ==
  ASSUME NEW r \in MediaRow
  PROVE  /\ r.state \in MediaState \cup {"Absent"} /\ r.requested \in BOOLEAN
         /\ r.retries \in 0 .. MaxRetries /\ r.due \in BOOLEAN
         /\ r.imported \in BOOLEAN /\ r.complete \in BOOLEAN
  BY DEF MediaRow

LEMMA NoRowSound == Sound(NoMediaRow) /\ \A whole \in BOOLEAN : Sound(PrunedRow(whole))
<1>1. 0 \in 0 .. MaxRetries
  BY RetryConstant
<1>2. NoMediaRow \in MediaRow
  BY <1>1 DEF NoMediaRow, MediaRow
<1>3. Sound(NoMediaRow)
  BY <1>2 DEF Sound, NoMediaRow
<1>4. ASSUME NEW whole \in BOOLEAN
      PROVE  Sound(PrunedRow(whole))
  <2>1. /\ PrunedRow(whole) \in MediaRow /\ PrunedRow(whole).state = "Archived"
        /\ PrunedRow(whole).imported /\ ~PrunedRow(whole).requested
    BY <1>1 DEF PrunedRow, NoMediaRow, MediaRow, MediaState
  <2> QED
    BY <2>1 DEF Sound
<1> QED
  BY <1>3, <1>4

LEMMA QueuedSound ==
  ASSUME NEW r \in MediaRow, r.imported
  PROVE  /\ Sound(QueuedForRearm(r)) /\ QueuedForRearm(r).requested
         /\ QueuedForRearm(r).state = "Archived"
         /\ Sound([QueuedForRearm(r) EXCEPT !.state = "Waiting"])
         /\ [QueuedForRearm(r) EXCEPT !.state = "Waiting"].requested
<1> DEFINE q == QueuedForRearm(r)
           w == [q EXCEPT !.state = "Waiting"]
<1>. /\ 0 \in 0 .. MaxRetries /\ 0 < MaxRetries
  BY RetryConstant
<1>1. /\ q \in MediaRow /\ q.state = "Archived" /\ q.requested /\ q.imported
      /\ q.retries = 0
  BY DEF QueuedForRearm, MediaRow, MediaState
<1> HIDE DEF q
<1>2. w \in MediaRow /\ w.state = "Waiting" /\ w.requested /\ w.imported
  BY <1>1 DEF MediaRow, MediaState
<1> HIDE DEF w
<1>3. Sound(q) /\ Sound(w)
  BY <1>1, <1>2 DEF Sound, Open
<1> QED
  BY <1>1, <1>2, <1>3 DEF q, w

LEMMA SameSpares ==
  ASSUME NEW r, Sound(r)
  PROVE  Spares(r, r)
  BY DEF Spares, Follows

LEMMA ForceFollows ==
  ASSUME NEW r, Sound(r)
  PROVE  Follows(r, ForceRow(r))
  BY QueuedSound DEF ForceRow, Follows, Sound

LEMMA GuardedSpare ==
  ASSUME NEW r, Sound(r)
  PROVE  Spares(r, AskRow(r)) /\ Spares(r, PlayRow(r)) /\ Spares(r, FullRearmRow(r))
<1>1. r \in MediaRow
  BY DEF Sound
<1>2. r.imported => Follows(r, QueuedForRearm(r))
  BY <1>1, QueuedSound DEF Follows
<1> QED
  BY <1>2, SameSpares DEF Spares, AskRow, PlayRow, FullRearmRow, Settled

LEMMA RetrySpares ==
  ASSUME NEW r, Sound(r)
  PROVE  Spares(r, RetryRow(r))
<1>1. r \in MediaRow
  BY DEF Sound
<1> DEFINE q == [r EXCEPT !.requested = @ \/ r.state # "Waiting", !.retries = 0, !.due = TRUE]
<1>2. CASE r.imported /\ r.state \in {"Broken", "Failed", "Waiting"}
  <2>1. r.requested \/ r.state # "Waiting"
    BY <1>2 DEF Sound
  <2>2. q = [r EXCEPT !.requested = TRUE, !.retries = 0, !.due = TRUE]
    BY <1>1, <2>1 DEF MediaRow
  <2>3. 0 \in 0 .. MaxRetries
    BY RetryConstant
  <2>4. RetryRow(r) = q
    BY <1>2 DEF RetryRow
  <2> HIDE DEF q
  <2>5. /\ q \in MediaRow /\ q.state = r.state /\ q.imported /\ q.retries = 0
        /\ q.requested
    BY <1>1, <1>2, <2>2, <2>3 DEF MediaRow
  <2>6. Sound(q)
    BY <2>5, <1>2, RetryConstant DEF Sound, Open
  <2> QED
    BY <2>4, <2>5, <2>6, <1>2 DEF Spares, Follows
<1>3. CASE ~(r.imported /\ r.state \in {"Broken", "Failed", "Waiting"})
  BY <1>3, SameSpares DEF RetryRow
<1> QED
  BY <1>2, <1>3

LEMMA LibrarySpares ==
  ASSUME NEW r, Sound(r)
  PROVE  /\ Spares(r, TrackedRow(r)) /\ Spares(r, ImportedRow(r)) /\ Spares(r, FlaggedRow(r))
         /\ Spares(r, [r EXCEPT !.due = TRUE])
<1>1. r \in MediaRow
  BY DEF Sound
<1>2. Spares(r, TrackedRow(r))
  BY <1>1 DEF TrackedRow, Spares, Follows, Sound, MediaRow, MediaState, Open
<1>3. Spares(r, ImportedRow(r))
  BY <1>1 DEF ImportedRow, Spares, Follows, Sound, MediaRow, MediaState, Open
<1>4. Spares(r, FlaggedRow(r))
  BY <1>1 DEF FlaggedRow, Spares, Follows, Sound, MediaRow, MediaState, Open
<1>5. Spares(r, [r EXCEPT !.due = TRUE])
  BY <1>1 DEF Spares, Follows, Sound, MediaRow, MediaState, Open
<1> QED
  BY <1>2, <1>3, <1>4, <1>5

LEMMA RecoverySpares ==
  ASSUME NEW r, Sound(r)
  PROVE  Spares(r, RecoveryRow(r))
<1> DEFINE q == [r EXCEPT !.state = "Waiting", !.requested = TRUE, !.due = TRUE]
<1>1. CASE r.state \in {"Available", "Broken"} /\ ~r.requested
  <2>1. q \in MediaRow /\ q.state = "Waiting" /\ q.requested /\ q.imported
    BY <1>1 DEF Sound, MediaRow, MediaState
  <2>2. RecoveryRow(r) = q
    BY <1>1 DEF RecoveryRow
  <2> HIDE DEF q
  <2> QED
    BY <1>1, <2>1, <2>2 DEF Spares, Follows, Sound, Open
<1>2. CASE ~(r.state \in {"Available", "Broken"} /\ ~r.requested)
  BY <1>2, SameSpares DEF RecoveryRow
<1> QED
  BY <1>1, <1>2

\* q is what a handler leaves of a row.
Verdict(q) == Sound(q) /\ q.state # "Rearming"

LEMMA VerdictsSound ==
  ASSUME NEW r, Sound(r), r.requested
  PROVE  /\ Verdict(SourceRequiredRow(r)) /\ Verdict(MetadataPendingRow(r))
         /\ Verdict(AvailableRow(r)) /\ Verdict(WaitingRow(r)) /\ Verdict(FailedRow(r))
         /\ Sound(RearmingRow(r)) /\ RearmingRow(r).requested
         /\ RearmingRow(r).state = "Rearming"
<1>1. /\ r \in MediaRow /\ r.retries \in 0 .. MaxRetries /\ MaxRetries \in Nat \ {0}
      /\ r.imported /\ r.requested /\ 0 \in 0 .. MaxRetries
  BY RetryConstant DEF Sound, MediaRow, Open
<1>2. Verdict(SourceRequiredRow(r))
  BY <1>1 DEF SourceRequiredRow, Verdict, Sound, MediaRow, MediaState
<1>3. Verdict(MetadataPendingRow(r))
  BY <1>1 DEF MetadataPendingRow, Verdict, Sound, MediaRow, MediaState
<1>4. Verdict(AvailableRow(r))
  BY <1>1 DEF AvailableRow, Verdict, Sound, MediaRow, MediaState
<1>5. Verdict(WaitingRow(r))
  BY <1>1 DEF WaitingRow, Verdict, Sound, MediaRow, MediaState, Open
<1>6. /\ Sound(RearmingRow(r)) /\ RearmingRow(r).requested
      /\ RearmingRow(r).state = "Rearming"
  BY <1>1 DEF RearmingRow, Sound, MediaRow, MediaState, Open
<1>7. Verdict(FailedRow(r))
  <2> DEFINE last == r.retries + 1 >= MaxRetries
             q == [r EXCEPT !.state = IF last THEN "Failed" ELSE "Broken",
                            !.retries = IF last THEN MaxRetries ELSE @ + 1,
                            !.due = last]
  <2>1. /\ (IF last THEN MaxRetries ELSE r.retries + 1) \in 0 .. MaxRetries
        /\ ~last => r.retries + 1 < MaxRetries
    BY <1>1
  <2>2. FailedRow(r) = q
    BY DEF FailedRow
  <2>3. last \in BOOLEAN
    OBVIOUS
  <2> HIDE DEF last
  <2>4. /\ q \in MediaRow /\ q.state = (IF last THEN "Failed" ELSE "Broken")
        /\ q.retries = (IF last THEN MaxRetries ELSE r.retries + 1)
        /\ q.requested = r.requested /\ q.imported = r.imported
    BY <1>1, <2>1, <2>3 DEF MediaRow, MediaState
  <2> HIDE DEF q
  <2> QED
    BY <1>1, <2>1, <2>2, <2>4 DEF Verdict, Sound, Open
<1> QED
  BY <1>2, <1>3, <1>4, <1>5, <1>6, <1>7

--------------------------------------------------------------------------------
(***************************************************************************)
(* Types.                                                                  *)
(***************************************************************************)

\* A recovery that has warned the rows may still be counted.
TypeInv ==
  /\ TypeOK
  /\ \A r \in Release : job[r] = "Warned" => recoveries[r] < MaxRecoveries

LEMMA StatementsTyped ==
  ASSUME NEW r \in MediaRow
  PROVE  /\ TrackedRow(r) \in MediaRow /\ ImportedRow(r) \in MediaRow
         /\ FlaggedRow(r) \in MediaRow /\ QueuedForRearm(r) \in MediaRow
         /\ [QueuedForRearm(r) EXCEPT !.state = "Waiting"] \in MediaRow
         /\ ForceRow(r) \in MediaRow /\ AskRow(r) \in MediaRow /\ PlayRow(r) \in MediaRow
         /\ FullRearmRow(r) \in MediaRow /\ RetryRow(r) \in MediaRow
         /\ RecoveryRow(r) \in MediaRow /\ [r EXCEPT !.due = TRUE] \in MediaRow
<1>1. 0 \in 0 .. MaxRetries
  BY RetryConstant
<1>2. QueuedForRearm(r) \in MediaRow
  BY <1>1 DEF QueuedForRearm, MediaRow, MediaState
<1>3. [QueuedForRearm(r) EXCEPT !.state = "Waiting"] \in MediaRow
  BY <1>2 DEF MediaRow, MediaState
<1>4. /\ ForceRow(r) \in MediaRow /\ AskRow(r) \in MediaRow /\ PlayRow(r) \in MediaRow
      /\ FullRearmRow(r) \in MediaRow
  BY <1>2 DEF ForceRow, AskRow, PlayRow, FullRearmRow
<1>5. TrackedRow(r) \in MediaRow
  BY DEF TrackedRow, MediaRow, MediaState
<1>6. ImportedRow(r) \in MediaRow
  BY DEF ImportedRow, MediaRow, MediaState
<1>7. FlaggedRow(r) \in MediaRow
  BY DEF FlaggedRow, MediaRow, MediaState
<1>8. RecoveryRow(r) \in MediaRow
  BY DEF RecoveryRow, MediaRow, MediaState
<1>9. [r EXCEPT !.due = TRUE] \in MediaRow
  BY DEF MediaRow
<1>10. RetryRow(r) \in MediaRow
  <2>1. (r.requested \/ r.state # "Waiting") \in BOOLEAN
    OBVIOUS
  <2> QED
    BY <1>1, <2>1 DEF RetryRow, MediaRow
<1> QED
  BY <1>2, <1>3, <1>4, <1>5, <1>6, <1>7, <1>8, <1>9, <1>10

LEMMA VerdictsTyped ==
  ASSUME NEW r \in MediaRow
  PROVE  /\ SourceRequiredRow(r) \in MediaRow /\ MetadataPendingRow(r) \in MediaRow
         /\ AvailableRow(r) \in MediaRow /\ WaitingRow(r) \in MediaRow
         /\ FailedRow(r) \in MediaRow /\ RearmingRow(r) \in MediaRow
<1>1. 0 \in 0 .. MaxRetries /\ MaxRetries \in Nat \ {0}
  BY RetryConstant
<1>2. /\ SourceRequiredRow(r) \in MediaRow /\ MetadataPendingRow(r) \in MediaRow
      /\ AvailableRow(r) \in MediaRow /\ WaitingRow(r) \in MediaRow
      /\ RearmingRow(r) \in MediaRow
  BY <1>1 DEF SourceRequiredRow, MetadataPendingRow, AvailableRow, WaitingRow, RearmingRow,
              MediaRow, MediaState
<1>3. FailedRow(r) \in MediaRow
  <2> DEFINE last == r.retries + 1 >= MaxRetries
  <2>1. (IF last THEN MaxRetries ELSE r.retries + 1) \in 0 .. MaxRetries /\ last \in BOOLEAN
    BY <1>1 DEF MediaRow
  <2>2. FailedRow(r) = [r EXCEPT !.state = IF last THEN "Failed" ELSE "Broken",
                                 !.retries = IF last THEN MaxRetries ELSE @ + 1,
                                 !.due = last]
    BY DEF FailedRow
  <2> HIDE DEF last
  <2> QED
    BY <2>1, <2>2 DEF MediaRow, MediaState
<1> QED
  BY <1>2, <1>3

\* The rows and the histories may change, nothing else does but one of the
\* other tables.
LEMMA ClientsTyped == TypeInv /\ Clients => TypeInv'
<1> SUFFICES ASSUME TypeInv, Clients PROVE TypeInv'
  OBVIOUS
<1>1. ASSUME NEW S \in SUBSET Item, NEW new \in [Item -> MediaRow], Request(S, new)
      PROVE  TypeInv'
  BY <1>1 DEF Request, TypeInv, TypeOK, workers
<1>2. CASE QueueFullRearm
  <2>1. Changed(Item, FullRearmRow) \in [Item -> MediaRow]
    BY StatementsTyped DEF Changed, TypeInv, TypeOK
  <2> QED
    BY <1>1, <1>2, <2>1 DEF QueueFullRearm
<1>3. CASE RetryFailed
  <2>1. PICK S \in SUBSET Item : Request(S, Changed(S, RetryRow))
    BY <1>3 DEF RetryFailed
  <2>2. Changed(S, RetryRow) \in [Item -> MediaRow]
    BY StatementsTyped DEF Changed, TypeInv, TypeOK
  <2> QED
    BY <1>1, <2>1, <2>2
<1>4. ASSUME NEW i \in Item, ForceRequest(i) \/ AskRequest(i) \/ Playback(i)
      PROVE  TypeInv'
  <2>1. Changed({i}, ForceRow) \in [Item -> MediaRow]
    BY StatementsTyped DEF Changed, TypeInv, TypeOK
  <2>2. Changed({i}, AskRow) \in [Item -> MediaRow]
    BY StatementsTyped DEF Changed, TypeInv, TypeOK
  <2>3. Changed({i}, PlayRow) \in [Item -> MediaRow]
    BY StatementsTyped DEF Changed, TypeInv, TypeOK
  <2> QED
    BY <1>1, <1>4, <2>1, <2>2, <2>3 DEF ForceRequest, AskRequest, Playback
<1>5. ASSUME NEW q \in SeerrRequest, RequestSeerrTV(q)
      PROVE  TypeInv'
  <2>1. \A i \in Item : row'[i] \in {row[i], QueuedForRearm(row[i]),
                                     [QueuedForRearm(row[i]) EXCEPT !.state = "Waiting"]}
    BY <1>5 DEF RequestSeerrTV
  <2>2. \A i \in Item : row'[i] \in MediaRow
    <3> SUFFICES ASSUME NEW i \in Item PROVE row'[i] \in MediaRow
      OBVIOUS
    <3>1. row[i] \in MediaRow
      BY DEF TypeInv, TypeOK
    <3>2. /\ QueuedForRearm(row[i]) \in MediaRow
          /\ [QueuedForRearm(row[i]) EXCEPT !.state = "Waiting"] \in MediaRow
      BY <3>1, StatementsTyped
    <3> HIDE DEF MediaRow
    <3> QED
      BY <2>1, <3>1, <3>2 DEF QueuedForRearm
  <2>3. \E F \in Firsts(Candidates(q)) :
       row' = [i \in Item |->
                 IF i \notin Candidates(q) THEN row[i]
                 ELSE IF i \in F /\ ~Active(releaseOf[i]) THEN QueuedForRearm(row[i])
                 ELSE [QueuedForRearm(row[i]) EXCEPT !.state = "Waiting"]]
    BY <1>5 DEF RequestSeerrTV
  <2>4. row' \in [Item -> MediaRow]
    BY <2>2, <2>3
  <2>5. Candidates(q) \subseteq Item
    BY DEF Candidates, TypeInv, TypeOK
  <2> QED
    BY <1>5, <2>4, <2>5 DEF RequestSeerrTV, TypeInv, TypeOK, workers
<1> QED
  BY <1>2, <1>3, <1>4, <1>5 DEF Clients

LEMMA LibraryTyped == TypeInv /\ Library => TypeInv'
<1> SUFFICES ASSUME TypeInv, NEW i \in Item,
                    \/ Track(i) \/ Import(i) \/ LinkSource(i) \/ FlagMissing(i)
                    \/ Delete(i) \/ RetryDue(i)
             PROVE  TypeInv'
  BY DEF Library
<1>1. row[i] \in MediaRow
  BY DEF TypeInv, TypeOK
<1>2. ASSUME NEW r \in MediaRow, row' = [row EXCEPT ![i] = r], source' \subseteq Item,
             UNCHANGED <<job, recoveries, consumed, workers, histories>>
      PROVE  TypeInv'
  BY <1>2 DEF TypeInv, TypeOK, workers, histories
<1>3. CASE Track(i) \/ Import(i) \/ FlagMissing(i)
  BY <1>1, <1>2, <1>3, StatementsTyped DEF Track, Import, FlagMissing, Observe, TypeInv, TypeOK
<1>4. CASE LinkSource(i)
  BY <1>4 DEF LinkSource, TypeInv, TypeOK, workers, histories
<1>5. CASE RetryDue(i)
  <2>1. row' = [row EXCEPT ![i] = [row[i] EXCEPT !.due = TRUE]]
    BY <1>5, <1>1 DEF RetryDue, TypeInv, TypeOK
  <2> QED
    BY <1>1, <1>2, <1>5, <2>1, StatementsTyped DEF RetryDue, TypeInv, TypeOK
<1>6. CASE Delete(i)
  <2>1. NoMediaRow \in MediaRow
    BY NoRowSound DEF Sound
  <2>2. \A c \in Controller : step[c] \in [Item -> Step] /\ step[c][i] \in Step
    BY DEF TypeInv, TypeOK
  <2>3. step' \in [Controller -> [Item -> Step]]
    <3>1. \A c \in Controller : step'[c] \in [Item -> Step]
      <4> SUFFICES ASSUME NEW c \in Controller PROVE step'[c] \in [Item -> Step]
        OBVIOUS
      <4> DEFINE s == CASE step[c][i] = "none" -> step[c][i]
                        [] step[c][i] = "ensure" -> "orphanEnsure" [] OTHER -> "orphan"
      <4>1. s \in Step
        BY DEF Step
      <4>2. step'[c] = [step[c] EXCEPT ![i] = s]
        BY <1>6, <2>2 DEF Delete
      <4> HIDE DEF s
      <4> QED
        BY <4>1, <4>2, <2>2
    <3> QED
      BY <3>1, <1>6 DEF Delete
  <2> QED
    BY <1>6, <2>1, <2>3 DEF Delete, TypeInv, TypeOK
<1> QED
  BY <1>3, <1>4, <1>5, <1>6

LEMMA GatewayTyped == TypeInv /\ Gateway => TypeInv'
<1> SUFFICES ASSUME TypeInv, NEW r \in Release,
                    \/ GrabRelease(r) \/ JobSettles(r) \/ JobAdopted(r) \/ JobFails(r)
                    \/ JobRelisted(r) \/ PlacementLost(r) \/ RecoveryInterrupted(r)
             PROVE  TypeInv'
  BY DEF Gateway
<1>1. ASSUME NEW from, NEW to \in JobState \ {"Warned"}, JobMoves(r, from, to),
             UNCHANGED recoveries
      PROVE  TypeInv'
  BY <1>1 DEF JobMoves, TypeInv, TypeOK, workers, histories
<1>2. CASE Requeue(r)
  <2>1. /\ job[r] = "Warned" /\ job' = [job EXCEPT ![r] = "Queued"]
        /\ recoveries' = [recoveries EXCEPT ![r] = @ + 1]
        /\ UNCHANGED <<row, source, consumed, workers, histories>>
    BY <1>2 DEF Requeue, JobMoves
  <2>2. recoveries[r] + 1 \in 0 .. MaxRecoveries
    BY <2>1, MediaConstants DEF TypeInv, TypeOK
  <2> QED
    BY <2>1, <2>2 DEF TypeInv, TypeOK, JobState, workers, histories
<1>3. CASE WarnRelated(r)
  <2>1. row' \in [Item -> MediaRow]
    BY <1>3, StatementsTyped DEF WarnRelated, Changed, TypeInv, TypeOK
  <2> QED
    BY <1>3, <2>1 DEF WarnRelated, TypeInv, TypeOK, JobState, workers, histories
<1>4. CASE \/ GrabRelease(r) \/ JobSubmitted(r) \/ JobFinishes(r) \/ PlacementFound(r)
           \/ RecoveryLimit(r) \/ JobAdopted(r) \/ JobFails(r) \/ JobRelisted(r)
           \/ PlacementLost(r) \/ RecoveryInterrupted(r)
  BY <1>1, <1>4 DEF GrabRelease, JobSubmitted, JobFinishes, PlacementFound, RecoveryLimit,
                    JobAdopted, JobFails, JobRelisted, PlacementLost, RecoveryInterrupted, JobState
<1> QED
  BY <1>2, <1>3, <1>4 DEF JobSettles

LEMMA ClaimedPart ==
  ASSUME NEW due \in SUBSET Item, NEW S \in Claimed(due)
  PROVE  S \subseteq due
<1> DEFINE n == IF Cardinality(due) < MaxRearmsPerRun THEN Cardinality(due)
                ELSE MaxRearmsPerRun
<1>1. S \in kSubset(n, due) \/ S = {}
  BY DEF Claimed
<1> QED
  BY <1>1 DEF kSubset

LEMMA BeginTyped ==
  ASSUME TypeInv, NEW c \in Controller, NEW S \in SUBSET Item,
         NEW first \in {"start", "ready"}, Begin(c, S, first)
  PROVE  /\ step' \in [Controller -> [Item -> Step]]
         /\ unseen' \subseteq Item /\ abandoned' \subseteq Item
<1>1. [i \in Item |-> IF i \notin S THEN "none"
                     ELSE IF row[i].complete THEN first ELSE "pending"] \in [Item -> Step]
  BY DEF Step
<1> QED
  BY <1>1 DEF Begin, TypeInv, TypeOK

LEMMA ControlTyped == TypeInv /\ (\E c \in Controller : Control(c)) => TypeInv'
<1> SUFFICES ASSUME TypeInv, NEW c \in Controller, Control(c)
             PROVE  TypeInv'
  OBVIOUS
<1>1. CASE RearmWorkItems(c)
  <2>1. PICK S \in Claimed({i \in Item : RearmDue(row[i])}) :
          /\ row' = [i \in Item |-> IF i \in S THEN RearmingRow(row[i]) ELSE row[i]]
          /\ Begin(c, S, "start")
    BY <1>1 DEF RearmWorkItems
  <2>2. S \subseteq Item
    BY ClaimedPart
  <2>3. row' \in [Item -> MediaRow]
    BY <2>1, VerdictsTyped DEF TypeInv, TypeOK
  <2>4. /\ step' \in [Controller -> [Item -> Step]]
        /\ unseen' \subseteq Item /\ abandoned' \subseteq Item
    BY <2>1, <2>2, BeginTyped
  <2> QED
    BY <1>1, <2>3, <2>4 DEF RearmWorkItems, TypeInv, TypeOK
<1>2. CASE VisibilityWorkItems(c)
  <2>1. PICK S \in Claimed({i \in Item : VisibilityDue(row[i])}) : Begin(c, S, "ready")
    BY <1>2 DEF VisibilityWorkItems
  <2>2. S \subseteq Item
    BY ClaimedPart
  <2>3. /\ step' \in [Controller -> [Item -> Step]]
        /\ unseen' \subseteq Item /\ abandoned' \subseteq Item
    BY <2>1, <2>2, BeginTyped
  <2> QED
    BY <1>2, <2>3 DEF VisibilityWorkItems, TypeInv, TypeOK, tables
<1>3. CASE Restart(c)
  <2>1. [i \in Item |-> "none"] \in [Item -> Step]
    BY DEF Step
  <2> QED
    BY <1>3, <2>1 DEF Restart, Rearming, TypeInv, TypeOK, tables
<1>4. ASSUME NEW i \in Item, Handle(c, i) \/ LoseVerdict(c, i)
      PROVE  TypeInv'
  <2>1. row[i] \in MediaRow
    BY DEF TypeInv, TypeOK
  <2>2. ASSUME NEW r \in MediaRow, Report(c, i, r),
               UNCHANGED <<job, recoveries, phase, consumed, histories>>,
               source' \subseteq Item
        PROVE  TypeInv'
    BY <2>2 DEF Report, Goto, Step, TypeInv, TypeOK, histories
  <2>3. ASSUME NEW s \in Step, Goto(c, i, s),
               UNCHANGED <<recoveries, phase, consumed, unseen>>,
               row' \in [Item -> MediaRow], source' \subseteq Item,
               job' \in [Release -> JobState],
               \A r \in Release : job'[r] = "Warned" => job[r] = "Warned",
               abandoned' \subseteq Item
        PROVE  TypeInv'
    BY <2>3 DEF Goto, TypeInv, TypeOK
  <2>4. CASE \/ SkipIncomplete(c, i) \/ RearmError(c, i) \/ StatusError(c, i)
             \/ PathReadable(c, i) \/ PathNotReadable(c, i)
    BY <2>1, <2>2, <2>4, VerdictsTyped
       DEF SkipIncomplete, RearmError, StatusError, PathReadable, PathNotReadable,
           TypeInv, TypeOK
  <2>5. CASE MarkRearming(c, i)
    <3>1. row' \in [Item -> MediaRow]
      BY <2>1, <2>5, VerdictsTyped DEF MarkRearming, TypeInv, TypeOK
    <3> QED
      BY <2>3, <2>5, <3>1 DEF MarkRearming, Step, TypeInv, TypeOK, histories
  <2>6. CASE ResolveSource(c, i)
    BY <2>1, <2>2, <2>3, <2>6, VerdictsTyped
       DEF ResolveSource, Step, TypeInv, TypeOK, histories
  <2>7. CASE EnsureJob(c, i) \/ FinishOrphan(c, i)
    <3>1. job' \in [Release -> JobState] /\ \A r \in Release : job'[r] = "Warned" => job[r] = "Warned"
      BY <2>7 DEF EnsureJob, FinishOrphan, EnsuredJob, JobState, TypeInv, TypeOK
    <3> QED
      BY <2>3, <2>7, <3>1 DEF EnsureJob, FinishOrphan, Step, TypeInv, TypeOK, histories
  <2>8. CASE CheckReady(c, i)
    <3>1. \/ Report(c, i, SourceRequiredRow(row[i]))
          \/ Goto(c, i, "probe") /\ UNCHANGED row
          \/ Report(c, i, WaitingRow(row[i]))
      BY <2>8 DEF CheckReady
    <3>2. UNCHANGED <<source, job, recoveries, phase, consumed, histories>>
      BY <2>8 DEF CheckReady
    <3> QED
      BY <2>1, <2>2, <2>3, <3>1, <3>2, VerdictsTyped DEF Step, TypeInv, TypeOK, histories
  <2>9. CASE LoseVerdict(c, i)
    BY <2>3, <2>9 DEF LoseVerdict, Step, Rearming, TypeInv, TypeOK, tables
  <2> QED
    BY <1>4, <2>4, <2>5, <2>6, <2>7, <2>8, <2>9 DEF Handle, GoesOn
<1> QED
  BY <1>1, <1>2, <1>3, <1>4 DEF Control

LEMMA TypeInitial == Init => TypeInv
<1> SUFFICES ASSUME Init PROVE TypeInv
  OBVIOUS
<1>1. row \in [Item -> MediaRow]
  <2>1. \A i \in Item : /\ NoMediaRow \in MediaRow
                       /\ PrunedRow(i \notin Incomplete) \in MediaRow
    BY NoRowSound DEF Sound
  <2> QED
    BY <2>1 DEF Init
<1>2. step \in [Controller -> [Item -> Step]]
  BY DEF Init, Step
<1> QED
  BY <1>1, <1>2, MediaConstants DEF Init, TypeInv, TypeOK, JobState

LEMMA TypeStep == TypeInv /\ [Next]_vars => TypeInv'
<1>1. TypeInv /\ UNCHANGED vars => TypeInv'
  BY DEF TypeInv, TypeOK, vars, tables, workers, histories
<1> QED
  BY <1>1, ControlTyped, ClientsTyped, LibraryTyped, GatewayTyped DEF Next

\* Every variable keeps its type (TypeOK): no count of retries or recoveries
\* passes its limit.
THEOREM MediaTypeCorrect == Spec => []TypeOK
<1>1. TypeInv => TypeOK
  BY DEF TypeInv
<1> QED
  BY <1>1, TypeInitial, TypeStep, PTL DEF Spec

--------------------------------------------------------------------------------
(***************************************************************************)
(* One replica.  A row that a handler has keeps its request until the      *)
(* handler's verdict: two handlers of one row could take it from each      *)
(* other, and the second would then mark a row rearming that nobody asks   *)
(* for.  Unless its item is named in forced requests, which take rows in   *)
(* any state, a handled row has also not been asked for anew.              *)
(***************************************************************************)

SoleController == \A c, d \in Controller : c = d

RequestInv ==
  /\ TypeInv
  /\ \A i \in Item : /\ Sound(row[i])
                     /\ Held(i) => row[i].requested
                     /\ row[i].state = "Rearming" => Held(i) \/ i \in abandoned
  /\ \A i \in Item \ Forced :
       Held(i) => row[i].state \in {"Rearming", "Waiting"} /\ i \notin unseen

\* No step closes a request that was made since the last claim.
ClosesSeen ==
  \A i \in Item \ Forced :
    row[i].requested /\ ~row'[i].requested /\ row'[i].state # "Absent" => i \notin unseen

\* Statements of others leave the handlers where they are.
LEMMA OthersSafe ==
  ASSUME RequestInv, TypeInv', UNCHANGED <<step, abandoned>>,
         \A i \in Item : Follows(row[i], row'[i]),
         \A i \in Item \ Forced :
           /\ Spares(row[i], row'[i])
           /\ i \in unseen' => i \in unseen \/ row'[i].state \in Settled \/ ~row[i].requested
  PROVE  RequestInv' /\ ClosesSeen
<1>1. \A i \in Item : Held(i)' = Held(i)
  BY DEF Held, Handles
<1>2. ASSUME NEW i \in Item
      PROVE  /\ Sound(row'[i]) /\ (Held(i)' => row'[i].requested)
             /\ (row'[i].state = "Rearming" => Held(i)' \/ i \in abandoned')
  BY <1>1 DEF RequestInv, Follows
<1>3. ASSUME NEW i \in Item \ Forced, Held(i)
      PROVE  row'[i].state \in {"Rearming", "Waiting"} /\ i \notin unseen'
  BY <1>3 DEF RequestInv, Spares, Settled
<1>4. ClosesSeen
  BY DEF ClosesSeen, Follows
<1> QED
  BY <1>1, <1>2, <1>3, <1>4 DEF RequestInv

LEMMA ClientsSafe ==
  ASSUME RequestInv, TypeInv', Clients
  PROVE  RequestInv' /\ ClosesSeen
<1> USE DEF RequestInv
<1>1. ASSUME NEW S \in SUBSET Item, NEW new, Request(S, new),
             \A i \in Item : Follows(row[i], new[i]),
             \A i \in Item \ Forced : Spares(row[i], new[i])
      PROVE  RequestInv' /\ ClosesSeen
  <2>1. /\ row' = new /\ UNCHANGED <<step, abandoned>>
        /\ \A i \in Item : i \in unseen' => i \in unseen \/ row'[i].state \in Settled
    BY <1>1 DEF Request, workers
  <2> QED
    BY <1>1, <2>1, OthersSafe
<1>2. \A i \in Item : Spares(row[i], row[i]) /\ Follows(row[i], row[i])
  BY SameSpares DEF Spares
<1>3. CASE QueueFullRearm
  <2>1. \A i \in Item : Changed(Item, FullRearmRow)[i] = FullRearmRow(row[i])
    BY DEF Changed
  <2>2. \A i \in Item : Spares(row[i], FullRearmRow(row[i])) /\ Follows(row[i], FullRearmRow(row[i]))
    BY GuardedSpare DEF Spares
  <2> DEFINE new == Changed(Item, FullRearmRow)
  <2>3. Request(Item, new) /\ Item \in SUBSET Item
    BY <1>3 DEF QueueFullRearm
  <2>4. \A i \in Item : Spares(row[i], new[i]) /\ Follows(row[i], new[i])
    BY <2>1, <2>2
  <2> HIDE DEF new
  <2> QED
    BY <1>1, <2>3, <2>4
<1>4. CASE RetryFailed
  <2>1. PICK S \in SUBSET Item : Request(S, Changed(S, RetryRow))
    BY <1>4 DEF RetryFailed
  <2>2. \A i \in Item : Changed(S, RetryRow)[i] = IF i \in S THEN RetryRow(row[i]) ELSE row[i]
    BY DEF Changed
  <2>3. \A i \in Item : Spares(row[i], RetryRow(row[i])) /\ Follows(row[i], RetryRow(row[i]))
    BY RetrySpares DEF Spares
  <2> DEFINE new == Changed(S, RetryRow)
  <2>4. \A i \in Item : Spares(row[i], new[i]) /\ Follows(row[i], new[i])
    BY <1>2, <2>2, <2>3
  <2> HIDE DEF new
  <2> QED
    BY <1>1, <2>1, <2>4 DEF new
<1>5. ASSUME NEW i \in Item, AskRequest(i) \/ Playback(i)
      PROVE  RequestInv' /\ ClosesSeen
  <2>1. /\ Spares(row[i], AskRow(row[i])) /\ Follows(row[i], AskRow(row[i]))
        /\ Spares(row[i], PlayRow(row[i])) /\ Follows(row[i], PlayRow(row[i]))
    BY GuardedSpare DEF Spares
  <2>2. CASE AskRequest(i)
    <3> DEFINE new == Changed({i}, AskRow)
    <3>1. Request({i}, new)
      BY <2>2 DEF AskRequest
    <3>2. \A j \in Item : new[j] = IF j = i THEN AskRow(row[j]) ELSE row[j]
      BY DEF Changed
    <3>3. \A j \in Item : Spares(row[j], new[j]) /\ Follows(row[j], new[j])
      BY <1>2, <2>1, <3>2
    <3> HIDE DEF new
    <3> QED
      BY <1>1, <3>1, <3>3
  <2>3. CASE Playback(i)
    <3> DEFINE new == Changed({i}, PlayRow)
    <3>1. Request({i}, new)
      BY <2>3 DEF Playback
    <3>2. \A j \in Item : new[j] = IF j = i THEN PlayRow(row[j]) ELSE row[j]
      BY DEF Changed
    <3>3. \A j \in Item : Spares(row[j], new[j]) /\ Follows(row[j], new[j])
      BY <1>2, <2>1, <3>2
    <3> HIDE DEF new
    <3> QED
      BY <1>1, <3>1, <3>3
  <2> QED
    BY <1>5, <2>2, <2>3
<1>6. ASSUME NEW i \in Item, ForceRequest(i)
      PROVE  RequestInv' /\ ClosesSeen
  <2> DEFINE new == Changed({i}, ForceRow)
  <2>1. \A j \in Item : new[j] = IF j = i THEN ForceRow(row[j]) ELSE row[j]
    BY DEF Changed
  <2>2. Follows(row[i], ForceRow(row[i]))
    BY ForceFollows
  <2>3. /\ Request({i}, new) /\ i \in Forced
    BY <1>6 DEF ForceRequest
  <2>4. \A j \in Item : Follows(row[j], new[j])
    BY <1>2, <2>1, <2>2
  <2>5. \A j \in Item \ Forced : Spares(row[j], new[j])
    BY <1>2, <2>1, <2>3
  <2> HIDE DEF new
  <2> QED
    BY <1>1, <2>3, <2>4, <2>5
<1>7. ASSUME NEW q \in SeerrRequest, RequestSeerrTV(q)
      PROVE  RequestInv' /\ ClosesSeen
  <2>1. /\ \A i \in Item \ Candidates(q) : row'[i] = row[i]
        /\ \A i \in Candidates(q) :
             row'[i] \in {QueuedForRearm(row[i]),
                          [QueuedForRearm(row[i]) EXCEPT !.state = "Waiting"]}
        /\ unseen' = unseen \cup Candidates(q) /\ UNCHANGED <<step, abandoned>>
    BY <1>7 DEF RequestSeerrTV, Candidates, workers, TypeInv, TypeOK
  <2>2. \A i \in Candidates(q) :
          i \in Item /\ row[i].state \in Settled /\ ~row[i].requested /\ row[i].imported
    BY DEF Candidates, TypeInv, TypeOK
  <2>3. ASSUME NEW i \in Candidates(q)
        PROVE  Follows(row[i], row'[i]) /\ Spares(row[i], row'[i])
    <3>1. row[i] \in MediaRow
      BY <2>2 DEF Sound
    <3>2. Sound(row'[i]) /\ row'[i].requested /\ row'[i].state \in {"Archived", "Waiting"}
      <4>1. CASE row'[i] = QueuedForRearm(row[i])
        BY <2>2, <3>1, <4>1, QueuedSound
      <4>2. CASE row'[i] = [QueuedForRearm(row[i]) EXCEPT !.state = "Waiting"]
        <5>1. [QueuedForRearm(row[i]) EXCEPT !.state = "Waiting"].state = "Waiting"
          BY <3>1 DEF QueuedForRearm, MediaRow
        <5> QED
          BY <2>2, <3>1, <4>2, <5>1, QueuedSound
      <4> QED
        BY <2>1, <4>1, <4>2
    <3> QED
      BY <2>2, <3>2 DEF Spares, Follows, Settled
  <2>4. \A i \in Item : Follows(row[i], row'[i]) /\ Spares(row[i], row'[i])
    BY <1>2, <2>1, <2>3
  <2> QED
    BY <2>1, <2>2, <2>4, OthersSafe
<1> QED
  BY <1>3, <1>4, <1>5, <1>6, <1>7 DEF Clients

LEMMA LibrarySafe ==
  ASSUME RequestInv, TypeInv', Library
  PROVE  RequestInv' /\ ClosesSeen
<1> PICK i \in Item : \/ Track(i) \/ Import(i) \/ LinkSource(i) \/ FlagMissing(i)
                      \/ Delete(i) \/ RetryDue(i)
  BY DEF Library
<1>1. row \in [Item -> MediaRow] /\ \A j \in Item : Sound(row[j])
  BY DEF RequestInv, TypeInv, TypeOK
<1>2. \A j \in Item : Spares(row[j], row[j]) /\ Follows(row[j], row[j])
  BY <1>1, SameSpares DEF Spares
<1>3. ASSUME NEW r, row' = [row EXCEPT ![i] = r], Spares(row[i], r),
             UNCHANGED <<workers, histories>>
      PROVE  RequestInv' /\ ClosesSeen
  <2>1. \A j \in Item : Spares(row[j], row'[j]) /\ Follows(row[j], row'[j])
    BY <1>1, <1>2, <1>3 DEF Spares
  <2> QED
    BY <1>3, <2>1, OthersSafe DEF workers, histories
<1>4. CASE Track(i) \/ Import(i) \/ FlagMissing(i)
  BY <1>1, <1>3, <1>4, LibrarySpares DEF Track, Import, FlagMissing, Observe
<1>5. CASE RetryDue(i)
  <2>1. row' = [row EXCEPT ![i] = [row[i] EXCEPT !.due = TRUE]]
    BY <1>1, <1>5 DEF RetryDue
  <2> QED
    BY <1>1, <1>3, <1>5, <2>1, LibrarySpares DEF RetryDue
<1>6. CASE LinkSource(i)
  BY <1>2, <1>6, OthersSafe DEF LinkSource, workers, histories
<1>7. CASE Delete(i)
  <2>1. /\ row' = [row EXCEPT ![i] = NoMediaRow]
        /\ unseen' = unseen \ {i} /\ abandoned' = abandoned \ {i}
        /\ step' = [c \in Controller |-> [step[c] EXCEPT ![i] =
                       CASE @ = "none" -> @ [] @ = "ensure" -> "orphanEnsure"
                         [] OTHER -> "orphan"]]
    BY <1>7 DEF Delete
  <2>2. /\ row'[i] = NoMediaRow /\ \A j \in Item \ {i} : row'[j] = row[j]
    BY <1>1, <2>1
  <2>3. step \in [Controller -> [Item -> Step]]
    BY DEF RequestInv, TypeInv, TypeOK
  <2>4. ~Held(i)'
    <3> SUFFICES ASSUME NEW c \in Controller PROVE ~Handles(c, i)'
      BY DEF Held
    <3>1. step'[c][i] \in {"none", "orphanEnsure", "orphan"}
      BY <2>1, <2>3
    <3> QED
      BY <3>1 DEF Handles
  <2>5. \A j \in Item \ {i} : Held(j)' = Held(j)
    <3> SUFFICES ASSUME NEW j \in Item \ {i}, NEW c \in Controller
                 PROVE  Handles(c, j)' = Handles(c, j)
      BY DEF Held
    <3>1. step'[c][j] = step[c][j]
      BY <2>1, <2>3
    <3> QED
      BY <3>1 DEF Handles
  <2>6. Sound(NoMediaRow) /\ NoMediaRow.state = "Absent"
    BY NoRowSound DEF NoMediaRow
  <2>7. ClosesSeen
    BY <2>2, <2>6 DEF ClosesSeen
  <2> QED
    BY <2>1, <2>2, <2>4, <2>5, <2>6, <2>7 DEF RequestInv
<1> QED
  BY <1>4, <1>5, <1>6, <1>7

LEMMA GatewaySafe ==
  ASSUME RequestInv, TypeInv', Gateway
  PROVE  RequestInv' /\ ClosesSeen
<1> PICK r \in Release : \/ GrabRelease(r) \/ JobSettles(r) \/ JobAdopted(r) \/ JobFails(r)
                         \/ JobRelisted(r) \/ PlacementLost(r) \/ RecoveryInterrupted(r)
  BY DEF Gateway
<1>1. \A j \in Item : Spares(row[j], row[j]) /\ Follows(row[j], row[j])
  BY SameSpares DEF RequestInv, Spares
<1>2. CASE WarnRelated(r)
  <2>1. /\ \A i \in Item : row'[i] \in {row[i], RecoveryRow(row[i])}
        /\ UNCHANGED <<step, abandoned, unseen>>
    BY <1>2 DEF WarnRelated, Changed, workers, histories
  <2>2. \A i \in Item : Spares(row[i], RecoveryRow(row[i])) /\ Follows(row[i], RecoveryRow(row[i]))
    BY RecoverySpares DEF RequestInv, Spares
  <2>3. \A i \in Item : Spares(row[i], row'[i]) /\ Follows(row[i], row'[i])
    BY <1>1, <2>1, <2>2
  <2> QED
    BY <2>1, <2>3, OthersSafe
<1>3. CASE UNCHANGED <<row, workers, histories>>
  BY <1>1, <1>3, OthersSafe DEF workers, histories
<1> QED
  BY <1>2, <1>3 DEF GrabRelease, JobSettles, JobSubmitted, JobFinishes, PlacementFound,
     RecoveryLimit, Requeue, JobAdopted, JobFails, JobRelisted, PlacementLost, RecoveryInterrupted, JobMoves

\* The handler of a row goes to step s; it may mark the row rearming again.
LEMMA HandlerMoves ==
  ASSUME RequestInv, TypeInv', NEW c \in Controller, NEW i \in Item, Handles(c, i),
         NEW s \in {"pending", "start", "resolve", "ensure", "ready", "probe"},
         Goto(c, i, s), UNCHANGED histories,
         \/ UNCHANGED row
         \/ row' = [row EXCEPT ![i] = RearmingRow(row[i])]
  PROVE  RequestInv' /\ ClosesSeen
<1>1. /\ step \in [Controller -> [Item -> Step]] /\ row \in [Item -> MediaRow]
      /\ step' = [step EXCEPT ![c][i] = s] /\ unseen' = unseen /\ abandoned' = abandoned
  BY DEF RequestInv, TypeInv, TypeOK, Goto, histories
<1>2. \A j \in Item : Held(j)' = Held(j)
  <2>1. \A d \in Controller, j \in Item : Handles(d, j)' = Handles(d, j)
    BY <1>1 DEF Handles
  <2> QED
    BY <2>1 DEF Held
<1>3. Held(i) /\ row[i].requested /\ Sound(row[i])
  BY DEF Held, RequestInv
<1>4. \A j \in Item : row'[j] = row[j] \/ (j = i /\ row'[j] = RearmingRow(row[j]))
  BY <1>1
<1>5. /\ Sound(RearmingRow(row[i])) /\ RearmingRow(row[i]).requested
      /\ RearmingRow(row[i]).state = "Rearming"
  BY <1>3, VerdictsSound
<1>6. ClosesSeen
  BY <1>4, <1>5 DEF ClosesSeen
<1> QED
  BY <1>1, <1>2, <1>3, <1>4, <1>5, <1>6 DEF RequestInv

\* The one handler of a row reports its verdict.
LEMMA HandlerReports ==
  ASSUME SoleController, RequestInv, TypeInv', NEW c \in Controller, NEW i \in Item,
         Handles(c, i), NEW q, Verdict(q), Report(c, i, q), UNCHANGED histories
  PROVE  RequestInv' /\ ClosesSeen
<1>1. /\ step \in [Controller -> [Item -> Step]] /\ row \in [Item -> MediaRow]
      /\ step' = [step EXCEPT ![c][i] = "none"] /\ row' = [row EXCEPT ![i] = q]
      /\ unseen' = unseen /\ abandoned' = abandoned
  BY DEF RequestInv, TypeInv, TypeOK, Report, Goto, histories
<1>2. \A d \in Controller, j \in Item : Handles(d, j)' <=> (j # i /\ Handles(d, j))
  <2>1. \A d \in Controller : d = c
    BY DEF SoleController
  <2> QED
    BY <1>1, <2>1 DEF Handles
<1>3. \A j \in Item : Held(j)' <=> (j # i /\ Held(j))
  BY <1>2 DEF Held
<1>4. Held(i)
  BY DEF Held
<1>5. row'[i] = q /\ \A j \in Item \ {i} : row'[j] = row[j]
  BY <1>1
<1>6. ClosesSeen
  BY <1>4, <1>5 DEF ClosesSeen, RequestInv
<1> QED
  BY <1>1, <1>3, <1>5, <1>6 DEF RequestInv, Verdict

\* A handler, or all of them, ends without a verdict.
LEMMA HandlersEnd ==
  ASSUME SoleController, RequestInv, TypeInv', NEW S \in SUBSET Item,
         \A j \in Item : Held(j)' <=> (j \notin S /\ Held(j)),
         UNCHANGED <<row, unseen>>,
         abandoned' = abandoned \cup {j \in S : row[j].state = "Rearming" /\ Held(j)}
  PROVE  RequestInv' /\ ClosesSeen
<1>1. ClosesSeen
  BY DEF ClosesSeen
<1>2. \A j \in Item : row[j].state = "Rearming" => Held(j)' \/ j \in abandoned'
  BY DEF RequestInv
<1> QED
  BY <1>1, <1>2 DEF RequestInv

\* What a claim does with a row it returns.
TakesOver(i) ==
  /\ row[i].requested
  /\ \/ row'[i] = RearmingRow(row[i])
     \/ row'[i] = row[i] /\ row[i].state = "Waiting"

\* A claim takes over the rows it returns; nothing was held before.
LEMMA ClaimSafe ==
  ASSUME SoleController, RequestInv, TypeInv', NEW c \in Controller, PassOver(c),
         NEW S \in SUBSET Item, NEW first \in {"start", "ready"}, Begin(c, S, first),
         \A i \in S : TakesOver(i),
         \A i \in Item \ S : row'[i] = row[i]
  PROVE  RequestInv' /\ ClosesSeen
<1>1. /\ step \in [Controller -> [Item -> Step]] /\ row \in [Item -> MediaRow]
  BY DEF RequestInv, TypeInv, TypeOK
<1>2. \A d \in Controller : d = c
  BY DEF SoleController
<1>3. \A i \in Item : ~Held(i)
  BY <1>2 DEF PassOver, Held, Handles
<1>4. step'[c] = [i \in Item |-> IF i \notin S THEN "none"
                              ELSE IF row[i].complete THEN first ELSE "pending"]
  BY <1>1 DEF Begin
<1>5. ASSUME NEW i \in Item PROVE Handles(c, i)' <=> i \in S
  <2>1. CASE i \in S
    BY <1>4, <2>1 DEF Handles
  <2>2. CASE i \notin S
    <3>1. step'[c][i] = "none"
      BY <1>4, <2>2
    <3> QED
      BY <2>2, <3>1 DEF Handles
  <2> QED
    BY <2>1, <2>2
<1>6. \A i \in Item : Held(i)' <=> i \in S
  BY <1>2, <1>5 DEF Held
<1>7. unseen' = unseen \ S /\ abandoned' = abandoned \ S
  BY DEF Begin
<1>8. ASSUME NEW i \in S
      PROVE  /\ Sound(row'[i]) /\ row'[i].requested
             /\ row'[i].state \in {"Rearming", "Waiting"}
  BY VerdictsSound DEF RequestInv, TakesOver
<1>9. ClosesSeen
  BY <1>8 DEF ClosesSeen
<1> QED
  BY <1>3, <1>6, <1>7, <1>8, <1>9 DEF RequestInv

LEMMA ControlSafe ==
  ASSUME SoleController, RequestInv, TypeInv', NEW c \in Controller, Control(c)
  PROVE  RequestInv' /\ ClosesSeen
<1>1. step \in [Controller -> [Item -> Step]] /\ row \in [Item -> MediaRow]
  BY DEF RequestInv, TypeInv, TypeOK
<1>2. CASE RearmWorkItems(c)
  <2>1. PICK S \in Claimed({i \in Item : RearmDue(row[i])}) :
          /\ row' = [i \in Item |-> IF i \in S THEN RearmingRow(row[i]) ELSE row[i]]
          /\ Begin(c, S, "start")
    BY <1>2 DEF RearmWorkItems
  <2>2. S \subseteq {i \in Item : RearmDue(row[i])}
    BY ClaimedPart
  <2>3. /\ S \subseteq Item /\ PassOver(c)
        /\ \A i \in S : row[i].requested /\ row'[i] = RearmingRow(row[i])
        /\ \A i \in Item \ S : row'[i] = row[i]
    BY <1>2, <2>1, <2>2 DEF RearmDue, RearmWorkItems
  <2>4. \A i \in S : TakesOver(i)
    BY <2>3 DEF TakesOver
  <2>5. Begin(c, S, "start")
    BY <2>1
  <2> QED
    BY <2>3, <2>4, <2>5, ClaimSafe
<1>3. CASE VisibilityWorkItems(c)
  <2>1. PICK S \in Claimed({i \in Item : VisibilityDue(row[i])}) : Begin(c, S, "ready")
    BY <1>3 DEF VisibilityWorkItems
  <2>2. S \subseteq {i \in Item : VisibilityDue(row[i])}
    BY ClaimedPart
  <2>3. /\ S \subseteq Item /\ PassOver(c) /\ row' = row
        /\ \A i \in S : TakesOver(i)
    BY <1>3, <2>2 DEF VisibilityDue, VisibilityWorkItems, TakesOver, tables
  <2> QED
    BY <2>1, <2>3, ClaimSafe
<1>4. CASE Restart(c)
  <2>1. /\ step' = [step EXCEPT ![c] = [i \in Item |-> "none"]]
        /\ abandoned' = abandoned \cup {i \in Rearming : Handles(c, i)}
        /\ UNCHANGED <<row, unseen>>
    BY <1>4 DEF Restart, tables
  <2>2. \A i \in Item : ~Held(i)'
    <3> SUFFICES ASSUME NEW i \in Item, NEW d \in Controller PROVE ~Handles(d, i)'
      BY DEF Held
    <3>1. step'[d][i] = "none"
      BY <1>1, <2>1 DEF SoleController
    <3> QED
      BY <3>1 DEF Handles
  <2>3. \A i \in Item : Held(i) <=> Handles(c, i)
    BY DEF Held, SoleController
  <2>4. abandoned' = abandoned \cup {i \in Item : row[i].state = "Rearming" /\ Held(i)}
    BY <2>1, <2>3 DEF Rearming
  <2> QED
    BY <2>1, <2>2, <2>4, HandlersEnd
<1>5. ASSUME NEW i \in Item, LoseVerdict(c, i)
      PROVE  RequestInv' /\ ClosesSeen
  <2>1. /\ step' = [step EXCEPT ![c][i] = "none"] /\ Handles(c, i)
        /\ abandoned' = abandoned \cup ({i} \cap Rearming)
        /\ UNCHANGED <<row, unseen>>
    BY <1>5 DEF LoseVerdict, Goto, tables
  <2>2. \A j \in Item : Held(j)' <=> (j \notin {i} /\ Held(j))
    <3>1. \A d \in Controller, j \in Item : Handles(d, j)' <=> (j # i /\ Handles(d, j))
      <4>1. \A d \in Controller : d = c
        BY DEF SoleController
      <4> QED
        BY <1>1, <2>1, <4>1 DEF Handles
    <3> QED
      BY <3>1 DEF Held
  <2>3. Held(i)
    BY <2>1 DEF Held
  <2>4. abandoned' = abandoned \cup {j \in {i} : row[j].state = "Rearming" /\ Held(j)}
    BY <2>1, <2>3 DEF Rearming
  <2> QED
    BY <2>1, <2>2, <2>4, HandlersEnd
<1>6. ASSUME NEW i \in Item, FinishOrphan(c, i)
      PROVE  RequestInv' /\ ClosesSeen
  <2>1. /\ step[c][i] \in {"orphan", "orphanEnsure"}
        /\ step' = [step EXCEPT ![c][i] = "none"]
        /\ UNCHANGED <<row, unseen, abandoned>>
    BY <1>6 DEF FinishOrphan, Goto, histories
  <2>2. \A d \in Controller, j \in Item : Handles(d, j)' = Handles(d, j)
    BY <1>1, <2>1 DEF Handles
  <2>3. \A j \in Item : Held(j)' = Held(j)
    BY <2>2 DEF Held
  <2> QED
    BY <2>1, <2>3 DEF RequestInv, ClosesSeen
<1>7. ASSUME NEW i \in Item, Handles(c, i), GoesOn(c, i) \/ RearmError(c, i)
                                  \/ StatusError(c, i) \/ PathNotReadable(c, i),
             ~FinishOrphan(c, i)
      PROVE  RequestInv' /\ ClosesSeen
  <2>1. /\ Verdict(SourceRequiredRow(row[i])) /\ Verdict(MetadataPendingRow(row[i]))
        /\ Verdict(AvailableRow(row[i])) /\ Verdict(WaitingRow(row[i]))
        /\ Verdict(FailedRow(row[i]))
    <3>1. Sound(row[i]) /\ row[i].requested
      BY <1>7 DEF RequestInv, Held
    <3> QED
      BY <3>1, VerdictsSound
  <2>2. UNCHANGED histories
    BY <1>7 DEF GoesOn, SkipIncomplete, MarkRearming, ResolveSource, EnsureJob, CheckReady,
                PathReadable, RearmError, StatusError, PathNotReadable
  <2>3. \/ \E q : Verdict(q) /\ Report(c, i, q)
        \/ \E s \in {"resolve", "ensure", "ready", "probe"} :
             /\ Goto(c, i, s)
             /\ UNCHANGED row \/ row' = [row EXCEPT ![i] = RearmingRow(row[i])]
    <3>1. CASE MarkRearming(c, i)
      BY <1>1, <3>1 DEF MarkRearming
    <3>2. CASE SkipIncomplete(c, i) \/ RearmError(c, i) \/ StatusError(c, i)
               \/ PathReadable(c, i) \/ PathNotReadable(c, i)
      BY <2>1, <3>2 DEF SkipIncomplete, RearmError, StatusError, PathReadable, PathNotReadable
    <3>3. CASE ResolveSource(c, i)
      BY <2>1, <3>3 DEF ResolveSource
    <3>4. CASE EnsureJob(c, i)
      BY <3>4 DEF EnsureJob
    <3>5. CASE CheckReady(c, i)
      <4>1. \/ Report(c, i, SourceRequiredRow(row[i]))
            \/ Goto(c, i, "probe") /\ UNCHANGED row
            \/ Report(c, i, WaitingRow(row[i]))
        BY <3>5 DEF CheckReady
      <4> QED
        BY <2>1, <4>1
    <3> QED
      BY <1>7, <3>1, <3>2, <3>3, <3>4, <3>5 DEF GoesOn
  <2>4. ASSUME NEW q, Verdict(q), Report(c, i, q)
        PROVE  RequestInv' /\ ClosesSeen
    BY <1>7, <2>2, <2>4, HandlerReports
  <2>5. ASSUME NEW s \in {"resolve", "ensure", "ready", "probe"}, Goto(c, i, s),
               UNCHANGED row \/ row' = [row EXCEPT ![i] = RearmingRow(row[i])]
        PROVE  RequestInv' /\ ClosesSeen
    <3>1. s \in {"pending", "start", "resolve", "ensure", "ready", "probe"}
      OBVIOUS
    <3> QED
      BY <1>7, <2>2, <2>5, <3>1, HandlerMoves
  <2> QED
    BY <2>3, <2>4, <2>5
<1>8. ASSUME NEW i \in Item, Handle(c, i), ~FinishOrphan(c, i)
      PROVE  Handles(c, i)
  BY <1>8 DEF Handle, GoesOn, SkipIncomplete, MarkRearming, ResolveSource, EnsureJob,
              CheckReady, PathReadable, RearmError, StatusError, PathNotReadable, Handles
<1> QED
  BY <1>2, <1>3, <1>4, <1>5, <1>6, <1>7, <1>8 DEF Control, Handle

LEMMA RequestStep ==
  ASSUME SoleController, RequestInv, [Next]_vars
  PROVE  RequestInv' /\ (ClosesSeen \/ UNCHANGED vars)
<1>1. TypeInv'
  BY TypeStep DEF RequestInv
<1>2. CASE UNCHANGED vars
  <2>1. UNCHANGED <<row, step, unseen, abandoned>>
    BY <1>2 DEF vars, tables, workers, histories
  <2>2. \A i \in Item : Held(i)' = Held(i)
    BY <2>1 DEF Held, Handles
  <2> QED
    BY <1>1, <1>2, <2>1, <2>2 DEF RequestInv
<1> QED
  BY <1>1, <1>2, ControlSafe, ClientsSafe, LibrarySafe, GatewaySafe DEF Next

LEMMA RequestInitial == Init => RequestInv
<1> SUFFICES ASSUME Init PROVE RequestInv
  OBVIOUS
<1>1. \A i \in Item : Sound(row[i]) /\ row[i].state # "Rearming"
  <2> SUFFICES ASSUME NEW i \in Item PROVE Sound(row[i]) /\ row[i].state # "Rearming"
    OBVIOUS
  <2>1. row[i] = PrunedRow(i \notin Incomplete) \/ row[i] = NoMediaRow
    BY DEF Init
  <2>2. /\ Sound(NoMediaRow) /\ Sound(PrunedRow(i \notin Incomplete))
        /\ NoMediaRow.state = "Absent" /\ PrunedRow(i \notin Incomplete).state = "Archived"
    BY NoRowSound DEF NoMediaRow, PrunedRow
  <2> QED
    BY <2>1, <2>2
<1>2. \A i \in Item : ~Held(i)
  BY DEF Init, Held, Handles
<1> QED
  BY <1>1, <1>2, TypeInitial DEF RequestInv

\* No request is lost (OpenRequestsReachable): with one replica, an open
\* request is where a claim finds it, with its handler, out of retries, or was
\* dropped by a handler that died or could not write.
THEOREM OpenRequestsKept ==
  ASSUME SoleController
  PROVE  Spec => []OpenRequestsReachable
<1>1. RequestInv => OpenRequestsReachable
  BY DEF RequestInv, Sound, Open, OpenRequestsReachable
<1>2. RequestInv /\ [Next]_vars => RequestInv'
  BY RequestStep
<1> QED
  BY <1>1, <1>2, RequestInitial, PTL DEF Spec

\* A request made while the row is worked on is not closed by that work
\* (GuardedRequestsKept), with one replica.
THEOREM GuardedRequestsServed ==
  ASSUME SoleController
  PROVE  Spec => GuardedRequestsKept
<1>1. RequestInv /\ [Next]_vars => RequestInv'
  BY RequestStep
<1>2. RequestInv /\ [Next]_vars =>
        [\A i \in Item \ Forced :
           row[i].requested /\ ~row'[i].requested /\ row'[i].state # "Absent"
             => i \notin unseen]_vars
  BY RequestStep DEF ClosesSeen
<1> QED
  BY <1>1, <1>2, RequestInitial, PTL DEF Spec, GuardedRequestsKept

--------------------------------------------------------------------------------
(***************************************************************************)
(* Several replicas.  Two of them may have the same row, since the claim   *)
(* of the visibility pass locks it for the statement only, and the later   *)
(* verdict wins.  A request may then be closed by the wrong one, and a row *)
(* may be left BROKEN without a request; what stays true is that an open   *)
(* request can be claimed, or is in some hands or abandoned.               *)
(***************************************************************************)

\* What every statement leaves of a row, whoever else has it.
Heard(r) ==
  /\ r \in MediaRow
  /\ r.state \notin {"Absent", "Requested"} => r.imported
  /\ r.requested => r.state \in Open
  /\ r.state = "Waiting" => r.requested
  /\ r.requested /\ r.state \in {"Archived", "Broken"} => r.retries < MaxRetries

HeardInv ==
  /\ TypeInv
  /\ \A i \in Item : /\ Heard(row[i])
                     /\ Held(i) => row[i].imported
                     /\ row[i].state = "Rearming" => Held(i) \/ i \in abandoned

\* q follows r by a statement that does not mind the handlers.
Leaves(r, q) ==
  /\ Heard(q)
  /\ r.imported => q.imported
  /\ q.state = "Rearming" => r.state = "Rearming"

LEMMA SoundHeard == \A r : Sound(r) => Heard(r)
  BY DEF Sound, Heard

LEMMA QueuedHeard ==
  ASSUME NEW r \in MediaRow, r.imported
  PROVE  /\ Leaves(r, QueuedForRearm(r))
         /\ Leaves(r, [QueuedForRearm(r) EXCEPT !.state = "Waiting"])
<1> DEFINE q == QueuedForRearm(r)
           w == [q EXCEPT !.state = "Waiting"]
<1>1. Heard(q) /\ Heard(w)
  BY QueuedSound, SoundHeard
<1>2. q.imported = r.imported /\ q.state = "Archived" /\ q \in MediaRow
  BY <1>1 DEF Heard, QueuedForRearm, MediaRow
<1> HIDE DEF q
<1>3. w.imported = q.imported /\ w.state = "Waiting"
  BY <1>2 DEF MediaRow
<1> QED
  BY <1>1, <1>2, <1>3 DEF Leaves, q

LEMMA ClientsHeard ==
  ASSUME NEW r, Heard(r)
  PROVE  /\ Leaves(r, r) /\ Leaves(r, ForceRow(r)) /\ Leaves(r, AskRow(r))
         /\ Leaves(r, PlayRow(r)) /\ Leaves(r, FullRearmRow(r)) /\ Leaves(r, RetryRow(r))
<1>1. r \in MediaRow /\ Leaves(r, r)
  BY DEF Heard, Leaves
<1>2. r.imported => Leaves(r, QueuedForRearm(r))
  BY <1>1, QueuedHeard
<1>3. /\ Leaves(r, ForceRow(r)) /\ Leaves(r, AskRow(r))
      /\ Leaves(r, PlayRow(r)) /\ Leaves(r, FullRearmRow(r))
  BY <1>1, <1>2 DEF ForceRow, AskRow, PlayRow, FullRearmRow
<1>4. CASE r.imported /\ r.state \in {"Broken", "Failed", "Waiting"}
  <2> DEFINE q == [r EXCEPT !.requested = TRUE, !.retries = 0, !.due = TRUE]
  <2>1. r.requested \/ r.state # "Waiting"
    BY DEF Heard
  <2>2. RetryRow(r) = q
    BY <1>1, <1>4, <2>1 DEF RetryRow, MediaRow
  <2>3. 0 \in 0 .. MaxRetries /\ 0 < MaxRetries
    BY RetryConstant
  <2>4. /\ q \in MediaRow /\ q.state = r.state /\ q.imported /\ q.retries = 0
        /\ q.requested
    BY <1>1, <1>4, <2>3 DEF MediaRow
  <2> HIDE DEF q
  <2>5. Leaves(r, q)
    BY <1>4, <2>3, <2>4 DEF Leaves, Heard, Open
  <2> QED
    BY <1>1, <1>3, <2>2, <2>5
<1>5. CASE ~(r.imported /\ r.state \in {"Broken", "Failed", "Waiting"})
  BY <1>1, <1>3, <1>5 DEF RetryRow
<1> QED
  BY <1>4, <1>5

LEMMA LibraryHeard ==
  ASSUME NEW r, Heard(r)
  PROVE  /\ Leaves(r, TrackedRow(r)) /\ Leaves(r, ImportedRow(r)) /\ Leaves(r, FlaggedRow(r))
         /\ Leaves(r, [r EXCEPT !.due = TRUE]) /\ Leaves(r, RecoveryRow(r))
<1>1. r \in MediaRow
  BY DEF Heard
<1>2. Leaves(r, TrackedRow(r))
  BY <1>1 DEF TrackedRow, Leaves, Heard, MediaRow, MediaState, Open
<1>3. Leaves(r, ImportedRow(r))
  BY <1>1 DEF ImportedRow, Leaves, Heard, MediaRow, MediaState, Open
<1>4. Leaves(r, FlaggedRow(r))
  BY <1>1 DEF FlaggedRow, Leaves, Heard, MediaRow, MediaState, Open
<1>5. Leaves(r, [r EXCEPT !.due = TRUE])
  BY <1>1 DEF Leaves, Heard, MediaRow, MediaState, Open
<1>6. Leaves(r, RecoveryRow(r))
  BY <1>1 DEF RecoveryRow, Leaves, Heard, MediaRow, MediaState, Open
<1> QED
  BY <1>2, <1>3, <1>4, <1>5, <1>6

\* What a handler writes, also of a row whose request another one has closed.
LEMMA VerdictsHeard ==
  ASSUME NEW r, Heard(r), r.imported
  PROVE  \A q \in {SourceRequiredRow(r), MetadataPendingRow(r), AvailableRow(r),
                   WaitingRow(r), FailedRow(r)} :
           Heard(q) /\ q.imported /\ q.state # "Rearming"
<1> DEFINE Fine(q) == Heard(q) /\ q.imported /\ q.state # "Rearming"
<1>1. /\ r \in MediaRow /\ r.retries \in 0 .. MaxRetries /\ MaxRetries \in Nat \ {0}
      /\ 0 \in 0 .. MaxRetries
  BY RetryConstant DEF Heard, MediaRow
<1>2. Fine(SourceRequiredRow(r))
  BY <1>1 DEF SourceRequiredRow, Heard, MediaRow, MediaState
<1>3. Fine(MetadataPendingRow(r))
  BY <1>1 DEF MetadataPendingRow, Heard, MediaRow, MediaState
<1>4. Fine(AvailableRow(r))
  BY <1>1 DEF AvailableRow, Heard, MediaRow, MediaState
<1>5. Fine(WaitingRow(r))
  BY <1>1 DEF WaitingRow, Heard, MediaRow, MediaState, Open
<1>6. Fine(FailedRow(r))
  <2> DEFINE last == r.retries + 1 >= MaxRetries
             q == [r EXCEPT !.state = IF last THEN "Failed" ELSE "Broken",
                            !.retries = IF last THEN MaxRetries ELSE @ + 1,
                            !.due = last]
  <2>1. /\ (IF last THEN MaxRetries ELSE r.retries + 1) \in 0 .. MaxRetries
        /\ ~last => r.retries + 1 < MaxRetries
    BY <1>1
  <2>2. FailedRow(r) = q
    BY DEF FailedRow
  <2>3. last \in BOOLEAN
    OBVIOUS
  <2> HIDE DEF last
  <2>4. /\ q \in MediaRow /\ q.state = (IF last THEN "Failed" ELSE "Broken")
        /\ q.retries = (IF last THEN MaxRetries ELSE r.retries + 1)
        /\ q.imported
    BY <1>1, <2>1, <2>3 DEF MediaRow, MediaState
  <2> HIDE DEF q
  <2> QED
    BY <2>1, <2>2, <2>4 DEF Heard, Open
<1> QED
  BY <1>2, <1>3, <1>4, <1>5, <1>6

LEMMA RearmingHeard ==
  ASSUME NEW r, Heard(r), r.imported
  PROVE  Heard(RearmingRow(r)) /\ RearmingRow(r).imported
  BY DEF RearmingRow, Heard, MediaRow, MediaState, Open

\* Others leave the handlers where they are.
LEMMA OthersHeard ==
  ASSUME HeardInv, TypeInv', UNCHANGED <<step, abandoned>>,
         \A i \in Item : Leaves(row[i], row'[i])
  PROVE  HeardInv'
<1>1. \A i \in Item : Held(i)' = Held(i)
  BY DEF Held, Handles
<1> QED
  BY <1>1 DEF HeardInv, Leaves

LEMMA RequestsLeave ==
  ASSUME HeardInv, TypeInv', Clients
  PROVE  HeardInv'
<1>1. \A i \in Item :
        LET r == row[i] IN
        /\ Leaves(r, r) /\ Leaves(r, ForceRow(r)) /\ Leaves(r, AskRow(r))
        /\ Leaves(r, PlayRow(r)) /\ Leaves(r, FullRearmRow(r)) /\ Leaves(r, RetryRow(r))
  BY ClientsHeard DEF HeardInv
<1>2. ASSUME NEW i \in Item, ForceRequest(i) \/ AskRequest(i) \/ Playback(i)
      PROVE  HeardInv'
  <2>1. /\ UNCHANGED <<step, abandoned>>
        /\ \A j \in Item : row'[j] \in {row[j], ForceRow(row[j]), AskRow(row[j]), PlayRow(row[j])}
    BY <1>2 DEF ForceRequest, AskRequest, Playback, Request, Changed, workers
  <2>2. \A j \in Item : Leaves(row[j], row'[j])
    BY <1>1, <2>1
  <2> QED
    BY <2>1, <2>2, OthersHeard
<1>3. CASE QueueFullRearm \/ RetryFailed
  <2>1. /\ UNCHANGED <<step, abandoned>>
        /\ \A j \in Item : row'[j] \in {row[j], FullRearmRow(row[j]), RetryRow(row[j])}
    BY <1>3 DEF QueueFullRearm, RetryFailed, Request, Changed, workers
  <2>2. \A j \in Item : Leaves(row[j], row'[j])
    BY <1>1, <2>1
  <2> QED
    BY <2>1, <2>2, OthersHeard
<1>4. ASSUME NEW q \in SeerrRequest, RequestSeerrTV(q)
      PROVE  HeardInv'
  <2>1. /\ \A i \in Item \ Candidates(q) : row'[i] = row[i]
        /\ \A i \in Item \cap Candidates(q) :
             row'[i] \in {QueuedForRearm(row[i]),
                          [QueuedForRearm(row[i]) EXCEPT !.state = "Waiting"]}
        /\ UNCHANGED <<step, abandoned>>
    BY <1>4 DEF RequestSeerrTV, workers
  <2>2. ASSUME NEW i \in Item \cap Candidates(q)
        PROVE  Leaves(row[i], row'[i])
    <3>1. row[i] \in MediaRow
      BY DEF HeardInv, Heard
    <3>2. row[i].imported
      BY DEF Candidates
    <3>3. /\ Leaves(row[i], QueuedForRearm(row[i]))
          /\ Leaves(row[i], [QueuedForRearm(row[i]) EXCEPT !.state = "Waiting"])
      BY <3>1, <3>2, QueuedHeard
    <3> QED
      BY <2>1, <3>3
  <2>3. \A j \in Item : Leaves(row[j], row'[j])
    BY <1>1, <2>1, <2>2
  <2> QED
    BY <2>1, <2>3, OthersHeard
<1> QED
  BY <1>2, <1>3, <1>4 DEF Clients

LEMMA LibraryLeaves ==
  ASSUME HeardInv, TypeInv', Library
  PROVE  HeardInv'
<1> PICK i \in Item : \/ Track(i) \/ Import(i) \/ LinkSource(i) \/ FlagMissing(i)
                      \/ Delete(i) \/ RetryDue(i)
  BY DEF Library
<1>1. row \in [Item -> MediaRow] /\ step \in [Controller -> [Item -> Step]]
  BY DEF HeardInv, TypeInv, TypeOK
<1>2. \A j \in Item :
        LET r == row[j] IN
        /\ Leaves(r, r) /\ Leaves(r, TrackedRow(r)) /\ Leaves(r, ImportedRow(r))
        /\ Leaves(r, FlaggedRow(r)) /\ Leaves(r, [r EXCEPT !.due = TRUE])
  BY LibraryHeard, ClientsHeard DEF HeardInv
<1>3. ASSUME NEW r, row' = [row EXCEPT ![i] = r], Leaves(row[i], r),
             UNCHANGED <<workers, histories>>
      PROVE  HeardInv'
  <2>1. \A j \in Item : Leaves(row[j], row'[j])
    BY <1>1, <1>2, <1>3
  <2> QED
    BY <1>3, <2>1, OthersHeard DEF workers, histories
<1>4. CASE Track(i) \/ Import(i) \/ FlagMissing(i)
  BY <1>2, <1>3, <1>4 DEF Track, Import, FlagMissing, Observe
<1>5. CASE RetryDue(i)
  <2>1. row' = [row EXCEPT ![i] = [row[i] EXCEPT !.due = TRUE]]
    BY <1>1, <1>5 DEF RetryDue
  <2> QED
    BY <1>2, <1>3, <1>5, <2>1 DEF RetryDue
<1>6. CASE LinkSource(i)
  BY <1>2, <1>6, OthersHeard DEF LinkSource, workers, histories
<1>7. CASE Delete(i)
  <2>1. /\ row' = [row EXCEPT ![i] = NoMediaRow] /\ abandoned' = abandoned \ {i}
        /\ step' = [c \in Controller |-> [step[c] EXCEPT ![i] =
                       CASE @ = "none" -> @ [] @ = "ensure" -> "orphanEnsure"
                         [] OTHER -> "orphan"]]
    BY <1>7 DEF Delete
  <2>2. row'[i] = NoMediaRow /\ \A j \in Item \ {i} : row'[j] = row[j]
    BY <1>1, <2>1
  <2>3. \A c \in Controller : /\ step'[c][i] \in {"none", "orphanEnsure", "orphan"}
                              /\ \A j \in Item \ {i} : step'[c][j] = step[c][j]
    BY <1>1, <2>1
  <2>4. ~Held(i)' /\ \A j \in Item \ {i} : Held(j)' = Held(j)
    BY <2>3 DEF Held, Handles
  <2>5. Heard(NoMediaRow) /\ NoMediaRow.state = "Absent"
    BY NoRowSound, SoundHeard DEF NoMediaRow
  <2> QED
    BY <2>1, <2>2, <2>4, <2>5 DEF HeardInv
<1> QED
  BY <1>4, <1>5, <1>6, <1>7

LEMMA GatewayLeaves ==
  ASSUME HeardInv, TypeInv', Gateway
  PROVE  HeardInv'
<1> PICK r \in Release : \/ GrabRelease(r) \/ JobSettles(r) \/ JobAdopted(r) \/ JobFails(r)
                         \/ JobRelisted(r) \/ PlacementLost(r) \/ RecoveryInterrupted(r)
  BY DEF Gateway
<1>1. \A j \in Item : Leaves(row[j], row[j]) /\ Leaves(row[j], RecoveryRow(row[j]))
  BY ClientsHeard, LibraryHeard DEF HeardInv
<1>2. CASE WarnRelated(r)
  <2>1. /\ \A i \in Item : row'[i] \in {row[i], RecoveryRow(row[i])}
        /\ UNCHANGED <<step, abandoned>>
    BY <1>2 DEF WarnRelated, Changed, workers, histories
  <2>2. \A i \in Item : Leaves(row[i], row'[i])
    BY <1>1, <2>1
  <2> QED
    BY <2>1, <2>2, OthersHeard
<1>3. CASE UNCHANGED <<row, workers, histories>>
  BY <1>1, <1>3, OthersHeard DEF workers, histories
<1> QED
  BY <1>2, <1>3 DEF GrabRelease, JobSettles, JobSubmitted, JobFinishes, PlacementFound,
     RecoveryLimit, Requeue, JobAdopted, JobFails, JobRelisted, PlacementLost, RecoveryInterrupted, JobMoves

\* A handler goes on, or reports; others may have the row too.
LEMMA HandlerHeard ==
  ASSUME HeardInv, TypeInv', NEW c \in Controller, NEW i \in Item, Handles(c, i),
         NEW s \in Step, Goto(c, i, s), UNCHANGED abandoned,
         \A j \in Item \ {i} : row'[j] = row[j],
         Heard(row'[i]), row'[i].imported,
         row'[i].state = "Rearming" =>
           s \in {"pending", "start", "resolve", "ensure", "ready", "probe"}
  PROVE  HeardInv'
<1>1. /\ step \in [Controller -> [Item -> Step]] /\ step' = [step EXCEPT ![c][i] = s]
  BY DEF HeardInv, TypeInv, TypeOK, Goto
<1>2. /\ step'[c][i] = s
      /\ \A d \in Controller, j \in Item : j # i => step'[d][j] = step[d][j]
  BY <1>1
<1>3. \A j \in Item \ {i} : Held(j)' = Held(j)
  BY <1>2 DEF Held, Handles
<1>4. row'[i].state = "Rearming" => Held(i)'
  BY <1>2 DEF Held, Handles
<1> QED
  BY <1>3, <1>4 DEF HeardInv

\* Handlers of c end, each leaving the row as it is.
LEMMA HandlersDrop ==
  ASSUME HeardInv, TypeInv', NEW c \in Controller, NEW S \in SUBSET Item,
         UNCHANGED row,
         \A d \in Controller, j \in Item :
           Handles(d, j)' <=> Handles(d, j) /\ ~(d = c /\ j \in S),
         abandoned' = abandoned \cup {j \in S : row[j].state = "Rearming" /\ Handles(c, j)}
  PROVE  HeardInv'
<1>1. \A j \in Item : Held(j)' => Held(j)
  BY DEF Held
<1>2. \A j \in Item : Held(j) => Held(j)' \/ (j \in S /\ Handles(c, j))
  BY DEF Held
<1>3. \A j \in Item : row[j].state = "Rearming" => Held(j)' \/ j \in abandoned'
  BY <1>2 DEF HeardInv
<1> QED
  BY <1>1, <1>3 DEF HeardInv

LEMMA ClaimHeard ==
  ASSUME HeardInv, TypeInv', NEW c \in Controller, PassOver(c),
         NEW S \in SUBSET Item, NEW first \in {"start", "ready"}, Begin(c, S, first),
         \A i \in S : row[i].imported /\ row'[i] \in {row[i], RearmingRow(row[i])},
         \A i \in Item \ S : row'[i] = row[i]
  PROVE  HeardInv'
<1>1. step \in [Controller -> [Item -> Step]]
  BY DEF HeardInv, TypeInv, TypeOK
<1>2. step'[c] = [i \in Item |-> IF i \notin S THEN "none"
                              ELSE IF row[i].complete THEN first ELSE "pending"]
  BY <1>1 DEF Begin
<1>3. \A i \in S : Handles(c, i)'
  BY <1>2 DEF Handles
<1>4. \A i \in Item \ S : ~Handles(c, i)' /\ ~Handles(c, i)
  <2> SUFFICES ASSUME NEW i \in Item \ S PROVE ~Handles(c, i)' /\ ~Handles(c, i)
    OBVIOUS
  <2>1. step'[c][i] = "none" /\ step[c][i] = "none"
    BY <1>2 DEF PassOver
  <2> QED
    BY <2>1 DEF Handles
<1>5. \A d \in Controller \ {c}, i \in Item : Handles(d, i)' = Handles(d, i)
  <2>1. \A d \in Controller \ {c} : step'[d] = step[d]
    BY <1>1 DEF Begin
  <2> QED
    BY <2>1 DEF Handles
<1>6. \A i \in S : Held(i)'
  BY <1>3 DEF Held
<1>7. \A i \in Item \ S : Held(i)' <=> Held(i)
  BY <1>4, <1>5 DEF Held
<1>8. \A i \in S : Heard(row'[i]) /\ row'[i].imported
  BY RearmingHeard DEF HeardInv
<1>9. \A i \in Item \ S : i \in abandoned => i \in abandoned'
  BY DEF Begin
<1> QED
  BY <1>6, <1>7, <1>8, <1>9 DEF HeardInv

LEMMA ControlHeard ==
  ASSUME HeardInv, TypeInv', NEW c \in Controller, Control(c)
  PROVE  HeardInv'
<1>1. step \in [Controller -> [Item -> Step]] /\ row \in [Item -> MediaRow]
  BY DEF HeardInv, TypeInv, TypeOK
<1>2. CASE RearmWorkItems(c)
  <2>1. PICK S \in Claimed({i \in Item : RearmDue(row[i])}) :
          /\ row' = [i \in Item |-> IF i \in S THEN RearmingRow(row[i]) ELSE row[i]]
          /\ Begin(c, S, "start")
    BY <1>2 DEF RearmWorkItems
  <2>2. S \subseteq {i \in Item : RearmDue(row[i])}
    BY ClaimedPart
  <2>3. /\ S \subseteq Item /\ PassOver(c)
        /\ \A i \in S : row[i].imported /\ row'[i] \in {row[i], RearmingRow(row[i])}
        /\ \A i \in Item \ S : row'[i] = row[i]
    BY <1>2, <2>1, <2>2 DEF RearmDue, RearmWorkItems
  <2> QED
    BY <2>1, <2>3, ClaimHeard
<1>3. CASE VisibilityWorkItems(c)
  <2>1. PICK S \in Claimed({i \in Item : VisibilityDue(row[i])}) : Begin(c, S, "ready")
    BY <1>3 DEF VisibilityWorkItems
  <2>2. S \subseteq {i \in Item : VisibilityDue(row[i])}
    BY ClaimedPart
  <2>3. /\ S \subseteq Item /\ PassOver(c) /\ row' = row
        /\ \A i \in S : row[i].imported
    BY <1>3, <2>2 DEF VisibilityDue, VisibilityWorkItems, tables
  <2> QED
    BY <2>1, <2>3, ClaimHeard
<1>4. CASE Restart(c)
  <2>1. /\ step' = [step EXCEPT ![c] = [i \in Item |-> "none"]]
        /\ abandoned' = abandoned \cup {i \in Rearming : Handles(c, i)}
        /\ UNCHANGED row
    BY <1>4 DEF Restart, tables
  <2>2. \A j \in Item : step'[c][j] = "none"
    BY <1>1, <2>1
  <2>3. \A d \in Controller \ {c} : step'[d] = step[d]
    BY <1>1, <2>1
  <2>4. \A d \in Controller, j \in Item :
          Handles(d, j)' <=> Handles(d, j) /\ ~(d = c /\ j \in Item)
    BY <2>2, <2>3 DEF Handles
  <2>5. abandoned' = abandoned \cup {j \in Item : row[j].state = "Rearming" /\ Handles(c, j)}
    BY <2>1 DEF Rearming
  <2> QED
    BY <2>1, <2>4, <2>5, HandlersDrop
<1>5. ASSUME NEW i \in Item, LoseVerdict(c, i)
      PROVE  HeardInv'
  <2>1. /\ step' = [step EXCEPT ![c][i] = "none"] /\ Handles(c, i) /\ UNCHANGED row
        /\ abandoned' = abandoned \cup ({i} \cap Rearming)
    BY <1>5 DEF LoseVerdict, Goto, tables
  <2>2. \A d \in Controller, j \in Item :
          Handles(d, j)' <=> Handles(d, j) /\ ~(d = c /\ j \in {i})
    <3>1. step'[c][i] = "none"
      BY <1>1, <2>1
    <3>2. \A d \in Controller, j \in Item : d # c \/ j # i => step'[d][j] = step[d][j]
      BY <1>1, <2>1
    <3>3. ~Handles(c, i)'
      BY <3>1 DEF Handles
    <3>4. \A d \in Controller, j \in Item : d # c \/ j # i => Handles(d, j)' = Handles(d, j)
      BY <3>2 DEF Handles
    <3> QED
      BY <3>3, <3>4
  <2>3. abandoned' = abandoned \cup {j \in {i} : row[j].state = "Rearming" /\ Handles(c, j)}
    BY <2>1 DEF Rearming
  <2> DEFINE S == {i}
  <2>4. UNCHANGED row /\ S \in SUBSET Item
    BY <2>1
  <2> HIDE DEF S
  <2> QED
    BY <2>2, <2>3, <2>4, HandlersDrop DEF S
<1>6. ASSUME NEW i \in Item, FinishOrphan(c, i)
      PROVE  HeardInv'
  <2>1. /\ step[c][i] \in {"orphan", "orphanEnsure"}
        /\ step' = [step EXCEPT ![c][i] = "none"]
        /\ UNCHANGED <<row, abandoned>>
    BY <1>6 DEF FinishOrphan, Goto, histories
  <2>2. \A d \in Controller, j \in Item : Handles(d, j)' = Handles(d, j)
    BY <1>1, <2>1 DEF Handles
  <2>3. \A j \in Item : Held(j)' = Held(j)
    BY <2>2 DEF Held
  <2> QED
    BY <2>1, <2>3 DEF HeardInv
<1>7. ASSUME NEW i \in Item, Handle(c, i), ~FinishOrphan(c, i)
      PROVE  HeardInv'
  <2>1. Handles(c, i) /\ UNCHANGED abandoned
    BY <1>7 DEF Handle, GoesOn, SkipIncomplete, MarkRearming, ResolveSource, EnsureJob,
       CheckReady, PathReadable, RearmError, StatusError, PathNotReadable, Handles, histories
  <2>2. Heard(row[i]) /\ row[i].imported
    BY <2>1 DEF HeardInv, Held
  <2>3. ASSUME NEW q \in {SourceRequiredRow(row[i]), MetadataPendingRow(row[i]),
                          AvailableRow(row[i]), WaitingRow(row[i]), FailedRow(row[i])},
               Report(c, i, q)
        PROVE  HeardInv'
    <3>1. Heard(q) /\ q.imported /\ q.state # "Rearming"
      BY <2>2, VerdictsHeard
    <3>2. row'[i] = q /\ \A j \in Item \ {i} : row'[j] = row[j]
      BY <1>1, <2>3 DEF Report
    <3>3. "none" \in Step /\ Goto(c, i, "none")
      BY <2>3 DEF Report, Step
    <3> QED
      BY <2>1, <3>1, <3>2, <3>3, HandlerHeard
  <2>4. ASSUME NEW s \in {"resolve", "ensure", "ready", "probe"}, Goto(c, i, s),
               row' \in {row, [row EXCEPT ![i] = RearmingRow(row[i])]}
        PROVE  HeardInv'
    <3>1. /\ row'[i] \in {row[i], RearmingRow(row[i])}
          /\ \A j \in Item \ {i} : row'[j] = row[j]
      BY <1>1, <2>4
    <3>2. Heard(row'[i]) /\ row'[i].imported
      BY <2>2, <3>1, RearmingHeard
    <3>3. s \in Step /\ s \in {"pending", "start", "resolve", "ensure", "ready", "probe"}
      BY DEF Step
    <3> QED
      BY <2>1, <2>4, <3>1, <3>2, <3>3, HandlerHeard
  <2>5. CASE MarkRearming(c, i)
    <3>1. Goto(c, i, "resolve") /\ row' = [row EXCEPT ![i] = RearmingRow(row[i])]
      BY <1>1, <2>5 DEF MarkRearming
    <3> QED
      BY <2>4, <3>1
  <2>6. CASE SkipIncomplete(c, i) \/ RearmError(c, i) \/ StatusError(c, i)
             \/ PathReadable(c, i) \/ PathNotReadable(c, i)
    BY <2>3, <2>6 DEF SkipIncomplete, RearmError, StatusError, PathReadable, PathNotReadable
  <2>7. CASE ResolveSource(c, i) \/ EnsureJob(c, i)
    BY <2>3, <2>4, <2>7 DEF ResolveSource, EnsureJob
  <2>8. CASE CheckReady(c, i)
    <3>1. \/ Report(c, i, SourceRequiredRow(row[i]))
          \/ Goto(c, i, "probe") /\ row' = row
          \/ Report(c, i, WaitingRow(row[i]))
      BY <2>8 DEF CheckReady
    <3> QED
      BY <2>3, <2>4, <3>1
  <2> QED
    BY <1>7, <2>5, <2>6, <2>7, <2>8 DEF Handle, GoesOn
<1> QED
  BY <1>2, <1>3, <1>4, <1>5, <1>6, <1>7 DEF Control, Handle, GoesOn

LEMMA HeardStep ==
  ASSUME HeardInv, [Next]_vars
  PROVE  HeardInv'
<1>1. TypeInv'
  BY TypeStep DEF HeardInv
<1>2. CASE UNCHANGED vars
  <2>1. UNCHANGED <<row, step, abandoned>>
    BY <1>2 DEF vars, tables, workers, histories
  <2>2. \A i \in Item : Held(i)' = Held(i)
    BY <2>1 DEF Held, Handles
  <2> QED
    BY <1>1, <2>1, <2>2 DEF HeardInv
<1> QED
  BY <1>1, <1>2, ControlHeard, RequestsLeave, LibraryLeaves, GatewayLeaves DEF Next

\* An open request waits for a claim, is given up after its retries, is in
\* some hands or was dropped by a handler that died; who waits for the
\* gateway has a request.
RequestsHeard ==
  \A i \in Item :
    /\ row[i].requested =>
         \/ row[i].imported /\ row[i].state \in {"Waiting", "Failed"}
         \/ /\ row[i].imported /\ row[i].state \in {"Archived", "Broken"}
            /\ row[i].retries < MaxRetries
         \/ row[i].state = "Rearming" /\ (Held(i) \/ i \in abandoned)
    /\ row[i].state = "Waiting" => row[i].requested

\* However many replicas run the two passes, and whichever of two handlers of
\* a row writes last, no open request is left in a state that neither claim
\* looks for (RearmWorkItems, VisibilityWorkItems, the Mark statements).
THEOREM RequestsHeardByAll == Spec => []RequestsHeard
<1>1. Init => HeardInv
  <2> SUFFICES ASSUME Init PROVE HeardInv
    OBVIOUS
  <2>1. \A i \in Item : /\ ~Held(i) /\ row[i].state # "Rearming"
                        /\ Sound(row[i])
    BY RequestInitial DEF RequestInv, Init, Held, Handles
  <2> QED
    BY <2>1, SoundHeard, TypeInitial DEF HeardInv
<1>2. HeardInv => RequestsHeard
  BY DEF HeardInv, Heard, Open, RequestsHeard
<1>3. HeardInv /\ [Next]_vars => HeardInv'
  BY HeardStep
<1> QED
  BY <1>1, <1>2, <1>3, PTL DEF Spec

--------------------------------------------------------------------------------
(***************************************************************************)
(* The jobs.  What the gateway may do to a job here is what ReleaseJobs    *)
(* promises and one provider worker was shown to keep (GatewaySole_proofs, *)
(* JobsImplemented): every step of this model keeps the promise, and every *)
(* move it allows is one of this model's, so nothing was shown of the rows *)
(* that depends on a gateway better, or other, than the one there is.      *)
(***************************************************************************)

\* Warned is Missing to a client: the update that queues the job is to come.
SeenJob(j) == IF j = "Warned" THEN "Missing" ELSE j

Jobs == INSTANCE ReleaseJobs WITH job <- [r \in Release |-> SeenJob(job[r])]

\* Who is warned can be submitted again.
WarnedWithin == \A r \in Release : job[r] = "Warned" => recoveries[r] < MaxRecoveries

JobKept(r) ==
  /\ Jobs!Stays(r) \/ Jobs!Moves(r) \/ Jobs!Recovers(r)
  /\ job'[r] = "Warned" => recoveries'[r] < MaxRecoveries
JobsKept == \A r \in Release : JobKept(r)

LEMMA JobSeen ==
  ASSUME NEW r \in Release
  PROVE  /\ Jobs!Stays(r) <=> /\ SeenJob(job'[r]) = SeenJob(job[r])
                              /\ recoveries'[r] = recoveries[r]
         /\ Jobs!Moves(r) <=> /\ <<SeenJob(job[r]), SeenJob(job'[r])>> \in Jobs!Move
                              /\ recoveries'[r] = recoveries[r]
         /\ Jobs!Recovers(r) <=> /\ SeenJob(job[r]) = "Missing" /\ SeenJob(job'[r]) = "Queued"
                                 /\ recoveries'[r] = recoveries[r] + 1
  BY DEF Jobs!Stays, Jobs!Moves, Jobs!Recovers

LEMMA SameJobs ==
  ASSUME WarnedWithin, UNCHANGED <<job, recoveries>>
  PROVE  JobsKept
  BY JobSeen DEF WarnedWithin, JobsKept, JobKept

\* One job changes its state.
LEMMA OneJob ==
  ASSUME TypeInv, WarnedWithin, NEW r \in Release, NEW t, t # "Warned",
         job' = [job EXCEPT ![r] = t], UNCHANGED recoveries,
         SeenJob(job[r]) = t \/ <<SeenJob(job[r]), t>> \in Jobs!Move
  PROVE  JobsKept
<1>1. job'[r] = t /\ \A q \in Release \ {r} : job'[q] = job[q]
  BY DEF TypeInv, TypeOK
<1>2. ASSUME NEW q \in Release \ {r} PROVE JobKept(q)
  BY <1>1, <1>2, JobSeen DEF WarnedWithin, JobKept
<1>3. SeenJob(job'[r]) = t
  BY <1>1 DEF SeenJob
<1>4. JobKept(r)
  BY <1>1, <1>3, JobSeen DEF JobKept
<1> QED
  BY <1>2, <1>4 DEF JobsKept

\* A client's Ensure creates the job, or leaves it.
LEMMA EnsuredKept ==
  ASSUME TypeInv, WarnedWithin, NEW i \in Item,
         job' = [job EXCEPT ![releaseOf[i]] = EnsuredJob(@)], UNCHANGED recoveries
  PROVE  JobsKept
<1> DEFINE r == releaseOf[i]
<1>1. r \in Release /\ job \in [Release -> JobState]
  BY MediaConstants DEF TypeInv, TypeOK
<1>2. CASE job[r] = "Absent"
  <2>1. job' = [job EXCEPT ![r] = "Queued"]
    BY <1>1, <1>2 DEF EnsuredJob
  <2>2. <<SeenJob(job[r]), "Queued">> \in Jobs!Move
    BY <1>2 DEF SeenJob, Jobs!Move
  <2> HIDE DEF r
  <2> QED
    BY <1>1, <2>1, <2>2, OneJob
<1>3. CASE job[r] # "Absent"
  BY <1>1, <1>3, SameJobs DEF EnsuredJob
<1> QED
  BY <1>2, <1>3

LEMMA GatewayKept ==
  ASSUME TypeInv, WarnedWithin, Gateway
  PROVE  JobsKept
<1> SUFFICES ASSUME NEW r \in Release,
                    \/ GrabRelease(r) \/ JobSettles(r) \/ JobAdopted(r) \/ JobFails(r)
                    \/ JobRelisted(r) \/ PlacementLost(r) \/ RecoveryInterrupted(r)
             PROVE  JobsKept
  BY DEF Gateway
<1>1. ASSUME NEW from, NEW t, t # "Warned", JobMoves(r, from, t), UNCHANGED recoveries,
             \A s \in from : SeenJob(s) = t \/ <<SeenJob(s), t>> \in Jobs!Move
      PROVE  JobsKept
  BY <1>1, OneJob DEF JobMoves
<1>2. CASE GrabRelease(r) \/ JobSubmitted(r) \/ JobAdopted(r)
  BY <1>1, <1>2 DEF GrabRelease, JobSubmitted, JobAdopted, SeenJob, Jobs!Move
<1>3. CASE JobFinishes(r) \/ PlacementFound(r) \/ RecoveryLimit(r)
  BY <1>1, <1>3 DEF JobFinishes, PlacementFound, RecoveryLimit, SeenJob, Jobs!Move
<1>4. CASE \/ JobFails(r) \/ JobRelisted(r)
           \/ PlacementLost(r) \/ RecoveryInterrupted(r)
  BY <1>1, <1>4 DEF JobFails, JobRelisted, PlacementLost, RecoveryInterrupted, SeenJob, Jobs!Move
<1>5. ASSUME NEW t, job' = [job EXCEPT ![r] = t]
      PROVE  job'[r] = t /\ \A q \in Release \ {r} : job'[q] = job[q]
  BY <1>5 DEF TypeInv, TypeOK
<1>6. CASE WarnRelated(r)
  <2>1. /\ job[r] = "Missing" /\ recoveries[r] < MaxRecoveries
        /\ job' = [job EXCEPT ![r] = "Warned"] /\ UNCHANGED recoveries
    BY <1>6 DEF WarnRelated
  <2>2. JobKept(r)
    BY <1>5, <2>1, JobSeen DEF JobKept, SeenJob
  <2>3. ASSUME NEW q \in Release \ {r} PROVE JobKept(q)
    BY <1>5, <2>1, <2>3, JobSeen DEF WarnedWithin, JobKept
  <2> QED
    BY <2>2, <2>3 DEF JobsKept
<1>7. CASE Requeue(r)
  <2>1. /\ job[r] = "Warned" /\ job' = [job EXCEPT ![r] = "Queued"]
        /\ recoveries' = [recoveries EXCEPT ![r] = @ + 1]
    BY <1>7 DEF Requeue, JobMoves
  <2>2. /\ recoveries'[r] = recoveries[r] + 1
        /\ \A q \in Release \ {r} : recoveries'[q] = recoveries[q]
    BY <2>1 DEF TypeInv, TypeOK
  <2>3. JobKept(r)
    BY <1>5, <2>1, <2>2, JobSeen DEF JobKept, SeenJob
  <2>4. ASSUME NEW q \in Release \ {r} PROVE JobKept(q)
    BY <1>5, <2>1, <2>2, <2>4, JobSeen DEF WarnedWithin, JobKept
  <2> QED
    BY <2>3, <2>4 DEF JobsKept
<1> QED
  BY <1>2, <1>3, <1>4, <1>6, <1>7 DEF JobSettles

LEMMA OthersKept ==
  ASSUME TypeInv, WarnedWithin,
         (\E c \in Controller : Control(c)) \/ Clients \/ Library \/ UNCHANGED vars
  PROVE  JobsKept
<1>1. CASE \E c \in Controller : Control(c)
  <2>1. PICK c \in Controller : Control(c)
    BY <1>1
  <2>2. CASE RearmWorkItems(c) \/ VisibilityWorkItems(c) \/ Restart(c)
    BY <2>2, SameJobs DEF RearmWorkItems, VisibilityWorkItems, Restart, tables
  <2>3. ASSUME NEW i \in Item, LoseVerdict(c, i) PROVE JobsKept
    BY <2>3, SameJobs DEF LoseVerdict, tables
  <2>4. ASSUME NEW i \in Item, EnsureJob(c, i) PROVE JobsKept
    BY <2>4, EnsuredKept DEF EnsureJob
  <2>5. ASSUME NEW i \in Item, FinishOrphan(c, i) PROVE JobsKept
    BY <2>5, SameJobs, EnsuredKept DEF FinishOrphan
  <2>6. ASSUME NEW i \in Item,
               \/ SkipIncomplete(c, i) \/ MarkRearming(c, i) \/ ResolveSource(c, i)
               \/ CheckReady(c, i) \/ PathReadable(c, i) \/ RearmError(c, i)
               \/ StatusError(c, i) \/ PathNotReadable(c, i)
        PROVE  JobsKept
    BY <2>6, SameJobs DEF SkipIncomplete, MarkRearming, ResolveSource, CheckReady,
       PathReadable, RearmError, StatusError, PathNotReadable
  <2> QED
    BY <2>1, <2>2, <2>3, <2>4, <2>5, <2>6 DEF Control, Handle, GoesOn
<1>2. CASE Clients
  BY <1>2, SameJobs DEF Clients, ForceRequest, AskRequest, Playback, QueueFullRearm,
     RetryFailed, RequestSeerrTV, Request
<1>3. CASE Library
  BY <1>3, SameJobs DEF Library, Track, Import, LinkSource, FlagMissing, Delete, RetryDue,
     Observe
<1>4. CASE UNCHANGED vars
  BY <1>4, SameJobs DEF vars, tables
<1> QED
  BY <1>1, <1>2, <1>3, <1>4

LEMMA JobsStep ==
  ASSUME TypeInv, WarnedWithin, [Next]_vars
  PROVE  Jobs!JobsNext /\ WarnedWithin'
<1>1. JobsKept
  BY GatewayKept, OthersKept DEF Next
<1>2. job' \in [Release -> JobState] /\ recoveries' \in [Release -> 0 .. MaxRecoveries]
  BY TypeStep DEF TypeInv, TypeOK
<1>3. \A r \in Release : SeenJob(job'[r]) \in Jobs!JobPhase
  BY <1>2 DEF SeenJob, JobState, Jobs!JobPhase
<1>4. Jobs!JobsTyped'
  BY <1>2, <1>3 DEF Jobs!JobsTyped
<1> QED
  BY <1>1, <1>4 DEF JobsKept, JobKept, WarnedWithin, Jobs!JobsNext

\* Whatever the controllers, the clients and the library do, the jobs of the
\* releases move as ReleaseJobs says: a completed one goes back to work only by
\* way of Missing, a lost one is submitted again MaxRecoveries times at most,
\* and neither a failed nor an unknown one is (Ensure, GatewayRecoveryWaiting).
THEOREM JobsAsPromised == Spec => Jobs!JobsSpec
<1>1. Init => Jobs!JobsInit /\ WarnedWithin
  BY DEF Init, Jobs!JobsInit, WarnedWithin, SeenJob
<1>2. TypeInv /\ WarnedWithin /\ [Next]_vars => WarnedWithin'
  BY JobsStep
<1>3. TypeInv /\ WarnedWithin /\ [Next]_vars => [Jobs!JobsNext]_(Jobs!jobs)
  BY JobsStep
<1> QED
  BY <1>1, <1>2, <1>3, TypeInitial, TypeStep, PTL DEF Spec, Jobs!JobsSpec

\* What the promise allows the gateway to do to a job, it does here: what is
\* shown of the media rows holds against every behaviour of the worker.  Two
\* statements resubmit a lost job (GatewayRecoveryWaiting is the first), and
\* what one statement of the worker does to several jobs happens in turn.
THEOREM PromiseCovered ==
  ASSUME TypeInv, NEW r \in Release, UNCHANGED <<row, source, consumed, workers, histories>>,
         NEW t, job' = [job EXCEPT ![r] = t],
         \/ UNCHANGED recoveries /\ job[r] # "Warned" /\ <<job[r], t>> \in Jobs!Move
         \/ /\ recoveries' = [recoveries EXCEPT ![r] = @ + 1]
            /\ job[r] = "Warned" /\ t = "Queued"
  PROVE  Gateway
<1> SUFFICES \/ GrabRelease(r) \/ JobSettles(r) \/ JobAdopted(r) \/ JobFails(r)
             \/ JobRelisted(r) \/ PlacementLost(r)
  BY DEF Gateway
<1>1. CASE UNCHANGED recoveries /\ <<job[r], t>> \in Jobs!Move
  <2>1. ASSUME NEW from, job[r] \in from PROVE JobMoves(r, from, t)
    BY <2>1 DEF JobMoves
  <2>2. CASE job[r] = "Absent" /\ t = "Queued"
    BY <1>1, <2>1, <2>2 DEF GrabRelease
  <2>3. CASE job[r] = "Queued" /\ t \in {"Working", "Unknown"}
    BY <1>1, <2>1, <2>3 DEF JobSettles, JobSubmitted
  <2>4. CASE job[r] = "Unknown" /\ t = "Working"
    BY <1>1, <2>1, <2>4 DEF JobAdopted
  <2>5. CASE job[r] = "Working" /\ t = "Completed"
    BY <1>1, <2>1, <2>5 DEF JobSettles, JobFinishes
  <2>6. CASE job[r] = "Completed" /\ t = "Working"
    BY <1>1, <2>1, <2>6 DEF JobRelisted
  <2>7. CASE job[r] \in {"Working", "Completed"} /\ t = "Missing"
    BY <1>1, <2>1, <2>7 DEF PlacementLost
  <2>8. CASE job[r] = "Missing" /\ t = "Working"
    BY <1>1, <2>1, <2>8 DEF JobSettles, PlacementFound
  <2>9. CASE job[r] \in {"Queued", "Working", "Completed", "Missing"} /\ t = "Failed"
    BY <1>1, <2>1, <2>9 DEF JobFails
  <2> QED
    BY <1>1, <2>2, <2>3, <2>4, <2>5, <2>6, <2>7, <2>8, <2>9 DEF Jobs!Move
<1>2. CASE /\ recoveries' = [recoveries EXCEPT ![r] = @ + 1]
           /\ job[r] = "Warned" /\ t = "Queued"
  BY <1>2 DEF JobSettles, Requeue, JobMoves
<1> QED
  BY <1>1, <1>2
================================================================================
