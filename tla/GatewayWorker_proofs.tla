------------------------- MODULE GatewayWorker_proofs -------------------------
(***************************************************************************)
(* Proofs about GatewayWorker, for every set of jobs, every finite set of  *)
(* workers and every value of the limits.                                  *)
(*                                                                         *)
(*   TypeCorrect            Spec => []TypeOK                               *)
(*   SubmissionsExclusive   Spec => []OneSubmissionInFlight                *)
(*   BudgetRespected        Spec => []UploadBudget                         *)
(*   UploadsBounded         ... so at most MaxAttempts uploads of a job    *)
(*   LeaseHolds             with one worker, Spec => []LeaseOutlivesPass   *)
(***************************************************************************)
EXTENDS GatewayWorker, FiniteSetTheorems, SequenceTheorems, TLAPS

--------------------------------------------------------------------------------
(***************************************************************************)
(* What the statements of GatewayRows make of a row.                       *)
(***************************************************************************)

\* A row stays a row when one column is given a value of that column's type,
\* and so does a worker's copy of it.
LEMMA RowFields ==
  \A r \in Row :
    /\ \A x \in JobState : [r EXCEPT !.state = x] \in Row
    /\ \A x \in 0 .. MaxAttempts : [r EXCEPT !.attempts = x] \in Row
    /\ \A x \in 0 .. MissingThreshold : [r EXCEPT !.missing = x] \in Row
    /\ \A x \in Nat : [r EXCEPT !.pid = x] \in Row
    /\ \A x \in FilesOrNone : [r EXCEPT !.files = x] \in Row
    /\ \A x \in 0 .. Lease : [r EXCEPT !.wait = x] \in Row
  BY DEF Row

LEMMA CopyFields ==
  \A c \in CopyType :
    /\ \A x \in JobState : [c EXCEPT !.state = x] \in CopyType
    /\ \A x \in 0 .. MaxAttempts : [c EXCEPT !.attempts = x] \in CopyType
    /\ \A x \in 0 .. MissingThreshold : [c EXCEPT !.missing = x] \in CopyType
    /\ \A x \in Nat : [c EXCEPT !.pid = x] \in CopyType
    /\ \A x \in FilesOrNone : [c EXCEPT !.files = x] \in CopyType
    /\ \A x \in {0, Lease} : [c EXCEPT !.delay = x] \in CopyType
  BY DEF CopyType

\* The delays a statement writes are within the countdown's range.
LEMMA Delays == 0 \in 0 .. Lease /\ Lease \in 0 .. Lease /\ {0, Lease} \subseteq 0 .. Lease
  BY RowConstants

\* No statement leaves the type of a row.
LEMMA RowTypes ==
  ASSUME NEW r \in Row
  PROVE  /\ AddedRow(r) \in Row
         /\ ExpireSubmission(r) \in Row
         /\ FailExhausted(r) \in Row
         /\ DeferredRow(r) \in Row
         /\ WokenRow(r) \in Row
         /\ VerifiedRow(r) \in Row
         /\ \A id \in Nat : ResolvedRow(r, id) \in Row
<1>1. /\ AddedRow(r) \in Row
      /\ ExpireSubmission(r) \in Row
      /\ FailExhausted(r) \in Row
      /\ VerifiedRow(r) \in Row
  BY RowFields DEF AddedRow, ExpireSubmission, FailExhausted, VerifiedRow,
     JobState
<1>2. DeferredRow(r) \in Row
  <2>1. (IF r.attempts > 0 THEN r.attempts - 1 ELSE 0) \in 0 .. MaxAttempts
    BY RowConstants DEF Row
  <2> QED
    BY <2>1, RowFields, Delays DEF DeferredRow, JobState
<1>3. /\ WokenRow(r) \in Row
      /\ \A id \in Nat : ResolvedRow(r, id) \in Row
  BY RowFields, Delays DEF WokenRow, ResolvedRow, JobState
<1> QED
  BY <1>1, <1>2, <1>3

\* A swept row that is still queued has budget left, so claiming it keeps the
\* attempts within MaxAttempts.
LEMMA SweptTypes ==
  ASSUME NEW r \in Row
  PROVE  /\ Swept(r) \in Row
         /\ Swept(r).state = "Queued" => Swept(r).attempts < MaxAttempts
<1> DEFINE e == ExpireSubmission(r)
<1>1. e \in Row
  BY RowTypes
<1> HIDE DEF e
<1>2. FailExhausted(e) \in Row
  BY <1>1, RowTypes
<1>3. FailExhausted(e).state = "Queued" => FailExhausted(e).attempts < MaxAttempts
  BY <1>1, RowConstants DEF FailExhausted, Row
<1> QED
  BY <1>2, <1>3 DEF Swept, e

LEMMA ClaimedType ==
  ASSUME NEW r \in Row, r.state = "Queued" => r.attempts < MaxAttempts
  PROVE  ClaimedRow(r) \in Row
<1>1. CASE r.state = "Queued"
  <2>1. r.attempts + 1 \in 0 .. MaxAttempts
    BY <1>1, RowConstants DEF Row
  <2> QED
    BY <1>1, <2>1, RowFields, Delays DEF ClaimedRow, JobState
<1>2. CASE r.state # "Queued"
  BY <1>2, RowFields, Delays DEF ClaimedRow
<1> QED
  BY <1>1, <1>2

LEMMA UpdatedType ==
  ASSUME NEW r \in Row, NEW c \in CopyType
  PROVE  UpdatedRow(r, c, c.delay) \in Row
<1>1. /\ c.state \in JobState
      /\ c.missing \in 0 .. MissingThreshold
      /\ c.pid \in Nat
      /\ c.files \in FilesOrNone
      /\ c.delay \in {0, Lease}
  BY DEF CopyType
<1> QED
  BY <1>1, RowFields, Delays DEF UpdatedRow, JobState

\* A copy is typed when it is taken of a row the table holds.
LEMMA CopyOfType ==
  ASSUME NEW r \in Row, r.state # "Absent"
  PROVE  CopyOf(r) \in CopyType
  BY DEF Row, CopyType, CopyOf

LEMMA DecisionTypes ==
  ASSUME NEW c \in CopyType
  PROVE  /\ AfterAbsence(c) \in CopyType
         /\ Unanswered(c) \in CopyType
         /\ \A id \in Nat : Accepted(c, id) \in CopyType
         /\ \A f \in Catalog : AfterReady(c, f) \in CopyType
<1>1. 0 \in 0 .. MissingThreshold
  BY RowConstants
<1>2. (IF c.missing < MissingThreshold THEN c.missing + 1 ELSE c.missing)
        \in 0 .. MissingThreshold
  BY RowConstants DEF CopyType
<1>3. AfterAbsence(c) \in CopyType
  BY <1>2, CopyFields DEF AfterAbsence, JobState
<1>4. /\ Unanswered(c) \in CopyType
      /\ \A id \in Nat : Accepted(c, id) \in CopyType
  BY <1>1, CopyFields DEF Unanswered, Accepted, JobState
<1>5. ASSUME NEW f \in Catalog PROVE AfterReady(c, f) \in CopyType
  BY <1>1, CopyFields DEF AfterReady, JobState, FilesOrNone
<1> QED
  BY <1>3, <1>4, <1>5

--------------------------------------------------------------------------------
(***************************************************************************)
(* Type correctness.                                                       *)
(***************************************************************************)

LEMMA BlankType == Blank \in CopyType
  BY RowConstants DEF Blank, CopyType, JobState, FilesOrNone

LEMMA InitType == Init => TypeOK
<1> SUFFICES ASSUME Init PROVE TypeOK
  OBVIOUS
<1>1. NoRow \in Row
  BY RowConstants DEF NoRow, Row, FilesOrNone
<1>2. row \in [Job -> Row]
  BY <1>1 DEF Init
<1>3. copy \in [Worker -> CopyType]
  BY BlankType DEF Init
<1>4. provider \in [Job -> Seq(Placement)]
  <2>1. <<"active">> \in Seq(Placement) /\ <<>> \in Seq(Placement)
    BY DEF Placement
  <2> QED
    BY <2>1 DEF Init
<1>5. /\ gate \in 0 .. SubmitInterval
      /\ budget \in [Worker -> 0 .. PassLimit]
  BY WorkerConstants DEF Init
<1>6. /\ pc \in [Worker -> Step]
      /\ held \in [Worker -> Job \cup {NoJob}]
      /\ recorded \in [Job -> SUBSET Nat]
      /\ glitches \in [Job -> Nat]
      /\ \A w \in Worker : pc[w] = "idle"
  BY DEF Init, Step
<1> QED
  BY <1>2, <1>3, <1>4, <1>5, <1>6 DEF TypeOK

\* The two ways a worker's own variables change.
LEMMA GotoType ==
  ASSUME TypeOK, NEW w \in Worker, NEW s \in Step, NEW j \in Job,
         NEW c \in CopyType, Goto(w, s, j, c)
  PROVE  /\ pc' \in [Worker -> Step]
         /\ held' \in [Worker -> Job \cup {NoJob}]
         /\ copy' \in [Worker -> CopyType]
         /\ budget' \in [Worker -> 0 .. PassLimit]
         /\ \A v \in Worker : pc'[v] \notin {"idle", "claim"} => held'[v] \in Job
  BY DEF TypeOK, Goto

LEMMA ReturnType ==
  ASSUME TypeOK, NEW w \in Worker, Return(w)
  PROVE  /\ pc' \in [Worker -> Step]
         /\ held' \in [Worker -> Job \cup {NoJob}]
         /\ copy' \in [Worker -> CopyType]
         /\ budget' \in [Worker -> 0 .. PassLimit]
         /\ \A v \in Worker : pc'[v] \notin {"idle", "claim"} => held'[v] \in Job
<1>1. 0 \in 0 .. PassLimit
  BY WorkerConstants
<1> QED
  BY <1>1, BlankType DEF TypeOK, Return, Step

LEMMA ServingType ==
  ASSUME TypeOK, NEW j \in Job
  PROVE  ServingIds(j) \subseteq Nat \ {0}
<1>1. provider[j] \in Seq(Placement)
  BY DEF TypeOK
<1>2. Placements(j) \subseteq Nat \ {0}
  BY <1>1 DEF Placements
<1> QED
  BY <1>2 DEF ServingIds

\* Types of what a database statement or a call leaves: the rows and the gate,
\* the uploads, and the two history variables.
RowsTyped == row' \in [Job -> Row] /\ gate' \in 0 .. SubmitInterval
UploadsTyped == provider' \in [Job -> Seq(Placement)]
HistoryTyped == recorded' \in [Job -> SUBSET Nat] /\ glitches' \in [Job -> Nat]
WorkersTyped ==
  /\ pc' \in [Worker -> Step]
  /\ held' \in [Worker -> Job \cup {NoJob}]
  /\ copy' \in [Worker -> CopyType]
  /\ budget' \in [Worker -> 0 .. PassLimit]
  /\ \A v \in Worker : pc'[v] \notin {"idle", "claim"} => held'[v] \in Job

LEMMA TypeParts ==
  RowsTyped /\ UploadsTyped /\ HistoryTyped /\ WorkersTyped => TypeOK'
  BY DEF RowsTyped, UploadsTyped, HistoryTyped, WorkersTyped, TypeOK

LEMMA UnchangedTypes ==
  ASSUME TypeOK
  PROVE  /\ UNCHANGED rowVars => RowsTyped
         /\ UNCHANGED provider => UploadsTyped
         /\ UNCHANGED history => HistoryTyped
         /\ UNCHANGED workerVars => WorkersTyped
  BY DEF TypeOK, RowsTyped, UploadsTyped, HistoryTyped, WorkersTyped, rowVars,
     history, workerVars

\* The steps of one worker.
LEMMA WorkerType ==
  ASSUME TypeOK, NEW w \in Worker, WorkerNext(w) \/ Abandon(w)
  PROVE  TypeOK'
<1> DEFINE j == held[w]
           c == copy[w]
<1>1. /\ row \in [Job -> Row]
      /\ gate \in 0 .. SubmitInterval
      /\ provider \in [Job -> Seq(Placement)]
      /\ recorded \in [Job -> SUBSET Nat]
      /\ glitches \in [Job -> Nat]
      /\ copy \in [Worker -> CopyType]
      /\ budget \in [Worker -> 0 .. PassLimit]
      /\ c \in CopyType
      /\ pc[w] \notin {"idle", "claim"} => j \in Job
  BY DEF TypeOK
<1>2. ASSUME Return(w) PROVE WorkersTyped
  BY <1>2, ReturnType DEF WorkersTyped
<1>3. ASSUME NEW s \in Step, NEW i \in Job, NEW d \in CopyType, Goto(w, s, i, d)
      PROVE  WorkersTyped
  BY <1>3, GotoType DEF WorkersTyped
<1>4. PassLimit \in 0 .. PassLimit /\ SubmitInterval \in 0 .. SubmitInterval
  BY WorkerConstants
<1>5. CASE ClaimUnknownGatewayTorrent(w)
  <2>1. PICK i \in Torrent :
          /\ UnknownDue(row[i])
          /\ row' = [row EXCEPT ![i].wait = Lease]
          /\ held' = [held EXCEPT ![w] = i]
          /\ copy' = [copy EXCEPT ![w] = CopyOf(row[i])]
    BY <1>5 DEF ClaimUnknownGatewayTorrent
  <2>2. i \in Job /\ row[i] \in Row
    BY <1>1 DEF Torrent
  <2>3. CopyOf(row[i]) \in CopyType
    BY <2>1, <2>2, CopyOfType DEF UnknownDue
  <2>4. [row[i] EXCEPT !.wait = Lease] \in Row
    BY <2>2, RowFields, Delays
  <2>5. RowsTyped
    BY <1>1, <1>5, <2>1, <2>2, <2>4 DEF RowsTyped, ClaimUnknownGatewayTorrent
  <2>6. WorkersTyped
    BY <1>5, <1>4, <2>1, <2>2, <2>3
       DEF WorkersTyped, ClaimUnknownGatewayTorrent, TypeOK, Step
  <2> QED
    BY <1>5, <2>5, <2>6, UnchangedTypes, TypeParts
       DEF ClaimUnknownGatewayTorrent
<1>6. CASE NoUnknownTorrent(w)
  <2>1. WorkersTyped
    BY <1>6, <1>4 DEF WorkersTyped, NoUnknownTorrent, TypeOK, Step
  <2> QED
    BY <1>6, <2>1, UnchangedTypes, TypeParts DEF NoUnknownTorrent
<1>7. CASE FindActive(w)
  <2>1. PICK id \in ServingIds(j) :
          Goto(w, "resolve", j, [c EXCEPT !.pid = id])
    BY <1>7 DEF FindActive
  <2>2. j \in Job
    BY <1>1, <1>7 DEF FindActive
  <2>3. [c EXCEPT !.pid = id] \in CopyType
    BY <1>1, <2>1, <2>2, ServingType, CopyFields
  <2>4. WorkersTyped
    BY <1>3, <2>1, <2>2, <2>3 DEF Step
  <2> QED
    BY <1>7, <2>4, UnchangedTypes, TypeParts DEF FindActive
<1>8. CASE RecordUnknownGatewayLookup(w)
  BY <1>2, <1>8, UnchangedTypes, TypeParts DEF RecordUnknownGatewayLookup
<1>9. CASE ResolveUnknownGatewayTorrent(w)
  <2>1. j \in Job /\ row[j] \in Row /\ c.pid \in Nat
    BY <1>1, <1>9 DEF ResolveUnknownGatewayTorrent, CopyType
  <2>2. ResolvedRow(row[j], c.pid) \in Row
    BY <2>1, RowTypes
  <2>3. row' = [row EXCEPT ![j] = ResolvedRow(row[j], c.pid)]
    BY <1>9 DEF ResolveUnknownGatewayTorrent
  <2>4. RowsTyped
    BY <1>1, <1>9, <2>1, <2>2, <2>3 DEF RowsTyped, ResolveUnknownGatewayTorrent
  <2>5. row'[j].pid \in Nat
    BY <1>1, <2>1, <2>2, <2>3 DEF Row
  <2>6. HistoryTyped
    BY <1>1, <1>9, <2>1, <2>5 DEF HistoryTyped, ResolveUnknownGatewayTorrent
  <2> QED
    BY <1>2, <1>9, <2>4, <2>6, UnchangedTypes, TypeParts
       DEF ResolveUnknownGatewayTorrent
<1>10. CASE ClaimGatewayJob(w)
  <2> DEFINE swept == [i \in Job |-> Swept(row[i])]
  <2>1. /\ swept \in [Job -> Row]
        /\ \A i \in Job : swept[i].state = "Queued"
                            => swept[i].attempts < MaxAttempts
    BY <1>1, SweptTypes
  <2> HIDE DEF swept
  <2>2. CASE row' = swept /\ Return(w) /\ UNCHANGED <<gate, provider, history>>
    <3>1. RowsTyped
      BY <1>1, <2>1, <2>2 DEF RowsTyped
    <3> QED
      BY <1>2, <2>2, <3>1, UnchangedTypes, TypeParts
  <2>3. ASSUME NEW i \in Job, Claimable(swept[i], gate = 0),
               row' = [swept EXCEPT ![i] = ClaimedRow(@)],
               UNCHANGED <<provider, history>>,
               IF swept[i].state = "Queued"
               THEN /\ gate' = SubmitInterval
                    /\ Goto(w, IF i \in Usenet THEN "post" ELSE "preflight", i,
                            [CopyOf(swept[i]) EXCEPT !.attempts = @ + 1])
               ELSE /\ UNCHANGED gate
                    /\ Goto(w, "poll", i, CopyOf(swept[i]))
        PROVE  TypeOK'
    <3>1. swept[i] \in Row /\ ClaimedRow(swept[i]) \in Row
      BY <2>1, ClaimedType
    <3>2. RowsTyped
      BY <1>1, <1>4, <2>1, <2>3, <3>1 DEF RowsTyped
    <3>3. CopyOf(swept[i]) \in CopyType
      BY <2>3, <3>1, CopyOfType DEF Claimable
    <3>4. WorkersTyped
      <4>1. CASE swept[i].state = "Queued"
        <5>1. CopyOf(swept[i]).attempts + 1 \in 0 .. MaxAttempts
          BY <2>1, <3>1, <4>1, RowConstants DEF CopyOf, Row
        <5>2. [CopyOf(swept[i]) EXCEPT !.attempts = @ + 1] \in CopyType
          BY <3>3, <5>1, CopyFields
        <5> QED
          BY <1>3, <2>3, <4>1, <5>2 DEF Step
      <4>2. CASE swept[i].state # "Queued"
        BY <1>3, <2>3, <3>3, <4>2 DEF Step
      <4> QED
        BY <4>1, <4>2
    <3> QED
      BY <2>3, <3>2, <3>4, UnchangedTypes, TypeParts
  <2> QED
    BY <1>10, <2>2, <2>3 DEF ClaimGatewayJob, swept
<1>11. CASE Preflight(w)
  <2>1. j \in Job
    BY <1>1, <1>11 DEF Preflight
  <2>2. /\ Unanswered(c) \in CopyType
        /\ \A id \in ServingIds(j) : Accepted(c, id) \in CopyType
    BY <1>1, <2>1, DecisionTypes, ServingType
  <2>3. WorkersTyped
    BY <1>1, <1>3, <1>11, <2>1, <2>2 DEF Preflight, Step
  <2> QED
    BY <1>11, <2>3, UnchangedTypes, TypeParts DEF Preflight
<1>12. CASE DeferGatewaySubmission(w)
  <2>1. j \in Job /\ DeferredRow(row[j]) \in Row
    BY <1>1, <1>12, RowTypes DEF DeferGatewaySubmission
  <2>2. RowsTyped
    BY <1>1, <1>12, <2>1 DEF RowsTyped, DeferGatewaySubmission
  <2> QED
    BY <1>2, <1>12, <2>2, UnchangedTypes, TypeParts DEF DeferGatewaySubmission
<1>13. CASE Post(w)
  <2> DEFINE id == Len(provider[j]) + 1
  <2>1. j \in Job /\ provider[j] \in Seq(Placement) /\ id \in Nat
    BY <1>1, <1>13 DEF Post
  <2>2. PICK outcome \in {"active", "queued", "gone"} :
          /\ provider' = [provider EXCEPT ![j] = Append(@, outcome)]
          /\ \/ Goto(w, "write", j, Accepted(c, id))
             \/ Goto(w, "write", j, Unanswered(c))
    BY <1>13 DEF Post
  <2>3. Append(provider[j], outcome) \in Seq(Placement)
    BY <2>1 DEF Placement
  <2>4. UploadsTyped
    BY <1>1, <2>1, <2>2, <2>3 DEF UploadsTyped
  <2>5. Accepted(c, id) \in CopyType /\ Unanswered(c) \in CopyType
    BY <1>1, <2>1, DecisionTypes
  <2> HIDE DEF id
  <2>6. WorkersTyped
    BY <1>3, <2>1, <2>2, <2>5 DEF Step
  <2> QED
    BY <1>13, <2>4, <2>6, UnchangedTypes, TypeParts DEF Post
<1>14. CASE Poll(w)
  <2>1. j \in Job
    BY <1>1, <1>14 DEF Poll
  <2>2. UNCHANGED recorded /\ (UNCHANGED glitches \/ FalseAbsence(j))
    BY <1>14 DEF Poll
  <2>3. HistoryTyped
    <3>1. glitches[j] + 1 \in Nat
      BY <1>1, <2>1
    <3> QED
      BY <1>1, <2>1, <2>2, <3>1 DEF HistoryTyped, FalseAbsence
  <2>4. \E d \in CopyType : Goto(w, "write", j, d)
    <3>1. /\ [c EXCEPT !.missing = 0, !.delay = Lease] \in CopyType
          /\ [c EXCEPT !.state = "Failed", !.missing = 0, !.delay = Lease]
               \in CopyType
          /\ [c EXCEPT !.state = "Downloading", !.missing = 0, !.delay = 0]
               \in CopyType
      <4>1. 0 \in 0 .. MissingThreshold
        BY RowConstants
      <4> QED
        BY <1>1, <4>1, CopyFields DEF JobState
    <3> QED
      BY <1>1, <1>14, <3>1, DecisionTypes DEF Poll
  <2>5. WorkersTyped
    BY <1>3, <2>1, <2>4 DEF Step
  <2> QED
    BY <1>14, <2>3, <2>5, UnchangedTypes, TypeParts DEF Poll
<1>15. CASE UpdateGatewayJob(w)
  <2>1. j \in Job /\ UpdatedRow(row[j], c, c.delay) \in Row /\ c.pid \in Nat
    BY <1>1, <1>15, UpdatedType DEF UpdateGatewayJob, CopyType
  <2>2. RowsTyped
    BY <1>1, <1>15, <2>1 DEF RowsTyped, UpdateGatewayJob
  <2>3. HistoryTyped
    BY <1>1, <1>15, <2>1 DEF HistoryTyped, UpdateGatewayJob
  <2> QED
    BY <1>2, <1>15, <2>2, <2>3, UnchangedTypes, TypeParts DEF UpdateGatewayJob
<1>16. CASE Abandon(w)
  BY <1>2, <1>16, UnchangedTypes, TypeParts DEF Abandon
<1> QED
  BY <1>5, <1>6, <1>7, <1>8, <1>9, <1>10, <1>11, <1>12, <1>13, <1>14, <1>15,
     <1>16 DEF WorkerNext

\* The steps of everybody else.
LEMMA EnvironmentType ==
  ASSUME TypeOK,
         \/ \E j \in Job : \/ AddGatewaySource(j) \/ WakeGatewayJob(j)
                           \/ FinishGatewayMount(j)
         \/ \E j \in Job : \E id \in Placements(j) : ProviderStep(j, id)
         \/ Tick
  PROVE  TypeOK'
<1>1. /\ row \in [Job -> Row]
      /\ gate \in 0 .. SubmitInterval
      /\ provider \in [Job -> Seq(Placement)]
      /\ budget \in [Worker -> 0 .. PassLimit]
  BY DEF TypeOK
<1>2. ASSUME NEW j \in Job,
             AddGatewaySource(j) \/ WakeGatewayJob(j) \/ FinishGatewayMount(j)
      PROVE  TypeOK'
  <2>1. /\ AddedRow(row[j]) \in Row
        /\ WokenRow(row[j]) \in Row
        /\ VerifiedRow(row[j]) \in Row
    BY <1>1, RowTypes
  <2>2. RowsTyped
    BY <1>1, <1>2, <2>1
       DEF RowsTyped, AddGatewaySource, WakeGatewayJob, FinishGatewayMount
  <2> QED
    BY <1>2, <2>2, UnchangedTypes, TypeParts
       DEF AddGatewaySource, WakeGatewayJob, FinishGatewayMount
<1>3. ASSUME NEW j \in Job, NEW id \in Placements(j), ProviderStep(j, id)
      PROVE  TypeOK'
  <2>1. PICK move \in ProviderMove :
          provider' = [provider EXCEPT ![j][id] = move[2]]
    BY <1>3 DEF ProviderStep
  <2>2. provider[j] \in Seq(Placement) /\ id \in 1 .. Len(provider[j])
    BY <1>1 DEF Placements
  <2>3. move[2] \in Placement
    BY DEF ProviderMove, Placement
  <2>4. [provider[j] EXCEPT ![id] = move[2]] \in Seq(Placement)
    BY <2>2, <2>3, ExceptSeq
  <2>5. UploadsTyped
    BY <1>1, <2>1, <2>4 DEF UploadsTyped
  <2> QED
    BY <1>3, <2>5, UnchangedTypes, TypeParts DEF ProviderStep
<1>4. CASE Tick
  <2>1. ASSUME NEW r \in Row PROVE [r EXCEPT !.wait = CountDown(@)] \in Row
    <3>1. CountDown(r.wait) \in 0 .. Lease
      BY RowConstants DEF Row, CountDown
    <3> QED
      BY <3>1, RowFields
  <2>2. CountDown(gate) \in 0 .. SubmitInterval
    BY <1>1, WorkerConstants DEF CountDown
  <2>3. RowsTyped
    BY <1>1, <1>4, <2>1, <2>2 DEF RowsTyped, Tick
  <2>4. \A w \in Worker : CountDown(budget[w]) \in 0 .. PassLimit
    BY <1>1, WorkerConstants DEF CountDown
  <2>5. WorkersTyped
    BY <1>4, <2>4 DEF WorkersTyped, Tick, TypeOK
  <2> QED
    BY <1>4, <2>3, <2>5, UnchangedTypes, TypeParts DEF Tick
<1> QED
  BY <1>2, <1>3, <1>4

LEMMA NextType == TypeOK /\ [Next]_vars => TypeOK'
<1> SUFFICES ASSUME TypeOK, [Next]_vars PROVE TypeOK'
  OBVIOUS
<1>1. CASE UNCHANGED vars
  BY <1>1 DEF vars, TypeOK
<1>2. CASE Next
  BY <1>2, WorkerType, EnvironmentType DEF Next
<1> QED
  BY <1>1, <1>2

\* Rows, worker copies and the provider's uploads keep their types: a claim
\* never takes a job past MaxAttempts, a poll never counts past
\* MissingThreshold, and a worker past its claim always holds a job.
THEOREM TypeCorrect == Spec => []TypeOK
  BY InitType, NextType, PTL DEF Spec

--------------------------------------------------------------------------------
(***************************************************************************)
(* One submission in flight.                                               *)
(***************************************************************************)

\* The gate a worker closed when it claimed a queued job stays closed for
\* longer than its pass can last, because PassLimit < SubmitInterval.
GateOutlastsPass ==
  \A w \in Worker : pc[w] \in {"preflight", "post"} => gate > budget[w]

GateInv == TypeOK /\ GateOutlastsPass /\ OneSubmissionInFlight

\* A worker's step that claims nothing keeps the gate, and leaves the worker
\* submitting only if it was submitting already.
LEMMA SubmittingStep ==
  ASSUME TypeOK, NEW w \in Worker, WorkerNext(w) \/ Abandon(w),
         ~ClaimGatewayJob(w)
  PROVE  /\ UNCHANGED gate
         /\ pc'[w] \in {"preflight", "post"}
              => pc[w] \in {"preflight", "post"} /\ UNCHANGED budget
         /\ \A v \in Worker \ {w} : pc'[v] = pc[v] /\ budget'[v] = budget[v]
<1>1. CASE ClaimUnknownGatewayTorrent(w) \/ NoUnknownTorrent(w)
  BY <1>1 DEF ClaimUnknownGatewayTorrent, NoUnknownTorrent, TypeOK, rowVars
<1>2. CASE FindActive(w) \/ RecordUnknownGatewayLookup(w)
  BY <1>2 DEF FindActive, RecordUnknownGatewayLookup, Goto, Return, TypeOK,
     rowVars
<1>3. CASE Preflight(w) \/ Post(w)
  BY <1>3 DEF Preflight, Post, Goto, TypeOK, rowVars
<1>4. CASE Poll(w)
  BY <1>4 DEF Poll, Goto, TypeOK, rowVars
<1>5. CASE \/ ResolveUnknownGatewayTorrent(w) \/ DeferGatewaySubmission(w)
           \/ UpdateGatewayJob(w) \/ Abandon(w)
  BY <1>5 DEF ResolveUnknownGatewayTorrent, DeferGatewaySubmission,
     UpdateGatewayJob, Abandon, Return, TypeOK, rowVars
<1> QED
  BY <1>1, <1>2, <1>3, <1>4, <1>5 DEF WorkerNext

LEMMA GateStep == GateInv /\ [Next]_vars => GateInv'
<1> SUFFICES ASSUME GateInv, [Next]_vars
             PROVE  GateOutlastsPass' /\ OneSubmissionInFlight'
  BY NextType DEF GateInv
<1>1. /\ TypeOK /\ GateOutlastsPass /\ OneSubmissionInFlight
      /\ gate \in Nat /\ gate' \in Nat
      /\ \A w \in Worker : budget[w] \in Nat /\ budget'[w] \in Nat
  <2>1. TypeOK /\ TypeOK'
    BY NextType DEF GateInv
  <2> QED
    BY <2>1, WorkerConstants DEF GateInv, TypeOK
<1>2. ASSUME NEW w \in Worker, ClaimGatewayJob(w)
      PROVE  GateOutlastsPass' /\ OneSubmissionInFlight'
  <2>1. \A v \in Worker \ {w} : pc'[v] = pc[v] /\ budget'[v] = budget[v]
    BY <1>1, <1>2 DEF ClaimGatewayJob, Goto, Return, TypeOK
  <2>2. CASE pc'[w] \in {"preflight", "post"}
    <3>1. gate = 0 /\ gate' = SubmitInterval /\ UNCHANGED budget
      BY <1>1, <1>2, <2>2
         DEF ClaimGatewayJob, Goto, Return, TypeOK, Claimable
    <3>2. \A v \in Worker : pc[v] \notin {"preflight", "post"}
      BY <1>1, <3>1 DEF GateOutlastsPass
    <3>3. budget[w] < SubmitInterval
      BY <1>1, WorkerConstants DEF TypeOK
    <3> QED
      BY <2>1, <3>1, <3>2, <3>3 DEF GateOutlastsPass, OneSubmissionInFlight
  <2>3. CASE pc'[w] \notin {"preflight", "post"}
    <3>1. UNCHANGED gate
      BY <1>1, <1>2, <2>3 DEF ClaimGatewayJob, Goto, Return, TypeOK
    <3> QED
      BY <1>1, <2>1, <2>3, <3>1 DEF GateOutlastsPass, OneSubmissionInFlight
  <2> QED
    BY <2>2, <2>3
<1>3. ASSUME NEW w \in Worker, WorkerNext(w) \/ Abandon(w), ~ClaimGatewayJob(w)
      PROVE  GateOutlastsPass' /\ OneSubmissionInFlight'
  BY <1>1, <1>3, SubmittingStep DEF GateOutlastsPass, OneSubmissionInFlight
<1>4. CASE Tick
  <2>1. /\ gate' = CountDown(gate) /\ UNCHANGED pc
        /\ \A w \in Worker : budget'[w] = CountDown(budget[w])
        /\ \A w \in Worker : pc[w] # "idle" => budget[w] > 0
    BY <1>4 DEF Tick
  <2>2. \A w \in Worker : pc'[w] \in {"preflight", "post"} => gate' > budget'[w]
    BY <1>1, <2>1 DEF GateOutlastsPass, CountDown
  <2> QED
    BY <1>1, <2>1, <2>2 DEF GateOutlastsPass, OneSubmissionInFlight
<1>5. CASE UNCHANGED <<gate, pc, budget>>
  BY <1>1, <1>5 DEF GateOutlastsPass, OneSubmissionInFlight
<1>6. CASE \/ \E j \in Job : \/ AddGatewaySource(j) \/ WakeGatewayJob(j)
                             \/ FinishGatewayMount(j)
           \/ \E j \in Job : \E id \in Placements(j) : ProviderStep(j, id)
           \/ UNCHANGED vars
  BY <1>5, <1>6 DEF AddGatewaySource, WakeGatewayJob, FinishGatewayMount,
     ProviderStep, vars, rowVars, workerVars
<1> QED
  BY <1>2, <1>3, <1>4, <1>6 DEF Next

\* However many gateway replicas share the database, the tenant's submission
\* gate lets at most one of them be on its way to an upload: a pass ends
\* before the gate it closed opens again.
THEOREM SubmissionsExclusive == Spec => []OneSubmissionInFlight
<1>1. Init => GateInv
  BY InitType DEF Init, GateInv, GateOutlastsPass, OneSubmissionInFlight
<1>2. GateInv => OneSubmissionInFlight
  BY DEF GateInv
<1> QED
  BY <1>1, <1>2, GateStep, PTL DEF Spec

--------------------------------------------------------------------------------
(***************************************************************************)
(* The upload budget.                                                      *)
(***************************************************************************)

\* UploadBudget for one job.
Paid(j) == UploadCount(j) + Cardinality(Reserved(j)) <= row[j].attempts

LEMMA ReservedFinite ==
  ASSUME NEW j \in Job
  PROVE  /\ IsFiniteSet(Reserved(j)) /\ Cardinality(Reserved(j)) \in Nat
         /\ IsFiniteSet(Reserved(j)') /\ Cardinality(Reserved(j)') \in Nat
<1>1. Reserved(j) \subseteq Worker /\ Reserved(j)' \subseteq Worker
  BY DEF Reserved
<1> QED
  BY <1>1, WorkerConstants, FS_Subset, FS_CardinalityType

LEMMA LengthTypes ==
  ASSUME TypeOK, TypeOK', NEW j \in Job
  PROVE  /\ Known(j) \in Nat
         /\ Len(provider[j]) \in Nat /\ Len(provider'[j]) \in Nat
         /\ row[j].attempts \in Nat /\ row'[j].attempts \in Nat
<1>1. /\ provider[j] \in Seq(Placement) /\ provider'[j] \in Seq(Placement)
      /\ row[j] \in Row /\ row'[j] \in Row
  BY DEF TypeOK
<1>2. Known(j) \in Nat
  BY DEF Known
<1>3. Len(provider[j]) \in Nat /\ Len(provider'[j]) \in Nat
  BY <1>1, LenProperties
<1>4. row[j].attempts \in Nat /\ row'[j].attempts \in Nat
  BY <1>1 DEF Row
<1> QED
  BY <1>2, <1>3, <1>4

\* No reservation is gained and no attempt is lost.
LEMMA PaidKept ==
  ASSUME TypeOK, TypeOK', NEW j \in Job, Paid(j),
         Reserved(j)' \subseteq Reserved(j),
         Len(provider'[j]) = Len(provider[j]),
         row'[j].attempts = row[j].attempts
  PROVE  Paid(j)'
<1>1. Cardinality(Reserved(j)') <= Cardinality(Reserved(j))
  BY ReservedFinite, FS_Subset
<1> QED
  BY <1>1, ReservedFinite, LengthTypes DEF Paid, UploadCount

\* A worker gains a reservation with the attempt it is charged.
LEMMA PaidCharged ==
  ASSUME TypeOK, TypeOK', NEW j \in Job, NEW w \in Worker, Paid(j),
         Reserved(j)' \subseteq Reserved(j) \cup {w},
         Len(provider'[j]) = Len(provider[j]),
         row'[j].attempts = row[j].attempts + 1
  PROVE  Paid(j)'
<1>1. /\ IsFiniteSet(Reserved(j) \cup {w})
      /\ Cardinality(Reserved(j) \cup {w}) \in Nat
      /\ Cardinality(Reserved(j) \cup {w}) <= Cardinality(Reserved(j)) + 1
  <2>1. /\ IsFiniteSet(Reserved(j) \cup {w})
        /\ Cardinality(Reserved(j) \cup {w}) =
             IF w \in Reserved(j) THEN Cardinality(Reserved(j))
             ELSE Cardinality(Reserved(j)) + 1
    BY ReservedFinite, FS_AddElement
  <2> QED
    BY <2>1, ReservedFinite
<1>2. Cardinality(Reserved(j)') <= Cardinality(Reserved(j) \cup {w})
  BY <1>1, FS_Subset
<1> QED
  BY <1>1, <1>2, ReservedFinite, LengthTypes DEF Paid, UploadCount

\* A worker gives its reservation up for an upload or for the attempt.
LEMMA PaidSpent ==
  ASSUME TypeOK, TypeOK', NEW j \in Job, NEW w \in Reserved(j), Paid(j),
         Reserved(j)' \subseteq Reserved(j) \ {w},
         Len(provider'[j]) - row'[j].attempts
           <= Len(provider[j]) - row[j].attempts + 1
  PROVE  Paid(j)'
<1>1. /\ IsFiniteSet(Reserved(j) \ {w})
      /\ Cardinality(Reserved(j) \ {w}) \in Nat
      /\ Cardinality(Reserved(j) \ {w}) = Cardinality(Reserved(j)) - 1
  BY ReservedFinite, FS_RemoveElement, FS_CardinalityType
<1>2. Cardinality(Reserved(j)') <= Cardinality(Reserved(j) \ {w})
  BY <1>1, FS_Subset
<1>3. Cardinality(Reserved(j)') <= Cardinality(Reserved(j)) - 1
  BY <1>1, <1>2, ReservedFinite
<1>4. UploadCount(j)' - row'[j].attempts <= UploadCount(j) - row[j].attempts + 1
  <2>1. ASSUME NEW u \in Nat, NEW v \in Nat, NEW k \in Nat, NEW a \in Nat, NEW b \in Nat,
               v - b <= u - a + 1
        PROVE  (v - k) - b <= (u - k) - a + 1
    BY <2>1
  <2> QED
    BY LengthTypes, <2>1 DEF UploadCount
<1>5. UploadCount(j) \in Int /\ UploadCount(j)' \in Int
  <2>1. \A u, k \in Nat : u - k \in Int
    OBVIOUS
  <2> QED
    BY LengthTypes, <2>1 DEF UploadCount
<1>6. UploadCount(j) + Cardinality(Reserved(j)) <= row[j].attempts
  BY DEF Paid
<1>7. UploadCount(j)' + Cardinality(Reserved(j)') <= row'[j].attempts
  <2>1. ASSUME NEW u \in Int, NEW v \in Int, NEW r \in Nat, NEW s \in Nat,
               NEW a \in Nat, NEW b \in Nat,
               s <= r - 1, v - b <= u - a + 1, u + r <= a
        PROVE  v + s <= b
    BY <2>1
  <2>2. /\ Cardinality(Reserved(j)) \in Nat /\ Cardinality(Reserved(j)') \in Nat
        /\ row[j].attempts \in Nat /\ row'[j].attempts \in Nat
    BY ReservedFinite, LengthTypes
  <2> HIDE DEF UploadCount, Reserved
  <2> QED
    BY <1>3, <1>4, <1>5, <1>6, <2>1, <2>2
<1> QED
  BY <1>7 DEF Paid

\* A worker whose pass ends keeps no reservation.
LEMMA ReservedStep ==
  ASSUME TypeOK, NEW w \in Worker, NEW j \in Job, Return(w)
  PROVE  Reserved(j)' \subseteq Reserved(j) \ {w}
  BY DEF TypeOK, Return, Reserved, BeforePost

\* Statements that are not about the budget leave the attempts alone.
LEMMA SameAttempts ==
  ASSUME NEW r \in Row
  PROVE  /\ AddedRow(r).attempts = r.attempts
         /\ WokenRow(r).attempts = r.attempts
         /\ VerifiedRow(r).attempts = r.attempts
         /\ Swept(r).attempts = r.attempts
         /\ \A id \in Nat : ResolvedRow(r, id).attempts = r.attempts
         /\ \A c \in CopyType : UpdatedRow(r, c, c.delay).attempts = r.attempts
         /\ \A n \in 0 .. Lease : [r EXCEPT !.wait = n].attempts = r.attempts
  BY DEF Row, AddedRow, WokenRow, VerifiedRow, Swept, ExpireSubmission,
     FailExhausted, ResolvedRow, UpdatedRow

LEMMA ClaimAttempts ==
  ASSUME NEW r \in Row
  PROVE  ClaimedRow(r).attempts = IF r.state = "Queued" THEN r.attempts + 1
                                  ELSE r.attempts
  BY DEF Row, ClaimedRow

LEMMA BudgetStep == TypeOK /\ UploadBudget /\ [Next]_vars => UploadBudget'
<1> SUFFICES ASSUME TypeOK, UploadBudget, [Next]_vars, NEW j \in Job
             PROVE  Paid(j)'
  BY DEF UploadBudget, Paid
<1>1. /\ TypeOK' /\ Paid(j)
      /\ row \in [Job -> Row]
      /\ provider \in [Job -> Seq(Placement)]
  BY NextType DEF UploadBudget, Paid, TypeOK
<1>2. ASSUME NEW w \in Worker, ClaimGatewayJob(w) PROVE Paid(j)'
  <2> DEFINE swept == [i \in Job |-> Swept(row[i])]
  <2>1. /\ swept \in [Job -> Row]
        /\ swept[j].attempts = row[j].attempts
    BY <1>1, SweptTypes, SameAttempts
  <2> HIDE DEF swept
  <2>2. UNCHANGED provider
    BY <1>2 DEF ClaimGatewayJob
  <2>3. CASE row' = swept /\ Return(w)
    BY <1>1, <2>1, <2>2, <2>3, ReservedStep, PaidKept
  <2>4. ASSUME NEW i \in Job,
               row' = [swept EXCEPT ![i] = ClaimedRow(@)],
               IF swept[i].state = "Queued"
               THEN Goto(w, IF i \in Usenet THEN "post" ELSE "preflight", i,
                         [CopyOf(swept[i]) EXCEPT !.attempts = @ + 1])
               ELSE Goto(w, "poll", i, CopyOf(swept[i]))
        PROVE  Paid(j)'
    <3>1. swept[i] \in Row /\ row'[i] = ClaimedRow(swept[i])
      BY <2>1, <2>4
    <3>2. i # j => row'[j].attempts = row[j].attempts
      BY <2>1, <2>4
    <3>3. CASE swept[i].state = "Queued"
      <4>1. Reserved(j)' \subseteq IF i = j THEN Reserved(j) \cup {w}
                                   ELSE Reserved(j)
        BY <1>1, <2>4, <3>3 DEF TypeOK, Goto, Reserved, BeforePost
      <4>2. i = j => row'[j].attempts = row[j].attempts + 1
        BY <2>1, <3>1, <3>3, ClaimAttempts
      <4> QED
        BY <1>1, <2>2, <3>2, <4>1, <4>2, PaidKept, PaidCharged
    <3>4. CASE swept[i].state # "Queued"
      <4>1. Reserved(j)' \subseteq Reserved(j)
        BY <1>1, <2>4, <3>4 DEF TypeOK, Goto, Reserved, BeforePost
      <4>2. i = j => row'[j].attempts = row[j].attempts
        BY <2>1, <3>1, <3>4, ClaimAttempts
      <4> QED
        BY <1>1, <2>2, <3>2, <4>1, <4>2, PaidKept
    <3> QED
      BY <3>3, <3>4
  <2> QED
    BY <1>2, <2>3, <2>4 DEF ClaimGatewayJob, swept
<1>3. ASSUME NEW w \in Worker, DeferGatewaySubmission(w) PROVE Paid(j)'
  <2>1. held[w] \in Job /\ w \in Reserved(held[w])
    BY <1>3 DEF DeferGatewaySubmission, TypeOK, Reserved, BeforePost
  <2>2. Reserved(j)' \subseteq Reserved(j) \ {w}
    BY <1>3, ReservedStep DEF DeferGatewaySubmission
  <2>3. UNCHANGED provider /\ row' = [row EXCEPT ![held[w]] = DeferredRow(@)]
    BY <1>3 DEF DeferGatewaySubmission
  <2>4. CASE j = held[w]
    <3>1. row'[j] = DeferredRow(row[j]) /\ row[j] \in Row
      BY <1>1, <2>3, <2>4
    <3>2. row'[j].attempts >= row[j].attempts - 1
      BY <3>1, RowConstants DEF DeferredRow, Row
    <3>3. Len(provider'[j]) - row'[j].attempts
            <= Len(provider[j]) - row[j].attempts + 1
      BY <1>1, <2>3, <3>2, LengthTypes
    <3> QED
      BY <1>1, <2>1, <2>2, <2>4, <3>3, PaidSpent
  <2>5. CASE j # held[w]
    BY <1>1, <2>1, <2>2, <2>3, <2>5, PaidKept
  <2> QED
    BY <2>4, <2>5
<1>4. ASSUME NEW w \in Worker, Post(w) PROVE Paid(j)'
  <2>1. held[w] \in Job /\ w \in Reserved(held[w])
    BY <1>4 DEF Post, TypeOK, Reserved, BeforePost
  <2>2. PICK outcome \in {"active", "queued", "gone"} :
          provider' = [provider EXCEPT ![held[w]] = Append(@, outcome)]
    BY <1>4 DEF Post
  <2>3. Reserved(j)' \subseteq Reserved(j) \ {w}
    BY <1>4 DEF Post, Goto, TypeOK, Reserved, BeforePost
  <2>4. row'[j] = row[j]
    BY <1>4 DEF Post, rowVars
  <2>5. CASE j = held[w]
    <3>1. Len(provider'[j]) = Len(provider[j]) + 1
      BY <1>1, <2>2, <2>5, AppendProperties DEF Placement
    <3>2. Len(provider'[j]) - row'[j].attempts
            <= Len(provider[j]) - row[j].attempts + 1
      BY <1>1, <2>4, <3>1, LengthTypes
    <3> QED
      BY <1>1, <2>1, <2>3, <2>5, <3>2, PaidSpent
  <2>6. CASE j # held[w]
    BY <1>1, <2>1, <2>2, <2>3, <2>4, <2>6, PaidKept
  <2> QED
    BY <2>5, <2>6
<1>5. ASSUME NEW w \in Worker,
             \/ ClaimUnknownGatewayTorrent(w) \/ NoUnknownTorrent(w)
             \/ FindActive(w) \/ RecordUnknownGatewayLookup(w)
             \/ ResolveUnknownGatewayTorrent(w) \/ Preflight(w) \/ Poll(w)
             \/ UpdateGatewayJob(w) \/ Abandon(w)
      PROVE  Paid(j)'
  <2>1. UNCHANGED provider
    BY <1>5 DEF ClaimUnknownGatewayTorrent, NoUnknownTorrent, FindActive,
       RecordUnknownGatewayLookup, ResolveUnknownGatewayTorrent, Preflight,
       Poll, UpdateGatewayJob, Abandon
  <2>2. Reserved(j)' \subseteq Reserved(j)
    <3>1. CASE ClaimUnknownGatewayTorrent(w) \/ NoUnknownTorrent(w)
      BY <3>1 DEF ClaimUnknownGatewayTorrent, NoUnknownTorrent, TypeOK,
         Reserved, BeforePost
    <3>2. CASE FindActive(w)
      BY <3>2 DEF FindActive, Goto, TypeOK, Reserved, BeforePost
    <3>3. CASE Preflight(w)
      BY <3>3 DEF Preflight, Goto, TypeOK, Reserved, BeforePost
    <3>4. CASE Poll(w)
      BY <3>4 DEF Poll, Goto, TypeOK, Reserved, BeforePost
    <3>5. CASE \/ RecordUnknownGatewayLookup(w) \/ UpdateGatewayJob(w)
               \/ ResolveUnknownGatewayTorrent(w) \/ Abandon(w)
      BY <3>5, ReservedStep DEF RecordUnknownGatewayLookup, UpdateGatewayJob,
         ResolveUnknownGatewayTorrent, Abandon
    <3> QED
      BY <1>5, <3>1, <3>2, <3>3, <3>4, <3>5
  <2>3. row'[j].attempts = row[j].attempts
    <3>1. CASE ClaimUnknownGatewayTorrent(w)
      BY <1>1, <3>1, SameAttempts, Delays
         DEF ClaimUnknownGatewayTorrent, Torrent
    <3>2. CASE ResolveUnknownGatewayTorrent(w)
      <4>1. copy[w].pid \in Nat
        BY DEF TypeOK, CopyType
      <4> QED
        BY <1>1, <3>2, <4>1, SameAttempts DEF ResolveUnknownGatewayTorrent
    <3>3. CASE UpdateGatewayJob(w)
      <4>1. copy[w] \in CopyType
        BY DEF TypeOK
      <4> QED
        BY <1>1, <3>3, <4>1, SameAttempts DEF UpdateGatewayJob
    <3>4. CASE \/ NoUnknownTorrent(w) \/ FindActive(w) \/ Abandon(w)
               \/ RecordUnknownGatewayLookup(w) \/ Preflight(w) \/ Poll(w)
      BY <3>4 DEF NoUnknownTorrent, FindActive, Abandon, Poll, Preflight,
         RecordUnknownGatewayLookup, rowVars
    <3> QED
      BY <1>5, <3>1, <3>2, <3>3, <3>4
  <2> QED
    BY <1>1, <2>1, <2>2, <2>3, PaidKept
<1>6. ASSUME NEW i \in Job,
             AddGatewaySource(i) \/ WakeGatewayJob(i) \/ FinishGatewayMount(i)
      PROVE  Paid(j)'
  <2>1. UNCHANGED workerVars /\ UNCHANGED provider
    BY <1>6 DEF AddGatewaySource, WakeGatewayJob, FinishGatewayMount
  <2>2. /\ AddedRow(row[j]).attempts = row[j].attempts
        /\ WokenRow(row[j]).attempts = row[j].attempts
        /\ VerifiedRow(row[j]).attempts = row[j].attempts
    BY <1>1, SameAttempts
  <2>3. row'[j].attempts = row[j].attempts
    BY <1>1, <1>6, <2>2
       DEF AddGatewaySource, WakeGatewayJob, FinishGatewayMount
  <2> QED
    BY <1>1, <2>1, <2>3, PaidKept DEF Reserved, workerVars
<1>7. ASSUME NEW i \in Job, NEW id \in Placements(i), ProviderStep(i, id)
      PROVE  Paid(j)'
  <2>1. UNCHANGED workerVars /\ UNCHANGED row
    BY <1>7 DEF ProviderStep, rowVars
  <2>2. PICK status : provider' = [provider EXCEPT ![i][id] = status]
    BY <1>7 DEF ProviderStep
  <2>3. Len(provider'[j]) = Len(provider[j])
    BY <1>1, <2>2 DEF TypeOK
  <2> QED
    BY <1>1, <2>1, <2>3, PaidKept DEF Reserved, workerVars
<1>8. CASE Tick
  <2>1. row'[j] = [row[j] EXCEPT !.wait = CountDown(@)]
    BY <1>8 DEF Tick
  <2>2. row'[j].attempts = row[j].attempts
    BY <1>1, <2>1 DEF Row
  <2> QED
    BY <1>1, <1>8, <2>2, PaidKept DEF Tick, Reserved
<1>9. CASE UNCHANGED vars
  BY <1>1, <1>9, PaidKept DEF vars, Reserved
<1> QED
  BY <1>2, <1>3, <1>4, <1>5, <1>6, <1>7, <1>8, <1>9 DEF Next, WorkerNext

\* No interleaving of workers, crashes, refunds and stale writes lets a job be
\* uploaded more often than the attempts its row has been charged.
THEOREM BudgetRespected == Spec => []UploadBudget
<1>1. Init => UploadBudget
  <2> SUFFICES ASSUME Init, NEW j \in Job
               PROVE  UploadCount(j) + Cardinality(Reserved(j)) <= row[j].attempts
    BY DEF UploadBudget
  <2>1. Reserved(j) = {} /\ UploadCount(j) = 0 /\ row[j].attempts = 0
    BY DEF Init, Reserved, BeforePost, NoRow, UploadCount, Known
  <2> QED
    BY <2>1, FS_EmptySet
<1> QED
  BY <1>1, BudgetStep, TypeCorrect, PTL DEF Spec

\* So a job is never uploaded more than MaxAttempts times.
COROLLARY UploadsBounded ==
  Spec => [](\A j \in Job : UploadCount(j) <= MaxAttempts)
<1>1. TypeOK /\ UploadBudget => \A j \in Job : UploadCount(j) <= MaxAttempts
  <2> SUFFICES ASSUME TypeOK, UploadBudget, NEW j \in Job
               PROVE  UploadCount(j) <= MaxAttempts
    OBVIOUS
  <2>1. /\ UploadCount(j) \in Int /\ Cardinality(Reserved(j)) \in Nat
        /\ row[j].attempts \in 0 .. MaxAttempts
    BY ReservedFinite, LenProperties DEF TypeOK, Row, UploadCount, Known
  <2> QED
    BY <2>1, RowConstants DEF UploadBudget
<1> QED
  BY <1>1, TypeCorrect, BudgetRespected, PTL

--------------------------------------------------------------------------------
(***************************************************************************)
(* The lease of a submission, with one worker at a time.                   *)
(***************************************************************************)

SoleWorker == \A v, w \in Worker : v = w

\* The claim's lease stays longer than what is left of the pass.
LeaseOutlastsBudget ==
  \A w \in Worker : pc[w] \in BeforePost
    => row[held[w]].state = "Submitting" /\ row[held[w]].wait > budget[w]

\* A wake-up, a verified mount and a client's add leave a submitting row alone.
LEMMA SubmittingUntouched ==
  ASSUME NEW r \in Row, r.state = "Submitting"
  PROVE  AddedRow(r) = r /\ WokenRow(r) = r /\ VerifiedRow(r) = r
  BY DEF AddedRow, WokenRow, VerifiedRow, Parked

LEMMA HoldingTypes ==
  ASSUME TypeOK, NEW w \in Worker
  PROVE  /\ budget[w] \in Nat /\ budget[w] <= PassLimit
         /\ pc[w] \in BeforePost => held[w] \in Job /\ row[held[w]] \in Row
<1>1. budget[w] \in 0 .. PassLimit
  BY DEF TypeOK
<1>2. pc[w] \in BeforePost => pc[w] \notin {"idle", "claim"}
  BY DEF BeforePost
<1>3. pc[w] \in BeforePost => held[w] \in Job /\ row[held[w]] \in Row
  BY <1>2 DEF TypeOK
<1> QED
  BY <1>1, <1>3, WorkerConstants

LEMMA LeaseStep ==
  ASSUME SoleWorker
  PROVE  TypeOK /\ LeaseOutlastsBudget /\ [Next]_vars => LeaseOutlastsBudget'
<1> SUFFICES ASSUME TypeOK, LeaseOutlastsBudget, [Next]_vars
             PROVE  LeaseOutlastsBudget'
  OBVIOUS
<1>1. /\ TypeOK'
      /\ row \in [Job -> Row]
      /\ \A w \in Worker : /\ budget[w] \in Nat /\ budget[w] <= PassLimit
                           /\ pc[w] \in BeforePost => held[w] \in Job
  <2>1. row \in [Job -> Row]
    BY DEF TypeOK
  <2> QED
    BY <2>1, NextType, HoldingTypes
<1>2. ASSUME NEW w \in Worker, pc'[w] \notin BeforePost
      PROVE  LeaseOutlastsBudget'
  BY <1>2 DEF SoleWorker, LeaseOutlastsBudget
<1>3. ASSUME NEW w \in Worker, ClaimGatewayJob(w) PROVE LeaseOutlastsBudget'
  <2> DEFINE swept == [i \in Job |-> Swept(row[i])]
  <2>1. swept \in [Job -> Row]
    BY <1>1, SweptTypes
  <2> HIDE DEF swept
  <2>2. CASE Return(w)
    BY <1>2, <2>2 DEF Return, TypeOK, BeforePost
  <2>3. ASSUME NEW i \in Job,
               row' = [swept EXCEPT ![i] = ClaimedRow(@)],
               IF swept[i].state = "Queued"
               THEN Goto(w, IF i \in Usenet THEN "post" ELSE "preflight", i,
                         [CopyOf(swept[i]) EXCEPT !.attempts = @ + 1])
               ELSE Goto(w, "poll", i, CopyOf(swept[i]))
        PROVE  LeaseOutlastsBudget'
    <3>1. CASE swept[i].state = "Queued"
      <4>1. row'[i] = ClaimedRow(swept[i]) /\ swept[i] \in Row
        BY <2>1, <2>3
      <4>2. row'[i].state = "Submitting" /\ row'[i].wait = Lease
        BY <3>1, <4>1 DEF ClaimedRow, Row
      <4>3. held'[w] = i /\ UNCHANGED budget
        BY <2>3, <3>1 DEF Goto, TypeOK
      <4>4. Lease > budget[w]
        BY <1>1, WorkerConstants, RowConstants
      <4> QED
        BY <4>2, <4>3, <4>4 DEF SoleWorker, LeaseOutlastsBudget
    <3>2. CASE swept[i].state # "Queued"
      BY <1>2, <2>3, <3>2 DEF Goto, TypeOK, BeforePost
    <3> QED
      BY <3>1, <3>2
  <2> QED
    BY <1>3, <2>2, <2>3 DEF ClaimGatewayJob, swept
<1>4. ASSUME NEW w \in Worker, Preflight(w) PROVE LeaseOutlastsBudget'
  <2>1. UNCHANGED <<row, budget>> /\ held'[w] = held[w]
    BY <1>4 DEF Preflight, Goto, TypeOK, rowVars
  <2>2. pc[w] \in BeforePost
    BY <1>4 DEF Preflight, BeforePost
  <2> QED
    BY <2>1, <2>2 DEF SoleWorker, LeaseOutlastsBudget
<1>5. ASSUME NEW w \in Worker, WorkerNext(w) \/ Abandon(w),
             ~ClaimGatewayJob(w), ~Preflight(w)
      PROVE  LeaseOutlastsBudget'
  <2>1. CASE ClaimUnknownGatewayTorrent(w) \/ NoUnknownTorrent(w)
    BY <1>2, <2>1
       DEF ClaimUnknownGatewayTorrent, NoUnknownTorrent, TypeOK, BeforePost
  <2>2. CASE FindActive(w)
    BY <1>2, <2>2 DEF FindActive, Goto, TypeOK, BeforePost
  <2>3. CASE Post(w)
    BY <1>2, <2>3 DEF Post, Goto, TypeOK, BeforePost
  <2>4. CASE Poll(w)
    BY <1>2, <2>4 DEF Poll, Goto, TypeOK, BeforePost
  <2>5. CASE Return(w)
    BY <1>2, <2>5 DEF Return, TypeOK, BeforePost
  <2> QED
    BY <1>5, <2>1, <2>2, <2>3, <2>4, <2>5
       DEF WorkerNext, RecordUnknownGatewayLookup, ResolveUnknownGatewayTorrent,
           DeferGatewaySubmission, UpdateGatewayJob, Abandon
<1>6. ASSUME NEW j \in Job,
             AddGatewaySource(j) \/ WakeGatewayJob(j) \/ FinishGatewayMount(j)
      PROVE  LeaseOutlastsBudget'
  <2>1. UNCHANGED <<pc, held, budget>>
    BY <1>6 DEF AddGatewaySource, WakeGatewayJob, FinishGatewayMount, workerVars
  <2>2. \A i \in Job : row[i].state = "Submitting" => row'[i] = row[i]
    <3>1. row[j].state = "Submitting" =>
            /\ AddedRow(row[j]) = row[j]
            /\ WokenRow(row[j]) = row[j]
            /\ VerifiedRow(row[j]) = row[j]
      BY <1>1, SubmittingUntouched
    <3> QED
      BY <1>1, <1>6, <3>1
         DEF AddGatewaySource, WakeGatewayJob, FinishGatewayMount
  <2> QED
    BY <1>1, <2>1, <2>2 DEF LeaseOutlastsBudget
<1>7. CASE Tick
  <2>1. /\ UNCHANGED <<pc, held>>
        /\ \A w \in Worker : budget'[w] = CountDown(budget[w])
        /\ \A w \in Worker : pc[w] \in BeforePost => budget[w] > 0
    BY <1>7 DEF Tick, BeforePost
  <2>2. ASSUME NEW w \in Worker, pc[w] \in BeforePost
        PROVE  row'[held[w]].state = "Submitting" /\ row'[held[w]].wait > budget'[w]
    <3> DEFINE r == row[held[w]]
    <3>1. r \in Row /\ r.state = "Submitting" /\ r.wait > budget[w]
      BY <1>1, <2>2 DEF LeaseOutlastsBudget
    <3>2. row'[held[w]] = [r EXCEPT !.wait = CountDown(@)]
      BY <1>1, <1>7, <2>2 DEF Tick
    <3> HIDE DEF r
    <3>3. row'[held[w]].state = r.state /\ row'[held[w]].wait = CountDown(r.wait)
      BY <3>1, <3>2 DEF Row
    <3>4. r.wait \in Nat
      BY <3>1, RowConstants DEF Row
    <3> QED
      BY <1>1, <2>1, <2>2, <3>1, <3>3, <3>4 DEF CountDown
  <2> QED
    BY <2>1, <2>2 DEF LeaseOutlastsBudget
<1>8. CASE \/ \E j \in Job : \E id \in Placements(j) : ProviderStep(j, id)
           \/ UNCHANGED vars
  BY <1>8 DEF ProviderStep, LeaseOutlastsBudget, vars, rowVars, workerVars
<1> QED
  BY <1>3, <1>4, <1>5, <1>6, <1>7, <1>8 DEF Next

\* With one worker at a time a running submission is never taken for an
\* interrupted one: the lease written by the claim outlives the pass, and no
\* wake-up, client or controller can shorten it.
THEOREM LeaseHolds ==
  ASSUME SoleWorker
  PROVE  Spec => []LeaseOutlivesPass
<1>1. Init => LeaseOutlastsBudget
  BY DEF Init, LeaseOutlastsBudget, BeforePost
<1>2. TypeOK /\ LeaseOutlastsBudget => LeaseOutlivesPass
  <2> SUFFICES ASSUME TypeOK, LeaseOutlastsBudget, NEW w \in Worker,
                      pc[w] \in BeforePost
               PROVE  row[held[w]].state = "Submitting" /\ row[held[w]].wait > 0
    BY DEF LeaseOutlivesPass
  <2>1. row[held[w]] \in Row /\ budget[w] \in Nat
    BY HoldingTypes
  <2>2. row[held[w]].wait \in Nat
    BY <2>1, RowConstants DEF Row
  <2> QED
    BY <2>1, <2>2 DEF LeaseOutlastsBudget
<1> QED
  BY <1>1, <1>2, LeaseStep, TypeCorrect, PTL DEF Spec

================================================================================
