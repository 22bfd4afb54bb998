-------------------------- MODULE GatewayLedger_proofs --------------------------
(***************************************************************************)
(* GatewayWorker implements SubmissionLedger, for every set of jobs, every *)
(* finite set of workers and every value of the limits.                    *)
(*                                                                         *)
(*   LedgerImplemented      Spec => ImplementsLedger                       *)
(*                                                                         *)
(* A claim of a queued job is a Reserve, an upload an Upload, a deferral   *)
(* of a job that is still Submitting a GiveBack; a deferral of any other,  *)
(* an adoption, an unreadable source and the end of a pass that holds a    *)
(* reservation are a Lose; every other step is a stutter.                  *)
(***************************************************************************)
EXTENDS GatewayWorker_proofs

--------------------------------------------------------------------------------
(***************************************************************************)
(* What each kind of step makes of the mapped variables.                   *)
(***************************************************************************)

LedgerStep == [Ledger!LedgerNext]_(Ledger!ledger)

AttemptsKept == \A k \in Job : row'[k].attempts = row[k].attempts
UploadsKept == \A k \in Job : Len(provider'[k]) = Len(provider[k])

LEMMA AsStutter ==
  ASSUME AttemptsKept, UploadsKept, \A k \in Job : Reserved(k)' = Reserved(k)
  PROVE  LedgerStep
<1>1. \A k \in Job : UploadCount(k)' = UploadCount(k)
  BY DEF UploadsKept, UploadCount, Known
<1>2. UNCHANGED Ledger!ledger
  BY <1>1 DEF AttemptsKept, Ledger!ledger
<1> QED
  BY <1>2 DEF LedgerStep

LEMMA AsReserve ==
  ASSUME NEW j \in Job, NEW w \in Worker,
         row[j].attempts < MaxAttempts,
         \A k \in Job : w \notin Reserved(k),
         \A k \in Job : row'[k].attempts = IF k = j THEN row[k].attempts + 1
                                           ELSE row[k].attempts,
         \A k \in Job : Reserved(k)' = IF k = j THEN Reserved(k) \cup {w}
                                       ELSE Reserved(k),
         UploadsKept
  PROVE  LedgerStep
<1>1. \A k \in Job : UploadCount(k)' = UploadCount(k)
  BY DEF UploadsKept, UploadCount, Known
<1>2. Ledger!Reserve(j, w)
  BY <1>1 DEF Ledger!Reserve
<1> QED
  BY <1>2 DEF LedgerStep, Ledger!LedgerNext

\* Worker w gives up its reservation of j, and nobody else gains or loses one.
Released(j, w) ==
  /\ w \in Reserved(j)
  /\ \A k \in Job : Reserved(k)' = IF k = j THEN Reserved(k) \ {w}
                                   ELSE Reserved(k)

LEMMA AsRelease ==
  ASSUME NEW j \in Job, NEW w \in Worker, Released(j, w)
  PROVE  Ledger!Release(j, w)
  BY DEF Released, Ledger!Release

LEMMA AsUpload ==
  ASSUME TypeOK, TypeOK', NEW j \in Job, NEW w \in Worker, Released(j, w),
         AttemptsKept,
         \A k \in Job : Len(provider'[k]) = IF k = j THEN Len(provider[k]) + 1
                                            ELSE Len(provider[k])
  PROVE  LedgerStep
<1>1. \A k \in Job : UploadCount(k)' = IF k = j THEN UploadCount(k) + 1
                                       ELSE UploadCount(k)
  <2> SUFFICES ASSUME NEW k \in Job
               PROVE  UploadCount(k)' = IF k = j THEN UploadCount(k) + 1
                                        ELSE UploadCount(k)
    OBVIOUS
  <2>1. Known(k) \in Nat /\ Len(provider[k]) \in Nat
    BY LengthTypes
  <2>2. UploadCount(k)' = Len(provider'[k]) - Known(k)
    BY DEF UploadCount, Known
  <2> QED
    BY <2>1, <2>2 DEF UploadCount
<1>2. Ledger!Upload(j, w)
  BY <1>1, AsRelease DEF AttemptsKept, Ledger!Upload
<1> QED
  BY <1>2 DEF LedgerStep, Ledger!LedgerNext

LEMMA AsGiveBack ==
  ASSUME NEW j \in Job, NEW w \in Worker, Released(j, w), UploadsKept,
         row[j].attempts > 0,
         \A k \in Job : row'[k].attempts = IF k = j THEN row[k].attempts - 1
                                           ELSE row[k].attempts
  PROVE  LedgerStep
<1>1. \A k \in Job : UploadCount(k)' = UploadCount(k)
  BY DEF UploadsKept, UploadCount, Known
<1>2. Ledger!GiveBack(j, w)
  BY <1>1, AsRelease DEF Ledger!GiveBack
<1> QED
  BY <1>2 DEF LedgerStep, Ledger!LedgerNext

LEMMA AsLose ==
  ASSUME NEW j \in Job, NEW w \in Worker, Released(j, w), AttemptsKept,
         UploadsKept
  PROVE  LedgerStep
<1>1. \A k \in Job : UploadCount(k)' = UploadCount(k)
  BY DEF UploadsKept, UploadCount, Known
<1>2. Ledger!Lose(j, w)
  BY <1>1, AsRelease DEF AttemptsKept, Ledger!Lose
<1> QED
  BY <1>2 DEF LedgerStep, Ledger!LedgerNext

--------------------------------------------------------------------------------
(***************************************************************************)
(* What a worker's step makes of the reservations.                         *)
(***************************************************************************)

\* No other worker moves.
Alone(w) == \A v \in Worker \ {w} : pc'[v] = pc[v] /\ held'[v] = held[v]

\* A worker that neither had a reservation nor gets one, or goes on with the
\* one it has, changes none.
LEMMA ReservationsKept ==
  ASSUME NEW w \in Worker, Alone(w),
         \/ pc[w] \notin BeforePost /\ pc'[w] \notin BeforePost
         \/ pc[w] \in BeforePost /\ pc'[w] \in BeforePost /\ held'[w] = held[w]
  PROVE  \A k \in Job : Reserved(k)' = Reserved(k)
  BY DEF Alone, Reserved

LEMMA ReservationReleased ==
  ASSUME NEW w \in Worker, Alone(w), pc[w] \in BeforePost,
         pc'[w] \notin BeforePost
  PROVE  Released(held[w], w)
  BY DEF Alone, Reserved, Released

LEMMA ReservationTaken ==
  ASSUME NEW w \in Worker, NEW j \in Job, Alone(w), pc[w] \notin BeforePost,
         pc'[w] \in BeforePost, held'[w] = j
  PROVE  /\ \A k \in Job : w \notin Reserved(k)
         /\ \A k \in Job : Reserved(k)' = IF k = j THEN Reserved(k) \cup {w}
                                          ELSE Reserved(k)
  BY DEF Alone, Reserved

LEMMA GotoAlone ==
  ASSUME TypeOK, NEW w \in Worker, NEW s, NEW j, NEW c, Goto(w, s, j, c)
  PROVE  Alone(w) /\ pc'[w] = s /\ held'[w] = j
  BY DEF TypeOK, Goto, Alone

LEMMA ReturnAlone ==
  ASSUME TypeOK, NEW w \in Worker, Return(w)
  PROVE  Alone(w) /\ pc'[w] \notin BeforePost
  BY DEF TypeOK, Return, Alone, BeforePost

--------------------------------------------------------------------------------
(***************************************************************************)
(* The provider never forgets that a placement was made.                   *)
(***************************************************************************)

\* A placement the account held before is the first of its job's.
KnownListed == \A k \in Job : Known(k) <= Len(provider[k])

\* A step of the provider leaves the number of placements.
LEMMA SameLengths ==
  ASSUME TypeOK, NEW j \in Job, NEW id \in Placements(j), ProviderStep(j, id)
  PROVE  UploadsKept
<1>1. provider \in [Job -> Seq(Placement)]
  BY DEF TypeOK
<1>2. PICK move \in ProviderMove :
        provider' = [provider EXCEPT ![j] = [provider[j] EXCEPT ![id] = move[2]]]
  BY DEF ProviderStep
<1>3. provider[j] \in Seq(Placement) /\ id \in 1 .. Len(provider[j])
  BY <1>1 DEF Placements
<1>4. move[2] \in Placement
  BY DEF ProviderMove, Placement
<1>5. Len([provider[j] EXCEPT ![id] = move[2]]) = Len(provider[j])
  BY <1>3, <1>4, ExceptSeq
<1> QED
  BY <1>1, <1>2, <1>5 DEF UploadsKept

\* Only an upload and the provider's own steps touch the placements: the one
\* appends, the others change a status.
LEMMA PlacementsGrow ==
  ASSUME TypeOK, [Next]_vars, NEW k \in Job
  PROVE  Len(provider'[k]) >= Len(provider[k])
<1>1. provider \in [Job -> Seq(Placement)] /\ Len(provider[k]) \in Nat
  BY LenProperties DEF TypeOK
<1>2. CASE UNCHANGED provider
  BY <1>1, <1>2
<1>3. ASSUME NEW w \in Worker, Post(w)
      PROVE  Len(provider'[k]) >= Len(provider[k])
  <2>1. PICK outcome \in {"active", "queued", "gone"} :
          provider' = [provider EXCEPT ![held[w]] = Append(@, outcome)]
    BY <1>3 DEF Post
  <2>2. CASE k = held[w]
    <3>1. Len(provider'[k]) = Len(provider[k]) + 1
      BY <1>1, <2>1, <2>2, AppendProperties DEF Placement
    <3> QED
      BY <1>1, <3>1
  <2>3. CASE k # held[w]
    BY <1>1, <2>1, <2>3
  <2> QED
    BY <2>2, <2>3
<1>4. ASSUME NEW j \in Job, NEW id \in Placements(j), ProviderStep(j, id)
      PROVE  Len(provider'[k]) >= Len(provider[k])
  BY <1>1, <1>4, SameLengths DEF UploadsKept
<1>5. CASE Next
  <2>1. ASSUME NEW w \in Worker, WorkerNext(w) \/ Abandon(w), ~Post(w)
        PROVE  UNCHANGED provider
    BY <2>1 DEF WorkerNext, Abandon, ClaimUnknownGatewayTorrent,
       NoUnknownTorrent, FindActive, RecordUnknownGatewayLookup,
       ResolveUnknownGatewayTorrent, ClaimGatewayJob, Preflight,
       DeferGatewaySubmission, Poll, UpdateGatewayJob
  <2>2. ASSUME \/ \E j \in Job : \/ AddGatewaySource(j) \/ WakeGatewayJob(j)
                                  \/ FinishGatewayMount(j)
               \/ Tick
        PROVE  UNCHANGED provider
    BY <2>2 DEF AddGatewaySource, WakeGatewayJob, FinishGatewayMount, Tick
  <2> QED
    BY <1>2, <1>3, <1>4, <1>5, <2>1, <2>2 DEF Next
<1> QED
  BY <1>2, <1>5 DEF vars

LEMMA ListedStep == TypeOK /\ KnownListed /\ [Next]_vars => KnownListed'
<1> SUFFICES ASSUME TypeOK, KnownListed, [Next]_vars, NEW k \in Job
             PROVE  Known(k) <= Len(provider'[k])
  BY DEF KnownListed, Known
<1>1. Known(k) \in Nat /\ Len(provider[k]) \in Nat /\ Len(provider'[k]) \in Nat
  BY NextType, LengthTypes
<1> QED
  BY <1>1, PlacementsGrow DEF KnownListed

--------------------------------------------------------------------------------
(***************************************************************************)
(* The steps of a worker.                                                  *)
(***************************************************************************)

\* The claim of a queued job is charged and reserves; any other is a stutter.
LEMMA ClaimLedger ==
  ASSUME TypeOK, NEW w \in Worker, ClaimGatewayJob(w)
  PROVE  LedgerStep
<1> DEFINE swept == [i \in Job |-> Swept(row[i])]
<1>1. /\ swept \in [Job -> Row]
      /\ \A i \in Job : swept[i].attempts = row[i].attempts
      /\ \A i \in Job : swept[i].state = "Queued"
                          => swept[i].attempts < MaxAttempts
  BY SweptTypes, SameAttempts DEF TypeOK
<1> HIDE DEF swept
<1>2. pc[w] \notin BeforePost /\ UploadsKept
  BY DEF ClaimGatewayJob, BeforePost, UploadsKept
<1>3. CASE row' = swept /\ Return(w)
  <2>1. AttemptsKept
    BY <1>1, <1>3 DEF AttemptsKept
  <2> QED
    BY <1>2, <1>3, <2>1, ReturnAlone, ReservationsKept, AsStutter
<1>4. ASSUME NEW i \in Job,
             row' = [swept EXCEPT ![i] = ClaimedRow(@)],
             IF swept[i].state = "Queued"
             THEN Goto(w, IF i \in Usenet THEN "post" ELSE "preflight", i,
                       [CopyOf(swept[i]) EXCEPT !.attempts = @ + 1])
             ELSE Goto(w, "poll", i, CopyOf(swept[i]))
      PROVE  LedgerStep
  <2>1. /\ row'[i] = ClaimedRow(swept[i]) /\ swept[i] \in Row
        /\ \A k \in Job \ {i} : row'[k].attempts = row[k].attempts
    BY <1>1, <1>4
  <2>2. CASE swept[i].state = "Queued"
    <3>1. Alone(w) /\ pc'[w] \in BeforePost /\ held'[w] = i
      BY <1>4, <2>2, GotoAlone DEF BeforePost
    <3>2. /\ \A k \in Job : w \notin Reserved(k)
          /\ \A k \in Job : Reserved(k)' = IF k = i THEN Reserved(k) \cup {w}
                                           ELSE Reserved(k)
      BY <1>2, <3>1, ReservationTaken
    <3>3. \A k \in Job : row'[k].attempts = IF k = i THEN row[k].attempts + 1
                                            ELSE row[k].attempts
      BY <1>1, <2>1, <2>2, ClaimAttempts
    <3> QED
      BY <1>1, <1>2, <2>2, <3>2, <3>3, AsReserve
  <2>3. CASE swept[i].state # "Queued"
    <3>1. Alone(w) /\ pc'[w] \notin BeforePost
      BY <1>4, <2>3, GotoAlone DEF BeforePost
    <3>2. AttemptsKept
      BY <1>1, <2>1, <2>3, ClaimAttempts DEF AttemptsKept
    <3> QED
      BY <1>2, <3>1, <3>2, ReservationsKept, AsStutter
  <2> QED
    BY <2>2, <2>3
<1> QED
  BY <1>3, <1>4 DEF ClaimGatewayJob, swept

\* A deferral gives the attempt back while the row is the worker's own
\* submission, and loses it otherwise; UploadBudget is what makes the attempt
\* that is given back exist.
LEMMA DeferLedger ==
  ASSUME TypeOK, TypeOK', UploadBudget, KnownListed, NEW w \in Worker, DeferGatewaySubmission(w)
  PROVE  LedgerStep
<1> DEFINE j == held[w]
<1>1. /\ j \in Job /\ pc[w] \in BeforePost
      /\ row \in [Job -> Row] /\ row' = [row EXCEPT ![j] = DeferredRow(@)]
      /\ UploadsKept
  BY DEF DeferGatewaySubmission, TypeOK, BeforePost, UploadsKept
<1>2. Released(j, w)
  BY <1>1, ReturnAlone, ReservationReleased DEF DeferGatewaySubmission
<1>3. row[j] \in Row /\ row'[j] = DeferredRow(row[j])
      /\ \A k \in Job \ {j} : row'[k] = row[k]
  BY <1>1
<1>4. row[j].attempts > 0
  <2>1. IsFiniteSet(Reserved(j)) /\ Cardinality(Reserved(j)) \in Nat
    BY <1>1, ReservedFinite
  <2>2. Cardinality(Reserved(j)) > 0
    <3>1. Reserved(j) # {}
      BY <1>2 DEF Released
    <3>2. Cardinality(Reserved(j)) # 0
      BY <2>1, <3>1, FS_EmptySet
    <3> QED
      BY <2>1, <3>2
  <2>3. UploadCount(j) \in Nat
    BY <1>1, LengthTypes DEF KnownListed, UploadCount
  <2>4. UploadCount(j) + Cardinality(Reserved(j)) <= row[j].attempts
    BY <1>1 DEF UploadBudget
  <2>5. row[j].attempts \in Nat
    BY <1>1, LengthTypes
  <2> QED
    BY <2>1, <2>2, <2>3, <2>4, <2>5
<1> HIDE DEF j
<1>5. CASE row[j].state = "Submitting"
  <2>1. \A k \in Job : row'[k].attempts = IF k = j THEN row[k].attempts - 1
                                          ELSE row[k].attempts
    <3>1. row'[j].attempts = IF row[j].attempts > 0 THEN row[j].attempts - 1 ELSE 0
      BY <1>3, <1>5 DEF DeferredRow, Row
    <3>2. row'[j].attempts = row[j].attempts - 1
      BY <1>4, <3>1
    <3> QED
      BY <1>3, <3>2
  <2> QED
    BY <1>1, <1>2, <1>4, <2>1, AsGiveBack
<1>6. CASE row[j].state # "Submitting"
  <2>1. AttemptsKept
    BY <1>3, <1>6 DEF DeferredRow, AttemptsKept
  <2> QED
    BY <1>1, <1>2, <2>1, AsLose
<1> QED
  BY <1>5, <1>6

\* An upload spends the reservation.
LEMMA PostLedger ==
  ASSUME TypeOK, TypeOK', NEW w \in Worker, Post(w)
  PROVE  LedgerStep
<1> DEFINE j == held[w]
<1>1. j \in Job /\ pc[w] \in BeforePost /\ provider \in [Job -> Seq(Placement)]
  BY DEF Post, TypeOK, BeforePost
<1>2. Alone(w) /\ pc'[w] = "write"
  BY GotoAlone DEF Post
<1>3. Released(j, w)
  BY <1>1, <1>2, ReservationReleased DEF BeforePost
<1>4. PICK outcome \in {"active", "queued", "gone"} :
        provider' = [provider EXCEPT ![j] = Append(@, outcome)]
  BY DEF Post
<1> HIDE DEF j
<1>5. \A k \in Job : Len(provider'[k]) = IF k = j THEN Len(provider[k]) + 1
                                         ELSE Len(provider[k])
  BY <1>1, <1>4, AppendProperties DEF Placement
<1>6. AttemptsKept
  BY DEF Post, rowVars, AttemptsKept
<1> QED
  BY <1>1, <1>3, <1>5, <1>6, AsUpload

\* Adoption, an unreadable source and the end of a pass lose a reservation;
\* what goes on to the upload or to a deferral keeps it.
LEMMA PreflightLedger ==
  ASSUME TypeOK, NEW w \in Worker, Preflight(w)
  PROVE  LedgerStep
<1>1. /\ held[w] \in Job /\ pc[w] \in BeforePost
      /\ AttemptsKept /\ UploadsKept
  BY DEF Preflight, TypeOK, BeforePost, rowVars, AttemptsKept, UploadsKept
<1>2. /\ Alone(w) /\ held'[w] = held[w]
      /\ pc'[w] \in {"write", "defer", "post"}
  BY GotoAlone DEF Preflight
<1>3. CASE pc'[w] \in BeforePost
  BY <1>1, <1>2, <1>3, ReservationsKept, AsStutter
<1>4. CASE pc'[w] \notin BeforePost
  BY <1>1, <1>2, <1>4, ReservationReleased, AsLose
<1> QED
  BY <1>3, <1>4

LEMMA AbandonLedger ==
  ASSUME TypeOK, NEW w \in Worker, Abandon(w)
  PROVE  LedgerStep
<1>1. Alone(w) /\ pc'[w] \notin BeforePost
  BY ReturnAlone DEF Abandon
<1>2. AttemptsKept /\ UploadsKept
  BY DEF Abandon, rowVars, AttemptsKept, UploadsKept
<1>3. CASE pc[w] \in BeforePost
  <2>1. held[w] \in Job
    BY <1>3 DEF TypeOK, BeforePost
  <2> QED
    BY <1>1, <1>2, <1>3, <2>1, ReservationReleased, AsLose
<1>4. CASE pc[w] \notin BeforePost
  BY <1>1, <1>2, <1>4, ReservationsKept, AsStutter
<1> QED
  BY <1>3, <1>4

\* Everything else a worker does is outside a reservation and leaves what the
\* job was charged: in particular the write-back of a stale copy.
LEMMA OtherLedger ==
  ASSUME TypeOK, NEW w \in Worker,
         \/ ClaimUnknownGatewayTorrent(w) \/ NoUnknownTorrent(w)
         \/ FindActive(w) \/ RecordUnknownGatewayLookup(w)
         \/ ResolveUnknownGatewayTorrent(w) \/ Poll(w) \/ UpdateGatewayJob(w)
  PROVE  LedgerStep
<1>1. row \in [Job -> Row] /\ copy[w] \in CopyType /\ copy[w].pid \in Nat
  BY DEF TypeOK, CopyType
<1>2. UploadsKept
  BY DEF ClaimUnknownGatewayTorrent, NoUnknownTorrent, FindActive,
     RecordUnknownGatewayLookup, ResolveUnknownGatewayTorrent, Poll,
     UpdateGatewayJob, UploadsKept
<1>3. AttemptsKept
  <2>1. CASE ClaimUnknownGatewayTorrent(w)
    BY <1>1, <2>1, SameAttempts, Delays
       DEF ClaimUnknownGatewayTorrent, Torrent, AttemptsKept
  <2>2. CASE ResolveUnknownGatewayTorrent(w)
    BY <1>1, <2>2, SameAttempts DEF ResolveUnknownGatewayTorrent, AttemptsKept
  <2>3. CASE UpdateGatewayJob(w)
    BY <1>1, <2>3, SameAttempts DEF UpdateGatewayJob, AttemptsKept
  <2>4. CASE \/ NoUnknownTorrent(w) \/ FindActive(w)
             \/ RecordUnknownGatewayLookup(w) \/ Poll(w)
    BY <2>4 DEF NoUnknownTorrent, FindActive, RecordUnknownGatewayLookup, Poll,
       rowVars, AttemptsKept
  <2> QED
    BY <2>1, <2>2, <2>3, <2>4
<1>4. /\ pc[w] \notin BeforePost /\ pc'[w] \notin BeforePost
      /\ Alone(w)
  <2>1. CASE ClaimUnknownGatewayTorrent(w) \/ NoUnknownTorrent(w)
    BY <2>1 DEF ClaimUnknownGatewayTorrent, NoUnknownTorrent, TypeOK, Alone,
       BeforePost
  <2>2. CASE FindActive(w)
    BY <2>2, GotoAlone DEF FindActive, BeforePost
  <2>3. CASE Poll(w)
    BY <2>3, GotoAlone DEF Poll, BeforePost
  <2>4. CASE \/ RecordUnknownGatewayLookup(w) \/ UpdateGatewayJob(w)
             \/ ResolveUnknownGatewayTorrent(w)
    BY <2>4, ReturnAlone DEF RecordUnknownGatewayLookup, UpdateGatewayJob,
       ResolveUnknownGatewayTorrent, BeforePost
  <2> QED
    BY <2>1, <2>2, <2>3, <2>4
<1> QED
  BY <1>2, <1>3, <1>4, ReservationsKept, AsStutter

--------------------------------------------------------------------------------
(***************************************************************************)
(* The refinement.                                                         *)
(***************************************************************************)

\* Clients, the controller, the provider and time touch no reservation.
LEMMA EnvironmentLedger ==
  ASSUME TypeOK,
         \/ \E j \in Job : \/ AddGatewaySource(j) \/ WakeGatewayJob(j)
                           \/ FinishGatewayMount(j)
         \/ \E j \in Job : \E id \in Placements(j) : ProviderStep(j, id)
         \/ Tick \/ UNCHANGED vars
  PROVE  LedgerStep
<1>1. row \in [Job -> Row]
  BY DEF TypeOK
<1>2. \A k \in Job : Reserved(k)' = Reserved(k)
  BY DEF AddGatewaySource, WakeGatewayJob, FinishGatewayMount, ProviderStep,
     Tick, vars, workerVars, Reserved
<1>3. AttemptsKept
  <2>1. ASSUME NEW j \in Job,
               AddGatewaySource(j) \/ WakeGatewayJob(j) \/ FinishGatewayMount(j)
        PROVE  AttemptsKept
    BY <1>1, <2>1, SameAttempts
       DEF AddGatewaySource, WakeGatewayJob, FinishGatewayMount, AttemptsKept
  <2>2. CASE Tick
    <3>1. \A k \in Job : row'[k] = [row[k] EXCEPT !.wait = CountDown(@)]
      BY <2>2 DEF Tick
    <3> QED
      BY <1>1, <3>1 DEF AttemptsKept, Row
  <2>3. CASE \/ \E j \in Job : \E id \in Placements(j) : ProviderStep(j, id)
             \/ UNCHANGED vars
    BY <2>3 DEF ProviderStep, rowVars, vars, AttemptsKept
  <2> QED
    BY <2>1, <2>2, <2>3
<1>4. UploadsKept
  <2>1. CASE \E j \in Job : \E id \in Placements(j) : ProviderStep(j, id)
    BY <2>1, SameLengths
  <2>2. CASE \/ \E j \in Job : \/ AddGatewaySource(j) \/ WakeGatewayJob(j)
                                \/ FinishGatewayMount(j)
             \/ Tick \/ UNCHANGED vars
    BY <2>2 DEF AddGatewaySource, WakeGatewayJob, FinishGatewayMount, Tick,
       vars, UploadsKept
  <2> QED
    BY <2>1, <2>2
<1> QED
  BY <1>2, <1>3, <1>4, AsStutter

LEMMA LedgerSimulation ==
  TypeOK /\ UploadBudget /\ KnownListed /\ [Next]_vars => LedgerStep
<1> SUFFICES ASSUME TypeOK, UploadBudget, KnownListed, [Next]_vars
             PROVE  LedgerStep
  OBVIOUS
<1>1. TypeOK'
  BY NextType
<1>2. ASSUME NEW w \in Worker, WorkerNext(w) \/ Abandon(w) PROVE LedgerStep
  BY <1>1, <1>2, ClaimLedger, DeferLedger, PostLedger, PreflightLedger,
     AbandonLedger, OtherLedger DEF WorkerNext
<1> QED
  BY <1>2, EnvironmentLedger DEF Next

LEMMA LedgerInitial == Init => Ledger!LedgerInit /\ KnownListed
<1> SUFFICES ASSUME Init PROVE Ledger!LedgerInit /\ KnownListed
  OBVIOUS
<1>1. \A k \in Job : Len(provider[k]) = Known(k) /\ Known(k) \in Nat
  BY DEF Init, Known
<1>2. \A k \in Job : UploadCount(k) = 0
  BY <1>1 DEF UploadCount
<1>3. \A k \in Job : Reserved(k) = {} /\ row[k].attempts = 0
  BY DEF Init, Reserved, BeforePost, NoRow
<1> QED
  BY <1>1, <1>2, <1>3 DEF Ledger!LedgerInit, KnownListed

\* Whatever replicas, lost responses, crashes, refunds and stale write-backs
\* do, every attempt of a job is charged to one worker before anything is
\* sent, and that worker uploads once for it, gives it back or loses it.
THEOREM LedgerImplemented == Spec => ImplementsLedger
<1>1. Init => Ledger!LedgerInit /\ KnownListed
  BY LedgerInitial
<1>2. TypeOK /\ KnownListed /\ [Next]_vars => KnownListed'
  BY ListedStep
<1>3. /\ TypeOK /\ UploadBudget /\ KnownListed
      /\ [Next]_vars
      => [Ledger!LedgerNext]_(Ledger!ledger)
  BY LedgerSimulation DEF LedgerStep
<1> QED
  BY <1>1, <1>2, <1>3, TypeCorrect, BudgetRespected, PTL
     DEF Spec, ImplementsLedger, Ledger!LedgerSpec
================================================================================
