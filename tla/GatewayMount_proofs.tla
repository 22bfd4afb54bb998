-------------------------- MODULE GatewayMount_proofs --------------------------
(***************************************************************************)
(* Proofs about GatewayMount, for every set of jobs, files and mounters.   *)
(*                                                                         *)
(*   MountTypeCorrect     Spec => []TypeOK                                 *)
(*   CompletionFenced     without Legacy jobs, Spec => CompletedAsVerified *)
(*   MountersOnlyComplete without Legacy jobs,                             *)
(*                        Spec => MounterOnlyCompletes                     *)
(*   CompletionStaged     without Legacy jobs,                             *)
(*                        Spec => []StagedBeforeCompleted                  *)
(*   CleanupComplete      with one mounter, Spec => []CleanupLeavesNothing *)
(***************************************************************************)
EXTENDS GatewayMount, TLAPS

\* A row stays a row when one column is given a value of that column's type.
LEMMA MountRowFields ==
  \A r \in MountRow :
    /\ \A x \in State : [r EXCEPT !.state = x] \in MountRow
    /\ \A x \in Nat : [r EXCEPT !.revision = x] \in MountRow
    /\ \A x \in BOOLEAN : [r EXCEPT !.pinned = x] \in MountRow
    /\ \A x \in BOOLEAN : [r EXCEPT !.hidden = x] \in MountRow
    /\ \A x \in BOOLEAN : [r EXCEPT !.cleanup = x] \in MountRow
  BY DEF MountRow

\* No statement leaves the type of a row.
LEMMA RowStatements ==
  ASSUME NEW r \in MountRow
  PROVE  /\ \A s \in State, same \in BOOLEAN : PublishedRow(r, s, same) \in MountRow
         /\ PinnedRow(r) \in MountRow
         /\ \A c \in MountRow : VerifiedMountRow(r, c) \in MountRow
         /\ \A c \in MountRow : CleanedRow(r, c) \in MountRow
         /\ AddedAgainRow(r) \in MountRow
         /\ HiddenRow(r) \in MountRow
         /\ CleanupRow(r) \in MountRow
<1>1. r.revision + 1 \in Nat /\ TRUE \in BOOLEAN /\ FALSE \in BOOLEAN
  BY DEF MountRow
<1>2. "Mounting" \in State /\ "Completed" \in State
  BY DEF State
<1>3. \A s \in State, same \in BOOLEAN : PublishedRow(r, s, same) \in MountRow
  <2> TAKE s \in State, same \in BOOLEAN
  <2>1. [r EXCEPT !.state = s] \in MountRow
    BY MountRowFields
  <2>2. [[r EXCEPT !.state = s] EXCEPT !.revision = r.revision + 1] \in MountRow
    BY <1>1, <2>1, MountRowFields
  <2>3. [r EXCEPT !.state = s, !.revision = @ + 1] \in MountRow
    BY <2>2
  <2> QED
    BY <2>3 DEF PublishedRow
<1>4. PinnedRow(r) \in MountRow
  <2>1. [r EXCEPT !.pinned = TRUE] \in MountRow
    BY <1>1, MountRowFields
  <2>2. [[r EXCEPT !.pinned = TRUE] EXCEPT !.state = "Mounting"] \in MountRow
    BY <1>2, <2>1, MountRowFields
  <2>3. [[[r EXCEPT !.pinned = TRUE] EXCEPT !.state = "Mounting"]
            EXCEPT !.revision = r.revision + 1] \in MountRow
    BY <1>1, <2>2, MountRowFields
  <2> QED
    BY <2>3 DEF PinnedRow
<1>5. /\ \A c \in MountRow : VerifiedMountRow(r, c) \in MountRow
      /\ \A c \in MountRow : CleanedRow(r, c) \in MountRow
      /\ HiddenRow(r) \in MountRow
  BY <1>1, <1>2, MountRowFields DEF VerifiedMountRow, CleanedRow, HiddenRow
<1>6. AddedAgainRow(r) \in MountRow /\ CleanupRow(r) \in MountRow
  <2>1. [r EXCEPT !.hidden = FALSE] \in MountRow /\ [r EXCEPT !.hidden = TRUE] \in MountRow
    BY <1>1, MountRowFields
  <2>2. /\ [[r EXCEPT !.hidden = FALSE] EXCEPT !.cleanup = FALSE] \in MountRow
        /\ [[r EXCEPT !.hidden = TRUE] EXCEPT !.cleanup = TRUE] \in MountRow
    BY <1>1, <2>1, MountRowFields
  <2> QED
    BY <2>2 DEF AddedAgainRow, CleanupRow
<1> QED
  BY <1>3, <1>4, <1>5, <1>6

\* Whatever is read back from a provider pass is one of the row's states.
LEMMA OutcomeTypes ==
  ASSUME NEW s \in State \cup {"none"}
  PROVE  Outcomes(s) \ {"none"} \subseteq State
  BY DEF Outcomes, State

LEMMA NewRowType == NewRow \in MountRow
  BY DEF NewRow, MountRow, State

LEMMA TypeInit == Init => TypeOK
<1> SUFFICES ASSUME Init PROVE TypeOK
  OBVIOUS
<1>1. [NewRow EXCEPT !.state = "Completed"] \in MountRow
  BY DEF NewRow, MountRow, State
<1> QED
  BY <1>1, NewRowType DEF Init, TypeOK, Step

\* Verify and CleanUp leave a mounter typed, holding j.
LEMMA PassTypes ==
  ASSUME TypeOK, NEW m \in Mounter, NEW j \in Job, NEW c \in MountRow,
         Verify(m, j, c) \/ CleanUp(m, j, c)
  PROVE  /\ pc' \in [Mounter -> Step]
         /\ held' \in [Mounter -> Job \cup {NoJob}]
         /\ copy' \in [Mounter -> MountRow]
         /\ todo' \in [Mounter -> SUBSET File]
         /\ \A n \in Mounter : pc'[n] # "idle" => held'[n] \in Job
  BY DEF TypeOK, Verify, CleanUp, Step

LEMMA ReturnTypes ==
  ASSUME TypeOK, NEW m \in Mounter, Return(m)
  PROVE  /\ pc' \in [Mounter -> Step]
         /\ held' \in [Mounter -> Job \cup {NoJob}]
         /\ copy' \in [Mounter -> MountRow]
         /\ todo' \in [Mounter -> SUBSET File]
         /\ against' \in [Mounter -> Nat]
         /\ \A n \in Mounter : pc'[n] # "idle" => held'[n] \in Job
  BY NewRowType DEF TypeOK, Return, Step

LEMMA TypeStep == TypeOK /\ [Next]_vars => TypeOK'
<1> SUFFICES ASSUME TypeOK, [Next]_vars PROVE TypeOK'
  OBVIOUS
<1> USE DEF mounterVars, clientVars
<1>1. ASSUME NEW m \in Mounter, NEW j \in Job, ClaimGatewayMount(m, j)
      PROVE  TypeOK'
  <2>1. row[j] \in MountRow
    BY DEF TypeOK
  <2>2. Verify(m, j, row[j]) \/ CleanUp(m, j, row[j])
    BY <1>1 DEF ClaimGatewayMount
  <2>3. against' \in [Mounter -> Nat] /\ due' \in [Job -> BOOLEAN]
    BY <1>1 DEF ClaimGatewayMount, TypeOK
  <2>4. UNCHANGED <<row, seen, links, publication, hiddenOnce, cleaned>>
    BY <1>1 DEF ClaimGatewayMount
  <2> QED
    BY <2>1, <2>2, <2>3, <2>4, PassTypes DEF TypeOK
<1>2. ASSUME NEW m \in Mounter, PinGatewayReleaseFolder(m)
      PROVE  TypeOK'
  <2>1. held[m] \in Job /\ row[held[m]] \in MountRow
    BY <1>2 DEF PinGatewayReleaseFolder, TypeOK
  <2>2. PinnedRow(row[held[m]]) \in MountRow
    BY <2>1, RowStatements
  <2>3. UNCHANGED <<due, seen, links, hiddenOnce, cleaned>>
    BY <1>2 DEF PinGatewayReleaseFolder
  <2>4. CASE Pinnable(row[held[m]], copy[m])
    <3>1. /\ row' = [row EXCEPT ![held[m]] = PinnedRow(@)]
          /\ Verify(m, held[m], PinnedRow(row[held[m]]))
          /\ publication' = [publication EXCEPT ![held[m]] = @ + 1]
          /\ against' = [against EXCEPT ![m] = publication[held[m]] + 1]
      BY <1>2, <2>4 DEF PinGatewayReleaseFolder
    <3>2. publication[held[m]] + 1 \in Nat
      BY <2>1 DEF TypeOK
    <3>3. /\ row' \in [Job -> MountRow]
          /\ publication' \in [Job -> Nat]
          /\ against' \in [Mounter -> Nat]
      BY <3>1, <3>2, <2>1, <2>2 DEF TypeOK
    <3> QED
      BY <2>1, <2>2, <2>3, <3>1, <3>3, PassTypes DEF TypeOK
  <2>5. CASE ~Pinnable(row[held[m]], copy[m])
    BY <1>2, <2>3, <2>5, ReturnTypes DEF PinGatewayReleaseFolder, TypeOK
  <2> QED
    BY <2>4, <2>5
<1>3. ASSUME NEW m \in Mounter, StageLink(m) \/ UnstageLink(m) \/ Probe(m)
      PROVE  TypeOK'
  BY <1>3 DEF StageLink, UnstageLink, Probe, TypeOK, Step
<1>4. ASSUME NEW m \in Mounter, FinishGatewayMount(m)
      PROVE  TypeOK'
  <2>1. VerifiedMountRow(row[held[m]], copy[m]) \in MountRow
    BY <1>4, RowStatements DEF FinishGatewayMount, TypeOK
  <2> QED
    BY <1>4, <2>1, ReturnTypes DEF FinishGatewayMount, TypeOK
<1>5. ASSUME NEW m \in Mounter, FinishGatewayCleanup(m)
      PROVE  TypeOK'
  <2>1. CleanedRow(row[held[m]], copy[m]) \in MountRow /\ held[m] \in Job
    BY <1>5, RowStatements DEF FinishGatewayCleanup, TypeOK
  <2>2. row' \in [Job -> MountRow]
    BY <1>5, <2>1 DEF FinishGatewayCleanup, TypeOK
  <2>3. cleaned[held[m]] \in BOOLEAN /\ row[held[m]].cleanup \in BOOLEAN
        /\ row'[held[m]].cleanup \in BOOLEAN
    BY <2>1, <2>2 DEF TypeOK, MountRow
  <2>4. cleaned' \in [Job -> BOOLEAN]
    <3> DEFINE x == cleaned[held[m]] \/ (row[held[m]].cleanup /\ ~row'[held[m]].cleanup)
    <3>1. x \in BOOLEAN
      BY <2>3
    <3>2. cleaned' = [cleaned EXCEPT ![held[m]] = x]
      BY <1>5 DEF FinishGatewayCleanup
    <3> QED
      BY <3>1, <3>2 DEF TypeOK
  <2>5. Return(m) /\ UNCHANGED <<due, seen, links, publication, hiddenOnce>>
    BY <1>5 DEF FinishGatewayCleanup
  <2> QED
    BY <2>2, <2>4, <2>5, ReturnTypes DEF TypeOK
<1>6. ASSUME NEW m \in Mounter, GiveUp(m)
      PROVE  TypeOK'
  BY <1>6, ReturnTypes DEF GiveUp, TypeOK
<1>7. ASSUME NEW j \in Job,
             LeaseExpires(j) \/ ObserveProvider(j) \/ AbandonObservation(j)
      PROVE  TypeOK'
  <2>1. row[j].state \in State
    BY DEF TypeOK, MountRow
  <2> QED
    BY <1>7, <2>1 DEF LeaseExpires, ObserveProvider, AbandonObservation, TypeOK
<1>8. ASSUME NEW j \in Job, UpdateGatewayJob(j)
      PROVE  TypeOK'
  <2>1. PICK s \in Outcomes(seen[j]), same \in BOOLEAN :
          /\ s # "none"
          /\ row' = [row EXCEPT ![j] = PublishedRow(@, s, same)]
          /\ publication' = IF row[j].state # "Mounting" /\ row'[j].state = "Mounting"
                            THEN [publication EXCEPT ![j] = @ + 1] ELSE publication
    BY <1>8 DEF UpdateGatewayJob, Outcomes
  <2>2. PublishedRow(row[j], s, same) \in MountRow
    BY <2>1, OutcomeTypes, RowStatements DEF TypeOK
  <2> QED
    BY <1>8, <2>1, <2>2 DEF UpdateGatewayJob, TypeOK
<1>9. ASSUME NEW j \in Job,
             AddAgain(j) \/ HideGatewayJob(j) \/ RequestGatewayCleanup(j)
      PROVE  TypeOK'
  <2>1. row[j] \in MountRow
    BY DEF TypeOK
  <2>2. \E x \in MountRow : row' = [row EXCEPT ![j] = x]
    <3>1. CASE AddAgain(j)
      BY <2>1, <3>1, RowStatements DEF AddAgain
    <3>2. CASE HideGatewayJob(j)
      BY <2>1, <3>2, RowStatements DEF HideGatewayJob
    <3>3. CASE RequestGatewayCleanup(j)
      BY <2>1, <3>3, RowStatements DEF RequestGatewayCleanup
    <3> QED
      BY <1>9, <3>1, <3>2, <3>3
  <2>3. row' \in [Job -> MountRow]
    BY <2>2 DEF TypeOK
  <2>4. /\ due' \in [Job -> BOOLEAN]
        /\ seen' \in [Job -> State \cup {"none"}]
        /\ hiddenOnce' \in [Job -> BOOLEAN]
        /\ cleaned' \in [Job -> BOOLEAN]
        /\ UNCHANGED <<links, publication, mounterVars>>
    BY <1>9
       DEF AddAgain, HideGatewayJob, RequestGatewayCleanup, TypeOK
  <2> QED
    BY <2>3, <2>4 DEF TypeOK
<1>10. CASE UNCHANGED vars
  BY <1>10 DEF vars, TypeOK
<1> QED
  BY <1>1, <1>2, <1>3, <1>4, <1>5, <1>6, <1>7, <1>8, <1>9, <1>10
     DEF Next, MounterStep

\* Every state a mounter, the gateway and its clients reach is well typed.
THEOREM MountTypeCorrect == Spec => []TypeOK
  BY TypeInit, TypeStep, PTL DEF Spec

--------------------------------------------------------------------------------
(***************************************************************************)
(* Completion is fenced and staged.                                        *)
(***************************************************************************)

\* What the statements do to the columns.
LEMMA StatementColumns ==
  ASSUME NEW r \in MountRow
  PROVE  /\ \A s \in State, same \in BOOLEAN : LET p == PublishedRow(r, s, same) IN
              /\ p.pinned = r.pinned /\ p.hidden = r.hidden /\ p.cleanup = r.cleanup
              /\ p = r \/ (p.state = s /\ p.revision = r.revision + 1)
         /\ LET p == PinnedRow(r) IN
              /\ p.pinned /\ p.hidden = r.hidden /\ p.cleanup = r.cleanup
              /\ p.state = "Mounting" /\ p.revision = r.revision + 1
         /\ \A c \in MountRow : LET p == VerifiedMountRow(r, c) IN
              /\ p.pinned = r.pinned /\ p.hidden = r.hidden /\ p.cleanup = r.cleanup
              /\ p.revision = r.revision
              /\ p.state = r.state
                 \/ (p.state = "Completed" /\ r.revision = c.revision)
         /\ \A c \in MountRow : LET p == CleanedRow(r, c) IN
              /\ p.pinned = r.pinned /\ p.hidden = r.hidden
              /\ p.cleanup => r.cleanup
              /\ r.cleanup /\ ~p.cleanup => r.hidden
              /\ p.revision = r.revision /\ p.state = r.state
         /\ LET p == AddedAgainRow(r) IN
              /\ p.pinned = r.pinned /\ ~p.hidden /\ ~p.cleanup
              /\ p.revision = r.revision /\ p.state = r.state
         /\ LET p == HiddenRow(r) IN
              /\ p.pinned = r.pinned /\ p.hidden /\ p.cleanup = r.cleanup
              /\ p.revision = r.revision /\ p.state = r.state
         /\ LET p == CleanupRow(r) IN
              /\ p.pinned = r.pinned /\ p.hidden /\ p.cleanup
              /\ p.revision = r.revision /\ p.state = r.state
<1>1. \A s \in State, same \in BOOLEAN : LET p == PublishedRow(r, s, same) IN
              /\ p.pinned = r.pinned /\ p.hidden = r.hidden /\ p.cleanup = r.cleanup
              /\ p = r \/ (p.state = s /\ p.revision = r.revision + 1)
  BY DEF MountRow, PublishedRow
<1>2. LET p == PinnedRow(r) IN
              /\ p.pinned /\ p.hidden = r.hidden /\ p.cleanup = r.cleanup
              /\ p.state = "Mounting" /\ p.revision = r.revision + 1
  BY DEF MountRow, PinnedRow
<1>3. \A c \in MountRow : LET p == VerifiedMountRow(r, c) IN
              /\ p.pinned = r.pinned /\ p.hidden = r.hidden /\ p.cleanup = r.cleanup
              /\ p.revision = r.revision
              /\ p.state = r.state
                 \/ (p.state = "Completed" /\ r.revision = c.revision)
  BY DEF MountRow, VerifiedMountRow
<1>4. \A c \in MountRow : LET p == CleanedRow(r, c) IN
              /\ p.pinned = r.pinned /\ p.hidden = r.hidden
              /\ p.cleanup => r.cleanup
              /\ r.cleanup /\ ~p.cleanup => r.hidden
              /\ p.revision = r.revision /\ p.state = r.state
  BY DEF MountRow, CleanedRow
<1>5. /\ LET p == AddedAgainRow(r) IN
              /\ p.pinned = r.pinned /\ ~p.hidden /\ ~p.cleanup
              /\ p.revision = r.revision /\ p.state = r.state
      /\ LET p == HiddenRow(r) IN
              /\ p.pinned = r.pinned /\ p.hidden /\ p.cleanup = r.cleanup
              /\ p.revision = r.revision /\ p.state = r.state
      /\ LET p == CleanupRow(r) IN
              /\ p.pinned = r.pinned /\ p.hidden /\ p.cleanup
              /\ p.revision = r.revision /\ p.state = r.state
  BY DEF MountRow, AddedAgainRow, HiddenRow, CleanupRow
<1> QED
  BY <1>1, <1>2, <1>3, <1>4, <1>5

Verifying == {"stage", "probe", "finish"}

\* Every verified job has a release folder, and so has every job that is being
\* verified: a completed job is never pinned.
PinnedFirst ==
  /\ \A j \in Job : row[j].state = "Completed" => row[j].pinned
  /\ \A m \in Mounter : pc[m] \in Verifying => row[held[m]].pinned

\* A provider pass that saw the job completed still finds it so.
ObservedCompletion ==
  \A j \in Job : seen[j] = "Completed" => row[j].state = "Completed"

\* A pass whose revision is still the row's verifies what is published.
Fenced ==
  \A m \in Mounter : pc[m] \in Verifying =>
    /\ copy[m].revision <= row[held[m]].revision
    /\ copy[m].revision = row[held[m]].revision
         => against[m] = publication[held[m]]

\* Nobody hides or cleans up a job that no client ever removed ...
NeverRemoved ==
  /\ \A j \in Job : ~hiddenOnce[j] => ~row[j].hidden /\ ~row[j].cleanup
  /\ \A m \in Mounter : pc[m] # "idle" /\ ~hiddenOnce[held[m]]
       => ~copy[m].hidden /\ pc[m] \notin {"unstage", "cleaned"}

\* ... so the links its passes have made stay.
Staging ==
  \A m \in Mounter : pc[m] \in Verifying /\ ~hiddenOnce[held[m]] =>
    /\ File \ todo[m] \subseteq links[held[m]]
    /\ pc[m] # "stage" => todo[m] = {}

MountInv ==
  /\ TypeOK
  /\ PinnedFirst
  /\ ObservedCompletion
  /\ Fenced
  /\ NeverRemoved
  /\ Staging
  /\ StagedBeforeCompleted

LEMMA MountInvInit == ASSUME Legacy = {} PROVE Init => MountInv
<1> SUFFICES ASSUME Legacy = {}, Init PROVE MountInv
  OBVIOUS
<1>1. row = [j \in Job |-> NewRow]
  BY DEF Init
<1>2. \A j \in Job : row[j].state = "Away" /\ ~row[j].hidden /\ ~row[j].cleanup
  BY <1>1 DEF NewRow
<1>3. TypeOK
  BY TypeInit
<1> QED
  BY <1>2, <1>3 DEF Init, MountInv, PinnedFirst, ObservedCompletion, Fenced,
     NeverRemoved, Staging, StagedBeforeCompleted, Verifying

\* Steps that change no more of the model than the lease or a provider copy.
LEMMA QuietSteps ==
  ASSUME MountInv, TypeOK',
         UNCHANGED <<row, pc, held, copy, todo, against, links, publication,
                     hiddenOnce>>,
         \A j \in Job : seen'[j] = "Completed"
                        => seen[j] = "Completed" \/ row[j].state = "Completed"
  PROVE  MountInv'
  BY DEF MountInv, PinnedFirst, ObservedCompletion, Fenced, NeverRemoved,
     Staging, StagedBeforeCompleted

\* A mounter that returns leaves the others' claims as they are.
LEMMA ReturnKeeps ==
  ASSUME MountInv, TypeOK', NEW m \in Mounter, Return(m),
         UNCHANGED <<row, seen, links, publication, hiddenOnce>>
  PROVE  MountInv'
<1>1. /\ pc'[m] = "idle"
      /\ \A n \in Mounter \ {m} :
           /\ pc'[n] = pc[n] /\ held'[n] = held[n] /\ copy'[n] = copy[n]
           /\ todo'[n] = todo[n] /\ against'[n] = against[n]
  BY DEF Return, MountInv, TypeOK
<1> QED
  BY <1>1 DEF MountInv, PinnedFirst, ObservedCompletion, Fenced, NeverRemoved,
     Staging, StagedBeforeCompleted, Verifying

\* A pass begins with copy c of its job's row, at the present publication.
LEMMA VerifyKeeps ==
  ASSUME MountInv, TypeOK', NEW m \in Mounter, NEW j \in Job, NEW c \in MountRow,
         Verify(m, j, c), c = row'[j],
         against' = [against EXCEPT ![m] = publication'[j]],
         UNCHANGED <<seen, links, hiddenOnce>>,
         \A i \in Job \ {j} : row'[i] = row[i] /\ publication'[i] = publication[i],
         \/ row'[j] = row[j] /\ publication'[j] = publication[j]
         \/ /\ ~row[j].pinned /\ row'[j].pinned
            /\ row'[j].state = "Mounting" /\ row'[j].revision = row[j].revision + 1
            /\ row'[j].hidden = row[j].hidden /\ row'[j].cleanup = row[j].cleanup
  PROVE  MountInv'
<1> USE DEF MountInv
<1>1. /\ held'[m] = j /\ copy'[m] = c /\ against'[m] = publication'[j]
      /\ todo'[m] = IF c.hidden THEN {} ELSE File
      /\ pc'[m] = IF ~c.pinned THEN "pin" ELSE IF c.hidden THEN "probe" ELSE "stage"
      /\ \A n \in Mounter \ {m} :
           /\ pc'[n] = pc[n] /\ held'[n] = held[n] /\ copy'[n] = copy[n]
           /\ todo'[n] = todo[n] /\ against'[n] = against[n]
  BY DEF Verify, TypeOK
<1>2. /\ row[j].revision \in Nat /\ row'[j].revision \in Nat
      /\ \A n \in Mounter : copy[n].revision \in Nat
  BY DEF TypeOK, MountRow
<1>3. PinnedFirst'
  BY <1>1 DEF PinnedFirst, Verifying, TypeOK
<1>4. ObservedCompletion'
  BY DEF ObservedCompletion, PinnedFirst
<1>5. Fenced'
  <2> SUFFICES ASSUME NEW n \in Mounter, pc'[n] \in Verifying
               PROVE  /\ copy'[n].revision <= row'[held'[n]].revision
                      /\ copy'[n].revision = row'[held'[n]].revision
                           => against'[n] = publication'[held'[n]]
    BY DEF Fenced
  <2>1. CASE n = m
    BY <1>1, <1>2, <2>1
  <2>2. CASE n # m /\ held[n] # j
    BY <1>1, <2>2 DEF Fenced, TypeOK, Verifying
  <2>3. CASE n # m /\ held[n] = j
    <3>1. row[j].pinned
      BY <1>1, <2>3 DEF PinnedFirst
    <3> QED
      BY <1>1, <1>2, <2>3, <3>1 DEF Fenced
  <2>4. n = m \/ (n # m /\ held[n] # j) \/ (n # m /\ held[n] = j)
    OBVIOUS
  <2> QED
    BY <2>1, <2>2, <2>3, <2>4
<1>6. NeverRemoved'
  BY <1>1 DEF NeverRemoved, TypeOK
<1>7. Staging'
  <2>1. ~hiddenOnce[j] => ~c.hidden
    BY DEF NeverRemoved
  <2> QED
    BY <1>1, <2>1 DEF Staging, Verifying
<1>8. StagedBeforeCompleted'
  BY DEF StagedBeforeCompleted
<1> QED
  BY <1>3, <1>4, <1>5, <1>6, <1>7, <1>8

LEMMA ClaimKeeps ==
  ASSUME MountInv, TypeOK', NEW m \in Mounter, NEW j \in Job,
         ClaimGatewayMount(m, j)
  PROVE  MountInv'
<1>1. /\ UNCHANGED <<row, seen, links, publication, hiddenOnce>>
      /\ against' = [against EXCEPT ![m] = publication[j]]
  BY DEF ClaimGatewayMount, clientVars
<1>2. row[j] \in MountRow
  BY DEF MountInv, TypeOK
<1>3. CASE ~row[j].cleanup
  BY <1>1, <1>2, <1>3, VerifyKeeps DEF ClaimGatewayMount
<1>4. CASE row[j].cleanup
  <2>1. CleanUp(m, j, row[j])
    BY <1>4 DEF ClaimGatewayMount
  <2>2. /\ held'[m] = j /\ copy'[m] = row[j] /\ pc'[m] \in {"unstage", "cleaned"}
        /\ \A n \in Mounter \ {m} :
             /\ pc'[n] = pc[n] /\ held'[n] = held[n] /\ copy'[n] = copy[n]
             /\ todo'[n] = todo[n] /\ against'[n] = against[n]
    BY <1>1, <2>1 DEF CleanUp, MountInv, TypeOK
  <2>3. hiddenOnce[j]
    BY <1>4 DEF MountInv, NeverRemoved
  <2> QED
    BY <1>1, <2>2, <2>3 DEF MountInv, PinnedFirst, ObservedCompletion, Fenced,
       NeverRemoved, Staging, StagedBeforeCompleted, Verifying
<1> QED
  BY <1>3, <1>4

LEMMA PinKeeps ==
  ASSUME MountInv, TypeOK', NEW m \in Mounter, PinGatewayReleaseFolder(m)
  PROVE  MountInv'
<1> DEFINE j == held[m]
<1>1. /\ j \in Job /\ row[j] \in MountRow /\ copy[m] \in MountRow
      /\ UNCHANGED <<seen, links, hiddenOnce>>
  BY DEF PinGatewayReleaseFolder, MountInv, TypeOK, clientVars
<1>2. CASE Pinnable(row[j], copy[m])
  <2>1. /\ row' = [row EXCEPT ![j] = PinnedRow(@)]
        /\ Verify(m, j, PinnedRow(row[j]))
        /\ publication' = [publication EXCEPT ![j] = @ + 1]
        /\ against' = [against EXCEPT ![m] = publication[j] + 1]
    BY <1>2 DEF PinGatewayReleaseFolder
  <2>2. /\ row'[j] = PinnedRow(row[j])
        /\ publication'[j] = publication[j] + 1
        /\ \A i \in Job \ {j} : row'[i] = row[i] /\ publication'[i] = publication[i]
    BY <1>1, <2>1 DEF MountInv, TypeOK
  <2>3. PinnedRow(row[j]) \in MountRow
    BY <1>1, RowStatements
  <2>4. /\ ~row[j].pinned /\ row'[j].pinned
        /\ row'[j].state = "Mounting" /\ row'[j].revision = row[j].revision + 1
        /\ row'[j].hidden = row[j].hidden /\ row'[j].cleanup = row[j].cleanup
    BY <1>1, <1>2, <2>2, StatementColumns DEF Pinnable
  <2>5. against' = [against EXCEPT ![m] = publication'[j]]
    BY <2>1, <2>2
  <2> HIDE DEF j
  <2> QED
    BY <1>1, <2>1, <2>2, <2>3, <2>4, <2>5, VerifyKeeps
<1>3. CASE ~Pinnable(row[j], copy[m])
  BY <1>1, <1>3, ReturnKeeps DEF PinGatewayReleaseFolder
<1> QED
  BY <1>2, <1>3

\* Making a link, and reading the payload, leave the row alone.
LEMMA StageKeeps ==
  ASSUME MountInv, TypeOK', NEW m \in Mounter, StageLink(m)
  PROVE  MountInv'
<1> USE DEF MountInv
<1>1. PICK f \in todo[m] :
        /\ links' = [links EXCEPT ![held[m]] = @ \cup {f}]
        /\ todo' = [todo EXCEPT ![m] = @ \ {f}]
        /\ pc' = [pc EXCEPT ![m] = IF todo[m] = {f} THEN "probe" ELSE "stage"]
  BY DEF StageLink
<1>2. /\ pc[m] = "stage"
      /\ UNCHANGED <<row, seen, held, copy, against, publication, hiddenOnce>>
  BY DEF StageLink, clientVars
<1>3. /\ todo'[m] = todo[m] \ {f}
      /\ pc'[m] = IF todo[m] = {f} THEN "probe" ELSE "stage"
      /\ links'[held[m]] = links[held[m]] \cup {f}
      /\ held[m] \in Job
      /\ \A n \in Mounter \ {m} : pc'[n] = pc[n] /\ todo'[n] = todo[n]
      /\ \A j \in Job : links[j] \subseteq links'[j] /\ links'[j] \subseteq File
  BY <1>1, <1>2 DEF TypeOK
<1>4. PinnedFirst' /\ ObservedCompletion' /\ Fenced' /\ NeverRemoved'
  BY <1>2, <1>3 DEF PinnedFirst, ObservedCompletion, Fenced, NeverRemoved, Verifying
<1>5. Staging'
  <2> SUFFICES ASSUME NEW n \in Mounter, pc'[n] \in Verifying, ~hiddenOnce[held[n]]
               PROVE  /\ File \ todo'[n] \subseteq links'[held[n]]
                      /\ pc'[n] # "stage" => todo'[n] = {}
    BY <1>2 DEF Staging
  <2>1. held[n] \in Job
    BY <1>2 DEF TypeOK, Verifying
  <2>2. CASE n = m
    <3>1. File \ todo[m] \subseteq links[held[m]]
      BY <1>2, <2>2 DEF Staging, Verifying
    <3> QED
      BY <1>3, <2>2, <3>1
  <2>3. CASE n # m
    <3>1. /\ File \ todo[n] \subseteq links[held[n]]
          /\ pc[n] # "stage" => todo[n] = {}
      BY <1>3, <2>3 DEF Staging
    <3> QED
      BY <1>3, <2>1, <2>3, <3>1
  <2> QED
    BY <2>2, <2>3
<1>6. ASSUME NEW j \in Job, row'[j].state = "Completed", row'[j].pinned, ~hiddenOnce'[j]
      PROVE  links'[j] = File
  <2>1. links[j] = File
    BY <1>2, <1>6 DEF StagedBeforeCompleted
  <2>2. links[j] \subseteq links'[j] /\ links'[j] \subseteq File
    BY <1>3
  <2>3. File \subseteq links'[j]
    BY <2>1, <2>2
  <2> QED
    BY <2>2, <2>3
<1> QED
  BY <1>4, <1>5, <1>6 DEF StagedBeforeCompleted

LEMMA ProbeKeeps ==
  ASSUME MountInv, TypeOK', NEW m \in Mounter, Probe(m)
  PROVE  MountInv'
<1>1. /\ pc[m] = "probe" /\ pc'[m] = "finish"
      /\ \A n \in Mounter \ {m} : pc'[n] = pc[n]
      /\ UNCHANGED <<row, seen, held, copy, todo, links, against, publication,
                     hiddenOnce>>
  BY DEF Probe, MountInv, TypeOK, clientVars
<1> QED
  BY <1>1 DEF MountInv, PinnedFirst, ObservedCompletion, Fenced, NeverRemoved,
     Staging, StagedBeforeCompleted, Verifying

\* Links are removed only of jobs that were removed once.
LEMMA UnstageKeeps ==
  ASSUME MountInv, TypeOK', NEW m \in Mounter, UnstageLink(m)
  PROVE  MountInv'
<1> USE DEF MountInv
<1>1. /\ pc[m] = "unstage" /\ pc'[m] \in {"unstage", "cleaned"}
      /\ \A n \in Mounter \ {m} : pc'[n] = pc[n] /\ todo'[n] = todo[n]
      /\ \A j \in Job : j # held[m] => links'[j] = links[j]
      /\ UNCHANGED <<row, seen, held, copy, against, publication, hiddenOnce>>
  BY DEF UnstageLink, TypeOK, clientVars
<1>2. hiddenOnce[held[m]]
  BY <1>1 DEF NeverRemoved
<1>3. PinnedFirst' /\ ObservedCompletion' /\ Fenced' /\ NeverRemoved'
  BY <1>1 DEF PinnedFirst, ObservedCompletion, Fenced, NeverRemoved, Verifying
<1>4. Staging'
  BY <1>1, <1>2 DEF Staging, Verifying, TypeOK
<1>5. StagedBeforeCompleted'
  BY <1>1, <1>2 DEF StagedBeforeCompleted
<1> QED
  BY <1>3, <1>4, <1>5

\* What a finished verification does: it completes the job only against the
\* present publication, and then every file of a job never removed is staged.
LEMMA FinishMountKeeps ==
  ASSUME MountInv, TypeOK', NEW m \in Mounter, FinishGatewayMount(m)
  PROVE  MountInv'
<1> USE DEF MountInv
<1> DEFINE j == held[m]
<1>1. /\ pc[m] = "finish" /\ Return(m)
      /\ row' = [row EXCEPT ![j] = VerifiedMountRow(@, copy[m])]
      /\ UNCHANGED <<seen, links, publication, hiddenOnce>>
  BY DEF FinishGatewayMount, clientVars
<1>2. j \in Job /\ row[j] \in MountRow /\ copy[m] \in MountRow
  BY <1>1 DEF TypeOK
<1>3. /\ pc'[m] = "idle"
      /\ \A n \in Mounter \ {m} :
           /\ pc'[n] = pc[n] /\ held'[n] = held[n] /\ copy'[n] = copy[n]
           /\ todo'[n] = todo[n] /\ against'[n] = against[n]
  BY <1>1 DEF Return, TypeOK
<1>4. /\ row'[j] = VerifiedMountRow(row[j], copy[m])
      /\ \A i \in Job \ {j} : row'[i] = row[i]
  BY <1>1, <1>2 DEF TypeOK
<1>5. /\ row'[j].pinned = row[j].pinned /\ row'[j].hidden = row[j].hidden
      /\ row'[j].cleanup = row[j].cleanup /\ row'[j].revision = row[j].revision
      /\ row'[j].state = row[j].state \/ row'[j].state = "Completed"
  BY <1>2, <1>4, StatementColumns
<1>6. row[j].pinned /\ (~hiddenOnce[j] => links[j] = File)
  <2>1. row[j].pinned
    BY <1>1 DEF PinnedFirst, Verifying
  <2>2. ~hiddenOnce[j] => File \ todo[m] \subseteq links[j] /\ todo[m] = {}
    BY <1>1 DEF Staging, Verifying
  <2>3. links[j] \subseteq File
    BY <1>2 DEF TypeOK
  <2> QED
    BY <2>1, <2>2, <2>3
<1> HIDE DEF j
<1>7. /\ \A i \in Job : row'[i].pinned = row[i].pinned
      /\ \A i \in Job : row[i].state = "Completed" => row'[i].state = "Completed"
      /\ \A i \in Job : row'[i].state = "Completed"
                        => row[i].state = "Completed" \/ row[i].pinned
  BY <1>4, <1>5, <1>6
<1>8. PinnedFirst' /\ ObservedCompletion'
  BY <1>1, <1>3, <1>7 DEF PinnedFirst, ObservedCompletion, Verifying, TypeOK
<1>9. Fenced'
  BY <1>1, <1>3, <1>4, <1>5 DEF Fenced, Verifying, TypeOK
<1>10. NeverRemoved'
  BY <1>1, <1>3, <1>4, <1>5 DEF NeverRemoved
<1>11. Staging'
  BY <1>1, <1>3 DEF Staging, Verifying
<1>12. StagedBeforeCompleted'
  BY <1>1, <1>2, <1>4, <1>5, <1>6 DEF StagedBeforeCompleted
<1> QED
  BY <1>8, <1>9, <1>10, <1>11, <1>12

\* Statements that leave state, revision and pin of the row alone, by a mounter
\* that returns or by the clients' API.
LEMMA FlagSteps ==
  ASSUME MountInv, TypeOK', NEW j \in Job, NEW r \in MountRow,
         row' = [row EXCEPT ![j] = r],
         r.state = row[j].state, r.revision = row[j].revision,
         r.pinned = row[j].pinned,
         ~hiddenOnce'[j] => ~r.hidden /\ ~r.cleanup,
         \A i \in Job : hiddenOnce[i] => hiddenOnce'[i],
         UNCHANGED <<seen, links, publication>>,
         \A n \in Mounter :
           \/ pc'[n] = "idle"
           \/ /\ pc'[n] = pc[n] /\ held'[n] = held[n] /\ copy'[n] = copy[n]
              /\ todo'[n] = todo[n] /\ against'[n] = against[n]
  PROVE  MountInv'
<1> USE DEF MountInv
<1>1. \A i \in Job : /\ row'[i].state = row[i].state
                     /\ row'[i].revision = row[i].revision
                     /\ row'[i].pinned = row[i].pinned
                     /\ i # j => row'[i] = row[i]
  BY DEF TypeOK
<1>2. row'[j] = r
  BY DEF TypeOK
<1>3. \A n \in Mounter : pc[n] # "idle" => held[n] \in Job
  BY DEF TypeOK
<1>4. PinnedFirst' /\ ObservedCompletion' /\ Fenced'
  BY <1>1, <1>3 DEF PinnedFirst, ObservedCompletion, Fenced, Verifying
<1>5. NeverRemoved'
  BY <1>1, <1>2, <1>3 DEF NeverRemoved
<1>6. Staging' /\ StagedBeforeCompleted'
  BY <1>1, <1>3 DEF Staging, StagedBeforeCompleted, Verifying
<1> QED
  BY <1>4, <1>5, <1>6

LEMMA FinishCleanupKeeps ==
  ASSUME MountInv, TypeOK', NEW m \in Mounter, FinishGatewayCleanup(m)
  PROVE  MountInv'
<1> DEFINE j == held[m]
           r == CleanedRow(row[j], copy[m])
<1>1. /\ pc[m] = "cleaned" /\ Return(m)
      /\ row' = [row EXCEPT ![j] = r]
      /\ UNCHANGED <<seen, links, publication, hiddenOnce>>
  BY DEF FinishGatewayCleanup
<1>2. j \in Job /\ row[j] \in MountRow /\ copy[m] \in MountRow
  BY <1>1 DEF MountInv, TypeOK
<1>3. r \in MountRow
  BY <1>2, RowStatements
<1>4. /\ r.state = row[j].state /\ r.revision = row[j].revision
      /\ r.pinned = row[j].pinned /\ r.hidden = row[j].hidden
      /\ r.cleanup => row[j].cleanup
  BY <1>2, StatementColumns
<1>5. \A n \in Mounter :
        \/ pc'[n] = "idle"
        \/ /\ pc'[n] = pc[n] /\ held'[n] = held[n] /\ copy'[n] = copy[n]
           /\ todo'[n] = todo[n] /\ against'[n] = against[n]
  BY <1>1 DEF Return, MountInv, TypeOK
<1>6. ~hiddenOnce'[j] => ~r.hidden /\ ~r.cleanup
  BY <1>1, <1>2, <1>4 DEF MountInv, NeverRemoved
<1> HIDE DEF r, j
<1> QED
  BY <1>1, <1>2, <1>3, <1>4, <1>5, <1>6, FlagSteps

LEMMA ClientKeeps ==
  ASSUME MountInv, TypeOK', NEW j \in Job,
         AddAgain(j) \/ HideGatewayJob(j) \/ RequestGatewayCleanup(j)
  PROVE  MountInv'
<1>1. row[j] \in MountRow
  BY DEF MountInv, TypeOK
<1>2. /\ UNCHANGED <<seen, links, publication, pc, held, copy, todo, against>>
      /\ \A i \in Job : hiddenOnce[i] => hiddenOnce'[i]
  BY DEF AddAgain, HideGatewayJob, RequestGatewayCleanup, mounterVars, MountInv,
     TypeOK
<1>3. CASE AddAgain(j)
  <2> DEFINE r == AddedAgainRow(row[j])
  <2>1. row' = [row EXCEPT ![j] = r]
    BY <1>3 DEF AddAgain
  <2>2. r \in MountRow
    BY <1>1, RowStatements
  <2>3. /\ r.state = row[j].state /\ r.revision = row[j].revision /\ r.pinned = row[j].pinned
        /\ ~r.hidden /\ ~r.cleanup
    BY <1>1, StatementColumns
  <2> HIDE DEF r
  <2> QED
    BY <1>2, <2>1, <2>2, <2>3, FlagSteps
<1>4. CASE HideGatewayJob(j)
  <2> DEFINE r == HiddenRow(row[j])
  <2>1. hiddenOnce'[j] /\ row' = [row EXCEPT ![j] = r]
    BY <1>4 DEF HideGatewayJob, MountInv, TypeOK
  <2>2. r \in MountRow
    BY <1>1, RowStatements
  <2>3. r.state = row[j].state /\ r.revision = row[j].revision /\ r.pinned = row[j].pinned
    BY <1>1, StatementColumns
  <2> HIDE DEF r
  <2> QED
    BY <1>2, <2>1, <2>2, <2>3, FlagSteps
<1>5. CASE RequestGatewayCleanup(j)
  <2> DEFINE r == CleanupRow(row[j])
  <2>1. hiddenOnce'[j] /\ row' = [row EXCEPT ![j] = r]
    BY <1>5 DEF RequestGatewayCleanup, MountInv, TypeOK
  <2>2. r \in MountRow
    BY <1>1, RowStatements
  <2>3. r.state = row[j].state /\ r.revision = row[j].revision /\ r.pinned = row[j].pinned
    BY <1>1, StatementColumns
  <2> HIDE DEF r
  <2> QED
    BY <1>2, <2>1, <2>2, <2>3, FlagSteps
<1> QED
  BY <1>3, <1>4, <1>5

\* A provider write that leaves a trace raises the revision past every copy;
\* it never makes a job completed that was not.
LEMMA ProviderKeeps ==
  ASSUME MountInv, TypeOK', NEW j \in Job,
         UpdateGatewayJob(j)
  PROVE  MountInv' /\ (row'[j].state = "Completed" => row[j].state = "Completed")
<1> USE DEF MountInv
<1>1. /\ row[j] \in MountRow
      /\ UNCHANGED <<links, pc, held, copy, todo, against, hiddenOnce>>
      /\ seen' = [seen EXCEPT ![j] = "none"]
  BY DEF UpdateGatewayJob, TypeOK, mounterVars, clientVars
<1>2. /\ \A i \in Job \ {j} : row'[i] = row[i] /\ publication'[i] = publication[i]
      /\ row'[j].pinned = row[j].pinned /\ row'[j].hidden = row[j].hidden
      /\ row'[j].cleanup = row[j].cleanup
      /\ \/ row'[j] = row[j] /\ publication'[j] = publication[j]
         \/ row'[j].revision = row[j].revision + 1
      /\ row'[j].state = "Completed" => row[j].state = "Completed"
  <2>1. PICK s \in Outcomes(seen[j]), same \in BOOLEAN :
          /\ s # "none"
          /\ row' = [row EXCEPT ![j] = PublishedRow(@, s, same)]
          /\ publication' =
               IF row[j].state # "Mounting" /\ row'[j].state = "Mounting"
               THEN [publication EXCEPT ![j] = @ + 1] ELSE publication
    BY DEF UpdateGatewayJob, Outcomes
  <2>2. s \in State /\ (s = "Completed" => row[j].state = "Completed")
    BY <2>1, OutcomeTypes DEF Outcomes, ObservedCompletion, TypeOK
  <2>3. /\ row'[j] = PublishedRow(row[j], s, same)
        /\ \A i \in Job \ {j} : row'[i] = row[i] /\ publication'[i] = publication[i]
    BY <2>1 DEF TypeOK
  <2>4. /\ row'[j].pinned = row[j].pinned /\ row'[j].hidden = row[j].hidden
        /\ row'[j].cleanup = row[j].cleanup
        /\ \/ row'[j] = row[j]
           \/ row'[j].state = s /\ row'[j].revision = row[j].revision + 1
    BY <1>1, <2>2, <2>3, StatementColumns
  <2> QED
    BY <2>1, <2>2, <2>3, <2>4
<1>3. /\ row[j].revision \in Nat /\ row'[j].revision \in Nat
      /\ \A n \in Mounter : copy[n].revision \in Nat
      /\ \A n \in Mounter : pc[n] # "idle" => held[n] \in Job
  BY DEF TypeOK, MountRow
<1>4. PinnedFirst'
  BY <1>1, <1>2, <1>3 DEF PinnedFirst, Verifying
<1>5. ObservedCompletion'
  BY <1>1, <1>2 DEF ObservedCompletion, TypeOK
<1>6. Fenced'
  <2> SUFFICES ASSUME NEW n \in Mounter, pc[n] \in Verifying
               PROVE  /\ copy[n].revision <= row'[held[n]].revision
                      /\ copy[n].revision = row'[held[n]].revision
                           => against[n] = publication'[held[n]]
    BY <1>1 DEF Fenced
  <2>1. held[n] \in Job
    BY <1>3 DEF Verifying
  <2> QED
    BY <1>2, <1>3, <2>1 DEF Fenced
<1>7. NeverRemoved'
  BY <1>1, <1>2, <1>3 DEF NeverRemoved
<1>8. Staging' /\ StagedBeforeCompleted'
  BY <1>1, <1>2 DEF Staging, StagedBeforeCompleted
<1> QED
  BY <1>2, <1>4, <1>5, <1>6, <1>7, <1>8

LEMMA MountInvStep == MountInv /\ [Next]_vars => MountInv'
<1> SUFFICES ASSUME MountInv, [Next]_vars PROVE MountInv'
  OBVIOUS
<1>1. TypeOK'
  BY TypeStep DEF MountInv
<1>2. ASSUME NEW m \in Mounter, NEW j \in Job, ClaimGatewayMount(m, j)
      PROVE  MountInv'
  BY <1>1, <1>2, ClaimKeeps
<1>3. ASSUME NEW m \in Mounter, MounterStep(m)
      PROVE  MountInv'
  BY <1>1, <1>3, PinKeeps, StageKeeps, ProbeKeeps, FinishMountKeeps, UnstageKeeps,
     FinishCleanupKeeps DEF MounterStep
<1>4. ASSUME NEW m \in Mounter, GiveUp(m)
      PROVE  MountInv'
  BY <1>1, <1>4, ReturnKeeps DEF GiveUp, clientVars
<1>5. ASSUME NEW j \in Job,
             LeaseExpires(j) \/ ObserveProvider(j) \/ AbandonObservation(j)
      PROVE  MountInv'
  <2>1. \A i \in Job : seen'[i] = "Completed"
                       => seen[i] = "Completed" \/ row[i].state = "Completed"
    BY <1>5 DEF LeaseExpires, ObserveProvider, AbandonObservation, MountInv, TypeOK
  <2>2. UNCHANGED <<row, pc, held, copy, todo, against, links, publication,
                    hiddenOnce>>
    BY <1>5 DEF LeaseExpires, ObserveProvider, AbandonObservation, mounterVars,
       clientVars
  <2> QED
    BY <1>1, <2>1, <2>2, QuietSteps
<1>6. ASSUME NEW j \in Job, UpdateGatewayJob(j)
      PROVE  MountInv'
  BY <1>1, <1>6, ProviderKeeps
<1>7. ASSUME NEW j \in Job,
             AddAgain(j) \/ HideGatewayJob(j) \/ RequestGatewayCleanup(j)
      PROVE  MountInv'
  BY <1>1, <1>7, ClientKeeps
<1>8. CASE UNCHANGED vars
  BY <1>1, <1>8, QuietSteps DEF vars
<1> QED
  BY <1>2, <1>3, <1>4, <1>5, <1>6, <1>7, <1>8 DEF Next

\* What clients see as completed and never removed is fully staged.
THEOREM CompletionStaged ==
  ASSUME Legacy = {}
  PROVE  Spec => []StagedBeforeCompleted
<1>1. Init => MountInv
  BY MountInvInit
<1>2. MountInv => StagedBeforeCompleted
  BY DEF MountInv
<1> QED
  BY <1>1, <1>2, MountInvStep, PTL DEF Spec

LEMMA StepFenced ==
  ASSUME MountInv, [Next]_vars, NEW j \in Job,
         row[j].state # "Completed", row'[j].state = "Completed"
  PROVE  \E m \in Mounter : /\ pc[m] = "finish" /\ pc'[m] = "idle"
                            /\ held[m] = j /\ against[m] = publication[j]
<1> USE DEF MountInv
<1>1. TypeOK'
  BY TypeStep
<1>2. row[j] \in MountRow
  BY DEF TypeOK
<1>3. row' # row
  OBVIOUS
<1>4. ASSUME NEW m \in Mounter, FinishGatewayMount(m)
      PROVE  /\ pc[m] = "finish" /\ pc'[m] = "idle"
             /\ held[m] = j /\ against[m] = publication[j]
  <2>1. /\ pc[m] = "finish" /\ pc'[m] = "idle" /\ copy[m] \in MountRow
        /\ row' = [row EXCEPT ![held[m]] = VerifiedMountRow(@, copy[m])]
    BY <1>4 DEF FinishGatewayMount, Return, TypeOK
  <2>2. held[m] = j /\ row'[j] = VerifiedMountRow(row[j], copy[m])
    BY <2>1 DEF TypeOK
  <2>3. row[j].revision = copy[m].revision
    BY <1>2, <2>1, <2>2, StatementColumns
  <2> QED
    BY <2>1, <2>2, <2>3 DEF Fenced, Verifying
<1>5. ASSUME NEW m \in Mounter,
             PinGatewayReleaseFolder(m) \/ FinishGatewayCleanup(m)
      PROVE  FALSE
  <2>1. held[m] \in Job /\ row[held[m]] \in MountRow /\ copy[m] \in MountRow
    BY <1>5 DEF PinGatewayReleaseFolder, FinishGatewayCleanup, TypeOK
  <2>2. \/ row' = [row EXCEPT ![held[m]] = PinnedRow(@)]
        \/ row' = [row EXCEPT ![held[m]] = CleanedRow(@, copy[m])]
    BY <1>3, <1>5 DEF PinGatewayReleaseFolder, FinishGatewayCleanup
  <2>3. held[m] = j
    BY <2>1, <2>2 DEF TypeOK
  <2>4. row'[j] = PinnedRow(row[j]) \/ row'[j] = CleanedRow(row[j], copy[m])
    BY <2>2, <2>3 DEF TypeOK
  <2> QED
    BY <1>2, <2>1, <2>4, StatementColumns
<1>6. ASSUME NEW i \in Job, UpdateGatewayJob(i)
      PROVE  FALSE
  <2>1. row'[i].state = "Completed" => row[i].state = "Completed"
    BY <1>1, <1>6, ProviderKeeps
  <2>2. \A k \in Job \ {i} : row'[k] = row[k]
    BY <1>6 DEF UpdateGatewayJob, TypeOK
  <2> QED
    BY <2>1, <2>2
<1>7. ASSUME NEW i \in Job,
             AddAgain(i) \/ HideGatewayJob(i) \/ RequestGatewayCleanup(i)
      PROVE  FALSE
  <2>1. row[i] \in MountRow
    BY DEF TypeOK
  <2>2. /\ row'[i] \in {AddedAgainRow(row[i]), HiddenRow(row[i]), CleanupRow(row[i])}
        /\ \A k \in Job \ {i} : row'[k] = row[k]
    BY <1>7 DEF AddAgain, HideGatewayJob, RequestGatewayCleanup, TypeOK
  <2>3. row'[i].state = row[i].state
    BY <2>1, <2>2, StatementColumns
  <2> QED
    BY <2>2, <2>3
<1>8. /\ \A m \in Mounter : ~StageLink(m) /\ ~UnstageLink(m) /\ ~Probe(m) /\ ~GiveUp(m)
      /\ \A m \in Mounter : \A i \in Job : ~ClaimGatewayMount(m, i)
      /\ \A i \in Job : ~LeaseExpires(i) /\ ~ObserveProvider(i) /\ ~AbandonObservation(i)
      /\ ~UNCHANGED vars
  BY <1>3 DEF StageLink, UnstageLink, Probe, GiveUp, ClaimGatewayMount,
     LeaseExpires, ObserveProvider, AbandonObservation, vars
<1> QED
  BY <1>4, <1>5, <1>6, <1>7, <1>8 DEF Next, MounterStep

\* A job becomes completed only by the verification of what is published now.
THEOREM CompletionFenced ==
  ASSUME Legacy = {}
  PROVE  Spec => CompletedAsVerified
<1>1. Init => MountInv
  BY MountInvInit
<1>2. MountInv /\ [Next]_vars
       => [\A j \in Job : row[j].state # "Completed" /\ row'[j].state = "Completed"
             => \E m \in Mounter : /\ pc[m] = "finish" /\ pc'[m] = "idle"
                                  /\ held[m] = j /\ against[m] = publication[j]]_vars
  BY StepFenced
<1> QED
  BY <1>1, <1>2, MountInvStep, PTL DEF Spec, CompletedAsVerified

--------------------------------------------------------------------------------
(***************************************************************************)
(* The two workers.  GatewayWorker knows of the mount worker only that it  *)
(* may complete a job that is Mounting (its FinishGatewayMount, with       *)
(* VerifiedRow).  Nothing else is to be known: no other step of mounters   *)
(* or clients moves the state of a job.                                    *)
(***************************************************************************)

\* A change of j's state is the write of the provider pass that had seen j, or
\* the completion of a mounting job (UpdateGatewayJob, FinishGatewayMount).
MounterOnlyCompletes ==
  [][\A j \in Job : row'[j].state # row[j].state /\ seen'[j] = seen[j]
       => row[j].state = "Mounting" /\ row'[j].state = "Completed"]_vars

LEMMA StepCompletes ==
  ASSUME MountInv, [Next]_vars, NEW j \in Job,
         row'[j].state # row[j].state, seen'[j] = seen[j]
  PROVE  row[j].state = "Mounting" /\ row'[j].state = "Completed"
<1> USE DEF MountInv
<1>1. row \in [Job -> MountRow] /\ row' # row
  BY DEF TypeOK
<1>2. ASSUME NEW m \in Mounter, FinishGatewayMount(m)
      PROVE  row[j].state = "Mounting" /\ row'[j].state = "Completed"
  <2>1. row' = [row EXCEPT ![held[m]] = VerifiedMountRow(@, copy[m])]
    BY <1>2 DEF FinishGatewayMount
  <2>2. row'[j] = VerifiedMountRow(row[j], copy[m])
    BY <1>1, <2>1
  <2> QED
    BY <1>1, <2>2 DEF VerifiedMountRow, MountRow
<1>3. ASSUME NEW m \in Mounter, PinGatewayReleaseFolder(m)
      PROVE  FALSE
  <2>1. /\ row' = [row EXCEPT ![held[m]] = PinnedRow(@)]
        /\ Pinnable(row[held[m]], copy[m])
    BY <1>1, <1>3 DEF PinGatewayReleaseFolder
  <2>2. held[m] = j /\ row'[j] = PinnedRow(row[j])
    BY <1>1, <2>1
  <2>3. row'[j].state = "Mounting"
    BY <1>1, <2>2, StatementColumns
  <2>4. row[j].state = "Mounting"
    BY <2>1, <2>2 DEF Pinnable, PinnedFirst
  <2> QED
    BY <2>3, <2>4
<1>4. ASSUME NEW m \in Mounter, FinishGatewayCleanup(m)
      PROVE  FALSE
  <2>1. /\ row' = [row EXCEPT ![held[m]] = CleanedRow(@, copy[m])]
        /\ copy[m] \in MountRow
    BY <1>4 DEF FinishGatewayCleanup, TypeOK
  <2>2. row'[j] = CleanedRow(row[j], copy[m])
    BY <1>1, <2>1
  <2> QED
    BY <1>1, <2>1, <2>2, StatementColumns
<1>5. ASSUME NEW i \in Job, UpdateGatewayJob(i)
      PROVE  FALSE
  <2>1. /\ seen[i] # "none" /\ seen' = [seen EXCEPT ![i] = "none"]
        /\ \A k \in Job \ {i} : row'[k] = row[k]
    BY <1>1, <1>5 DEF UpdateGatewayJob
  <2>2. seen'[i] = "none"
    BY <2>1 DEF TypeOK
  <2> QED
    BY <2>1, <2>2
<1>6. ASSUME NEW i \in Job,
             AddAgain(i) \/ HideGatewayJob(i) \/ RequestGatewayCleanup(i)
      PROVE  FALSE
  <2>1. /\ row'[i] \in {AddedAgainRow(row[i]), HiddenRow(row[i]), CleanupRow(row[i])}
        /\ \A k \in Job \ {i} : row'[k] = row[k]
    BY <1>1, <1>6 DEF AddAgain, HideGatewayJob, RequestGatewayCleanup
  <2>2. row'[i].state = row[i].state
    BY <1>1, <2>1, StatementColumns
  <2> QED
    BY <2>1, <2>2
<1>7. /\ \A m \in Mounter : ~StageLink(m) /\ ~UnstageLink(m) /\ ~Probe(m) /\ ~GiveUp(m)
      /\ \A m \in Mounter : \A i \in Job : ~ClaimGatewayMount(m, i)
      /\ \A i \in Job : ~LeaseExpires(i) /\ ~ObserveProvider(i) /\ ~AbandonObservation(i)
      /\ ~UNCHANGED vars
  BY <1>1 DEF StageLink, UnstageLink, Probe, GiveUp, ClaimGatewayMount,
     LeaseExpires, ObserveProvider, AbandonObservation, vars
<1> QED
  BY <1>2, <1>3, <1>4, <1>5, <1>6, <1>7 DEF Next, MounterStep

\* Without jobs of a version that knew no release folders, the mount worker is
\* to the provider worker what GatewayWorker takes it for; such a job it may
\* move back from Completed to Mounting when it pins its folder.
THEOREM MountersOnlyComplete ==
  ASSUME Legacy = {}
  PROVE  Spec => MounterOnlyCompletes
<1>1. Init => MountInv
  BY MountInvInit
<1>2. MountInv /\ [Next]_vars
       => [\A j \in Job : row'[j].state # row[j].state /\ seen'[j] = seen[j]
             => row[j].state = "Mounting" /\ row'[j].state = "Completed"]_vars
  BY StepCompletes
<1> QED
  BY <1>1, <1>2, MountInvStep, PTL DEF Spec, MounterOnlyCompletes

--------------------------------------------------------------------------------
(***************************************************************************)
(* A cleanup that is done stays done, with one mounter.                    *)
(***************************************************************************)

SoleMounter == \E m : Mounter = {m}

\* Links are made below a release folder only, ...
NoFolderNoLinks ==
  /\ \A j \in Job : ~row[j].pinned => links[j] = {}
  /\ \A m \in Mounter : pc[m] \in Verifying => row[held[m]].pinned

\* ... never for a job whose cleanup is done, ...
CleanedHidden ==
  /\ \A j \in Job : cleaned[j] => row[j].hidden /\ links[j] = {}
  /\ \A m \in Mounter : pc[m] = "stage" => ~cleaned[held[m]]

\* ... and a cleanup removes those it finds.
Unstaging ==
  \A m \in Mounter :
    /\ pc[m] = "unstage" => links[held[m]] \subseteq todo[m]
    /\ pc[m] = "cleaned" => links[held[m]] = {}

CleanInv == TypeOK /\ NoFolderNoLinks /\ CleanedHidden /\ Unstaging

LEMMA CleanInvInit == Init => CleanInv
<1> SUFFICES ASSUME Init PROVE CleanInv
  OBVIOUS
<1>1. TypeOK
  BY TypeInit
<1> QED
  BY <1>1 DEF Init, CleanInv, NoFolderNoLinks, CleanedHidden, Unstaging, Verifying

\* Steps of the gateway, its clients and the clock: no link and no mounter
\* moves, a row keeps its pin, and a job is seen again only when its cleanup
\* no longer counts.
LEMMA OthersKeepClean ==
  ASSUME CleanInv, TypeOK',
         UNCHANGED <<links, pc, held, todo>>,
         \A j \in Job : row'[j].pinned = row[j].pinned,
         \A j \in Job : cleaned'[j] => cleaned[j] /\ (row[j].hidden => row'[j].hidden)
  PROVE  CleanInv'
<1>1. \A n \in Mounter : pc[n] # "idle" => held[n] \in Job
  BY DEF CleanInv, TypeOK
<1> QED
  BY <1>1 DEF CleanInv, NoFolderNoLinks, CleanedHidden, Unstaging, Verifying

\* The one mounter begins or goes on with a pass over j, holding copy c of the
\* row as it is now.
LEMMA PassKeepsClean ==
  ASSUME CleanInv, TypeOK', SoleMounter, NEW m \in Mounter, NEW j \in Job,
         Verify(m, j, row'[j]) \/ CleanUp(m, j, row'[j]),
         UNCHANGED <<links, cleaned>>,
         row'[j].hidden = row[j].hidden,
         row[j].pinned => row'[j].pinned,
         \A i \in Job \ {j} : row'[i] = row[i]
  PROVE  CleanInv'
<1> USE DEF CleanInv
<1>1. Mounter = {m} /\ held'[m] = j
  BY DEF SoleMounter, Verify, CleanUp, TypeOK
<1>2. links[j] \subseteq File /\ row'[j].pinned \in BOOLEAN /\ row'[j].hidden \in BOOLEAN
  BY DEF TypeOK, MountRow
<1>3. CASE Verify(m, j, row'[j])
  <2>1. pc'[m] = IF ~row'[j].pinned THEN "pin"
                 ELSE IF row'[j].hidden THEN "probe" ELSE "stage"
    BY <1>3 DEF Verify, TypeOK
  <2> QED
    BY <1>1, <1>2, <2>1 DEF NoFolderNoLinks, CleanedHidden, Unstaging, Verifying
<1>4. CASE CleanUp(m, j, row'[j])
  <2>1. /\ pc'[m] = IF row'[j].pinned THEN "unstage" ELSE "cleaned"
        /\ todo'[m] = IF row'[j].pinned THEN File ELSE {}
    BY <1>4 DEF CleanUp, TypeOK
  <2> QED
    BY <1>1, <1>2, <2>1 DEF NoFolderNoLinks, CleanedHidden, Unstaging, Verifying
<1> QED
  BY <1>3, <1>4

\* The one mounter makes or removes a link, or probes.
LEMMA LinkKeepsClean ==
  ASSUME CleanInv, TypeOK', SoleMounter, NEW m \in Mounter,
         StageLink(m) \/ UnstageLink(m) \/ Probe(m)
  PROVE  CleanInv'
<1> USE DEF CleanInv
<1>1. Mounter = {m} /\ held[m] \in Job
  BY DEF SoleMounter, StageLink, UnstageLink, Probe, TypeOK
<1>2. UNCHANGED <<row, held, cleaned>>
  BY DEF StageLink, UnstageLink, Probe, clientVars
<1>3. CASE StageLink(m)
  <2>1. /\ pc[m] = "stage" /\ pc'[m] \in {"probe", "stage"}
        /\ \A i \in Job \ {held[m]} : links'[i] = links[i]
    BY <1>3 DEF StageLink, TypeOK
  <2> QED
    BY <1>1, <1>2, <2>1 DEF NoFolderNoLinks, CleanedHidden, Unstaging, Verifying
<1>4. CASE UnstageLink(m)
  <2>1. PICK f \in todo[m] :
          /\ pc[m] = "unstage"
          /\ links'[held[m]] = links[held[m]] \ {f}
          /\ todo'[m] = todo[m] \ {f}
          /\ pc'[m] = IF todo[m] = {f} THEN "cleaned" ELSE "unstage"
          /\ \A i \in Job \ {held[m]} : links'[i] = links[i]
    BY <1>1, <1>4 DEF UnstageLink, TypeOK
  <2>2. links[held[m]] \subseteq todo[m]
    BY <2>1 DEF Unstaging
  <2>3. /\ links'[held[m]] \subseteq todo'[m]
        /\ pc'[m] = "cleaned" => links'[held[m]] = {}
    BY <2>1, <2>2
  <2>4. links[held[m]] = {} => links'[held[m]] = {}
    BY <2>1
  <2> QED
    BY <1>1, <1>2, <2>1, <2>3, <2>4
       DEF NoFolderNoLinks, CleanedHidden, Unstaging, Verifying
<1>5. CASE Probe(m)
  <2>1. pc[m] = "probe" /\ pc'[m] = "finish" /\ UNCHANGED <<links, todo>>
    BY <1>5 DEF Probe, TypeOK
  <2> QED
    BY <1>1, <1>2, <2>1 DEF NoFolderNoLinks, CleanedHidden, Unstaging, Verifying
<1> QED
  BY <1>3, <1>4, <1>5

\* The one mounter returns; a cleanup counts only when its links are gone.
LEMMA ReturnKeepsClean ==
  ASSUME CleanInv, TypeOK', SoleMounter, NEW m \in Mounter, Return(m),
         UNCHANGED links,
         \A j \in Job : row'[j].pinned = row[j].pinned /\ row'[j].hidden = row[j].hidden,
         \A j \in Job : cleaned'[j]
                        => cleaned[j] \/ (row[j].hidden /\ links[j] = {})
  PROVE  CleanInv'
<1>1. Mounter = {m} /\ pc'[m] = "idle"
  BY DEF SoleMounter, Return, CleanInv, TypeOK
<1> QED
  BY <1>1 DEF CleanInv, NoFolderNoLinks, CleanedHidden, Unstaging, Verifying

LEMMA CleanInvStep ==
  ASSUME CleanInv, [Next]_vars, SoleMounter
  PROVE  CleanInv'
<1> USE DEF CleanInv
<1>1. TypeOK'
  BY TypeStep
<1>2. ASSUME NEW m \in Mounter, NEW j \in Job, ClaimGatewayMount(m, j)
      PROVE  CleanInv'
  <2>1. UNCHANGED <<row, links, cleaned>>
    BY <1>2 DEF ClaimGatewayMount, clientVars
  <2>2. Verify(m, j, row'[j]) \/ CleanUp(m, j, row'[j])
    BY <1>2, <2>1 DEF ClaimGatewayMount
  <2> QED
    BY <1>1, <2>1, <2>2, PassKeepsClean
<1>3. ASSUME NEW m \in Mounter, PinGatewayReleaseFolder(m)
      PROVE  CleanInv'
  <2>1. held[m] \in Job /\ row[held[m]] \in MountRow
    BY <1>3 DEF PinGatewayReleaseFolder, TypeOK
  <2>2. UNCHANGED <<links, cleaned>>
    BY <1>3 DEF PinGatewayReleaseFolder, clientVars
  <2>3. CASE Pinnable(row[held[m]], copy[m])
    <3>1. /\ row'[held[m]] = PinnedRow(row[held[m]])
          /\ \A i \in Job \ {held[m]} : row'[i] = row[i]
          /\ Verify(m, held[m], PinnedRow(row[held[m]]))
      BY <1>3, <2>1, <2>3 DEF PinGatewayReleaseFolder, TypeOK
    <3> QED
      BY <1>1, <2>1, <2>2, <3>1, StatementColumns, PassKeepsClean
  <2>4. CASE ~Pinnable(row[held[m]], copy[m])
    BY <1>1, <1>3, <2>2, <2>4, ReturnKeepsClean DEF PinGatewayReleaseFolder
  <2> QED
    BY <2>3, <2>4
<1>4. ASSUME NEW m \in Mounter, StageLink(m) \/ UnstageLink(m) \/ Probe(m)
      PROVE  CleanInv'
  BY <1>1, <1>4, LinkKeepsClean
<1>5. ASSUME NEW m \in Mounter, FinishGatewayMount(m)
      PROVE  CleanInv'
  <2>1. /\ held[m] \in Job /\ row[held[m]] \in MountRow /\ copy[m] \in MountRow
        /\ row' = [row EXCEPT ![held[m]] = VerifiedMountRow(@, copy[m])]
        /\ Return(m) /\ UNCHANGED <<links, cleaned>>
    BY <1>5 DEF FinishGatewayMount, TypeOK, clientVars
  <2>2. \A j \in Job : row'[j].pinned = row[j].pinned /\ row'[j].hidden = row[j].hidden
    BY <2>1, StatementColumns DEF TypeOK
  <2> QED
    BY <1>1, <2>1, <2>2, ReturnKeepsClean
<1>6. ASSUME NEW m \in Mounter, FinishGatewayCleanup(m)
      PROVE  CleanInv'
  <2>1. /\ held[m] \in Job /\ row[held[m]] \in MountRow /\ copy[m] \in MountRow
        /\ row' = [row EXCEPT ![held[m]] = CleanedRow(@, copy[m])]
        /\ Return(m) /\ UNCHANGED links /\ links[held[m]] = {}
    BY <1>6 DEF FinishGatewayCleanup, TypeOK, Unstaging
  <2>2. \A j \in Job : row'[j].pinned = row[j].pinned /\ row'[j].hidden = row[j].hidden
    BY <2>1, StatementColumns DEF TypeOK
  <2>3. row[held[m]].cleanup /\ ~row'[held[m]].cleanup => row[held[m]].hidden
    BY <2>1, StatementColumns DEF TypeOK
  <2>4. \A j \in Job : cleaned'[j]
                      => cleaned[j] \/ (row[j].hidden /\ links[j] = {})
    <3>1. \A j \in Job \ {held[m]} : cleaned'[j] = cleaned[j]
      BY <1>6 DEF FinishGatewayCleanup, TypeOK
    <3>2. cleaned'[held[m]]
            => cleaned[held[m]] \/ (row[held[m]].cleanup /\ ~row'[held[m]].cleanup)
      BY <1>6, <2>1, Zenon DEF FinishGatewayCleanup, TypeOK
    <3> QED
      BY <2>1, <2>3, <3>1, <3>2
  <2> QED
    BY <1>1, <2>1, <2>2, <2>4, ReturnKeepsClean
<1>7. ASSUME NEW m \in Mounter, GiveUp(m)
      PROVE  CleanInv'
  BY <1>1, <1>7, ReturnKeepsClean DEF GiveUp, clientVars
<1>8. ASSUME NEW j \in Job,
             \/ LeaseExpires(j) \/ ObserveProvider(j) \/ AbandonObservation(j)
             \/ UpdateGatewayJob(j)
             \/ AddAgain(j) \/ HideGatewayJob(j) \/ RequestGatewayCleanup(j)
      PROVE  CleanInv'
  <2>1. UNCHANGED <<links, pc, held, todo>>
    BY <1>8 DEF LeaseExpires, ObserveProvider, AbandonObservation, UpdateGatewayJob,
       AddAgain, HideGatewayJob, RequestGatewayCleanup, mounterVars
  <2>2. row[j] \in MountRow
    BY DEF TypeOK
  <2>3. \A i \in Job \ {j} : row'[i] = row[i] /\ cleaned'[i] = cleaned[i]
    BY <1>8 DEF LeaseExpires, ObserveProvider, AbandonObservation, UpdateGatewayJob,
       AddAgain, HideGatewayJob, RequestGatewayCleanup, clientVars,
       TypeOK
  <2>4. /\ row'[j].pinned = row[j].pinned
        /\ cleaned'[j] => cleaned[j] /\ (row[j].hidden => row'[j].hidden)
    <3>1. CASE LeaseExpires(j) \/ ObserveProvider(j) \/ AbandonObservation(j)
      BY <3>1 DEF LeaseExpires, ObserveProvider, AbandonObservation, clientVars
    <3>2. CASE UpdateGatewayJob(j)
      <4>1. PICK s \in Outcomes(seen[j]), same \in BOOLEAN :
              /\ s # "none"
              /\ row' = [row EXCEPT ![j] = PublishedRow(@, s, same)]
        BY <3>2 DEF UpdateGatewayJob, Outcomes
      <4>2. s \in State /\ row'[j] = PublishedRow(row[j], s, same)
        BY <4>1, OutcomeTypes DEF TypeOK
      <4>3. UNCHANGED cleaned
        BY <3>2 DEF UpdateGatewayJob, clientVars
      <4> QED
        BY <2>2, <4>2, <4>3, StatementColumns
    <3>3. CASE AddAgain(j)
      <4>1. ~cleaned'[j] /\ row'[j] = AddedAgainRow(row[j])
        BY <3>3 DEF AddAgain, TypeOK
      <4> QED
        BY <2>2, <4>1, StatementColumns
    <3>4. CASE HideGatewayJob(j) \/ RequestGatewayCleanup(j)
      <4>1. /\ row'[j] \in {HiddenRow(row[j]), CleanupRow(row[j])}
            /\ UNCHANGED cleaned
        BY <3>4 DEF HideGatewayJob, RequestGatewayCleanup, TypeOK
      <4> QED
        BY <2>2, <4>1, StatementColumns
    <3> QED
      BY <1>8, <3>1, <3>2, <3>3, <3>4
  <2> QED
    BY <1>1, <2>1, <2>3, <2>4, OthersKeepClean
<1>9. CASE UNCHANGED vars
  BY <1>1, <1>9, OthersKeepClean DEF vars
<1> QED
  BY <1>2, <1>3, <1>4, <1>5, <1>6, <1>7, <1>8, <1>9 DEF Next, MounterStep

\* With one mounter, nothing is staged for a job whose cleanup is done.
THEOREM CleanupComplete ==
  ASSUME \E m : Mounter = {m}
  PROVE  Spec => []CleanupLeavesNothing
<1>1. SoleMounter
  BY DEF SoleMounter
<1>2. CleanInv /\ [Next]_vars => CleanInv'
  BY <1>1, CleanInvStep
<1>3. CleanInv => CleanupLeavesNothing
  BY DEF CleanInv, CleanedHidden, CleanupLeavesNothing
<1> QED
  BY <1>2, <1>3, CleanInvInit, PTL DEF Spec
================================================================================
