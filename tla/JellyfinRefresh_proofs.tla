-------------------------- MODULE JellyfinRefresh_proofs --------------------------
(***************************************************************************)
(* Proofs about the refreshes of one path, for any number of calls and any *)
(* intervals.                                                              *)
(*                                                                         *)
(*   ScansApart             RefreshSpec => ScansSpaced                     *)
(*                                                                         *)
(* Two things keep scans apart.  The reservation outlasts the task that    *)
(* made it, so there is one task at a time; and a task that was let go on  *)
(* after a scan found no success younger than the window, while the        *)
(* success of that scan is never older than the scan itself.               *)
(***************************************************************************)
EXTENDS JellyfinRefresh, TLAPS

TaskState == [step : {"idle", "check", "delay", "request", "record"}, left : Nat]
Active(k) == k.step # "idle"

\* The ticks a task may still take.
Remaining(k) == CASE k.step = "check" -> Delay + TimeLimit
                  [] k.step = "delay" -> k.left + TimeLimit
                  [] OTHER            -> k.left

\* What holds of a task, given the reservation and the last scan.
TaskOk(k, reserved, scanned) ==
  /\ k \in TaskState
  /\ k.step \in {"idle", "check"} => k.left = 0
  /\ Active(k) => Remaining(k) < reserved
  /\ k.step \in {"delay", "request"} => scanned = Dedupe

SpacingInv ==
  /\ noteAge \in 0 .. Dedupe /\ scanAge \in 0 .. Dedupe /\ reservedFor \in 0 .. Dedupe
  /\ task \in [Task -> TaskState]
  /\ \A t \in Task : TaskOk(task[t], reservedFor, scanAge)
  /\ \A t, u \in Task : Active(task[t]) /\ Active(task[u]) => t = u
  /\ noteAge <= scanAge \/ \E t \in Task : task[t].step = "record"

LEMMA NoTaskOk ==
  ASSUME NEW reserved, NEW scanned
  PROVE  NoTask \in TaskState /\ ~Active(NoTask) /\ TaskOk(NoTask, reserved, scanned)
  BY DEF NoTask, TaskState, Active, TaskOk

\* A task that is over asks nothing of the reservation and the scan.
LEMMA IdleTaskOk ==
  ASSUME NEW k, NEW r, NEW s, TaskOk(k, r, s), ~Active(k), NEW r2, NEW s2
  PROVE  TaskOk(k, r2, s2)
  BY DEF TaskOk, Active

\* The one active task goes on to k; the others are over.
LEMMA TaskMoves ==
  ASSUME SpacingInv, NEW t \in Task, NEW k \in TaskState, task' = [task EXCEPT ![t] = k],
         \A u \in Task \ {t} : ~Active(task[u]),
         noteAge' \in 0 .. Dedupe, scanAge' \in 0 .. Dedupe, reservedFor' \in 0 .. Dedupe,
         TaskOk(k, reservedFor', scanAge'),
         noteAge' <= scanAge' \/ k.step = "record"
  PROVE  SpacingInv'
<1>1. \A u \in Task : task'[u] = IF u = t THEN k ELSE task[u]
  BY DEF SpacingInv
<1>2. task' \in [Task -> TaskState]
  BY DEF SpacingInv
<1>3. ASSUME NEW u \in Task
      PROVE  TaskOk(task'[u], reservedFor', scanAge')
  <2>1. u # t => ~Active(task[u]) /\ TaskOk(task[u], reservedFor, scanAge)
    BY DEF SpacingInv
  <2>2. u # t => TaskOk(task[u], reservedFor', scanAge')
    BY <2>1, IdleTaskOk
  <2> QED
    BY <1>1, <2>2
<1>4. \A u, v \in Task : Active(task'[u]) /\ Active(task'[v]) => u = v
  BY <1>1
<1>5. noteAge' <= scanAge' \/ \E u \in Task : task'[u].step = "record"
  BY <1>1
<1> QED
  BY <1>2, <1>3, <1>4, <1>5 DEF SpacingInv

\* The tasks, the reservation and the scan stay; a success may come.
LEMMA OnlyNotes ==
  ASSUME SpacingInv, UNCHANGED <<task, reservedFor, scanAge>>,
         noteAge' = noteAge \/ noteAge' = 0
  PROVE  SpacingInv'
<1>1. noteAge' \in 0 .. Dedupe /\ (noteAge <= scanAge => noteAge' <= scanAge')
  BY RefreshConstants DEF SpacingInv
<1> QED
  BY <1>1 DEF SpacingInv

LEMMA SpacingTypes ==
  ASSUME SpacingInv
  PROVE  /\ noteAge \in 0 .. Dedupe /\ scanAge \in 0 .. Dedupe /\ reservedFor \in 0 .. Dedupe
         /\ Dedupe \in Nat /\ Delay \in Nat /\ TimeLimit \in Nat
         /\ Delay + TimeLimit < Dedupe /\ 0 < Dedupe
  BY RefreshConstants DEF SpacingInv

LEMMA ScheduleSafe ==
  ASSUME SpacingInv, NEW t \in Task, Schedule(t), UNCHANGED <<noteAge, scanAge>>
  PROVE  SpacingInv'
<1>1. CASE UNCHANGED <<task, reservedFor>>
  BY <1>1, OnlyNotes
<1>2. CASE reservedFor = 0 /\ reservedFor' = Dedupe /\ TaskGoto(t, "check", 0)
  <2> DEFINE k == [step |-> "check", left |-> 0]
  <2>1. k \in TaskState /\ task' = [task EXCEPT ![t] = k]
    BY <1>2 DEF TaskState, TaskGoto
  <2>2. \A u \in Task : ~Active(task[u])
    <3> SUFFICES ASSUME NEW u \in Task, Active(task[u]) PROVE FALSE
      OBVIOUS
    <3>1. Remaining(task[u]) < 0 /\ task[u] \in TaskState
      BY <1>2 DEF SpacingInv, TaskOk
    <3>2. Remaining(task[u]) \in Nat
      BY <3>1, SpacingTypes DEF Remaining, TaskState
    <3> QED
      BY <3>1, <3>2
  <2>3. TaskOk(k, reservedFor', scanAge')
    BY <2>1, <1>2, SpacingTypes DEF TaskOk, Active, Remaining
  <2>4. noteAge' <= scanAge'
    BY <2>2 DEF SpacingInv, Active
  <2>5. /\ noteAge' \in 0 .. Dedupe /\ scanAge' \in 0 .. Dedupe
        /\ reservedFor' \in 0 .. Dedupe
    BY <1>2, SpacingTypes
  <2> HIDE DEF k
  <2> QED
    BY <2>1, <2>2, <2>3, <2>4, <2>5, TaskMoves
<1> QED
  BY <1>1, <1>2 DEF Schedule

\* What is known when the active task t takes its step.
LEMMA ActiveTask ==
  ASSUME SpacingInv, NEW t \in Task, task[t].step # "idle"
  PROVE  /\ task[t] \in TaskState /\ TaskOk(task[t], reservedFor, scanAge)
         /\ task[t].left \in Nat
         /\ \A u \in Task \ {t} : ~Active(task[u])
         /\ task[t].step # "record" => noteAge <= scanAge
<1>1. \A u \in Task \ {t} : ~Active(task[u])
  BY DEF SpacingInv, Active
<1>2. \A u \in Task \ {t} : task[u].step # "record"
  BY <1>1 DEF Active
<1> QED
  BY <1>1, <1>2 DEF SpacingInv, TaskState

\* A task that ends, having recorded its scan or not made one.
LEMMA EndSafe ==
  ASSUME SpacingInv, NEW t \in Task, task[t].step # "idle", TaskEnds(t),
         noteAge' \in 0 .. Dedupe, scanAge' \in 0 .. Dedupe, reservedFor' \in 0 .. Dedupe,
         noteAge' <= scanAge'
  PROVE  SpacingInv'
<1>1. task' = [task EXCEPT ![t] = NoTask]
  BY DEF TaskEnds, TaskGoto, NoTask
<1> QED
  BY <1>1, ActiveTask, NoTaskOk, TaskMoves

LEMMA TaskStepSafe ==
  ASSUME SpacingInv, NEW t \in Task,
         \/ TaskStep(t) \/ CheckFails(t) \/ RefreshSkipped(t)
         \/ PathRefreshFails(t) \/ RecordLost(t)
  PROVE  SpacingInv'
<1>1. CASE task[t].step = "check" /\ TaskGoto(t, "delay", Delay)
           /\ UNCHANGED <<noteAge, reservedFor>>
           /\ (scanAge' = Dedupe \/ (~RecentSuccess(noteAge) /\ scanAge' = scanAge))
  <2> DEFINE k == [step |-> "delay", left |-> Delay]
  <2>1. k \in TaskState /\ task' = [task EXCEPT ![t] = k]
    BY <1>1, SpacingTypes DEF TaskState, TaskGoto
  <2>2. scanAge' = Dedupe
    BY <1>1, ActiveTask, SpacingTypes DEF RecentSuccess
  <2>3. Delay + TimeLimit < reservedFor
    BY <1>1, ActiveTask DEF TaskOk, Active, Remaining
  <2>4. TaskOk(k, reservedFor', scanAge')
    BY <1>1, <2>1, <2>2, <2>3 DEF TaskOk, Active, Remaining
  <2>5. /\ noteAge' \in 0 .. Dedupe /\ scanAge' \in 0 .. Dedupe
        /\ reservedFor' \in 0 .. Dedupe /\ noteAge' <= scanAge'
    BY <1>1, <2>2, SpacingTypes
  <2> HIDE DEF k
  <2> QED
    BY <1>1, <2>1, <2>4, <2>5, ActiveTask, TaskMoves
<1>2. CASE task[t].step = "check" /\ TaskEnds(t) /\ reservedFor' = 0
           /\ UNCHANGED <<noteAge, scanAge>>
  BY <1>2, ActiveTask, SpacingTypes, EndSafe
<1>3. CASE DelayOver(t)
  <2> DEFINE k == [step |-> "request", left |-> TimeLimit]
  <2>1. k \in TaskState /\ task' = [task EXCEPT ![t] = k]
    BY <1>3, SpacingTypes DEF TaskState, TaskGoto, DelayOver
  <2>2. /\ task[t].step = "delay" /\ task[t].left = 0
        /\ UNCHANGED <<noteAge, reservedFor, scanAge>>
    BY <1>3 DEF DelayOver
  <2>3. scanAge = Dedupe /\ 0 + TimeLimit < reservedFor
    BY <2>2, ActiveTask DEF TaskOk, Active, Remaining
  <2>4. TaskOk(k, reservedFor', scanAge')
    BY <2>1, <2>2, <2>3, SpacingTypes DEF TaskOk, Active, Remaining
  <2>5. noteAge' <= scanAge'
    BY <2>2, ActiveTask
  <2> HIDE DEF k
  <2> QED
    BY <2>1, <2>2, <2>4, <2>5, SpacingTypes, ActiveTask, TaskMoves
<1>4. CASE RefreshSkipped(t) \/ PathRefreshFails(t)
  <2>1. /\ task[t].step \in {"delay", "request"} /\ TaskEnds(t)
        /\ UNCHANGED <<noteAge, reservedFor, scanAge>>
    BY <1>4 DEF RefreshSkipped, PathRefreshFails
  <2> QED
    BY <2>1, ActiveTask, SpacingTypes, EndSafe
<1>5. CASE PathRefreshed(t)
  <2> DEFINE k == [step |-> "record", left |-> task[t].left]
  <2>1. /\ task[t].step = "request" /\ scanAge' = 0 /\ task' = [task EXCEPT ![t] = k]
        /\ UNCHANGED <<noteAge, reservedFor>>
    BY <1>5 DEF PathRefreshed, TaskGoto
  <2>2. k \in TaskState
    BY <2>1, ActiveTask DEF TaskState
  <2>3. TaskOk(k, reservedFor', scanAge')
    BY <2>1, <2>2, ActiveTask DEF TaskOk, Active, Remaining
  <2>4. /\ noteAge' \in 0 .. Dedupe /\ scanAge' \in 0 .. Dedupe
        /\ reservedFor' \in 0 .. Dedupe /\ k.step = "record"
    BY <2>1, SpacingTypes
  <2> HIDE DEF k
  <2> QED
    BY <2>1, <2>2, <2>3, <2>4, ActiveTask, TaskMoves
<1>6. CASE RefreshRecorded(t) \/ RecordLost(t)
  <2>1. /\ task[t].step = "record" /\ TaskEnds(t) /\ reservedFor' = reservedFor
        /\ \/ noteAge' = 0 /\ scanAge' = scanAge
           \/ noteAge' = noteAge /\ scanAge' = Dedupe
    BY <1>6 DEF RefreshRecorded, RecordLost, Noted, eventVars
  <2> QED
    BY <2>1, SpacingTypes, EndSafe
<1>7. CASE CheckRecent(t) \/ CheckFails(t)
  BY <1>7, <1>1, <1>2 DEF CheckRecent, CheckFails
<1> QED
  BY <1>3, <1>4, <1>5, <1>6, <1>7 DEF TaskStep

LEMMA TickSafe ==
  ASSUME SpacingInv, RefreshTick
  PROVE  SpacingInv'
<1>1. /\ noteAge' = Older(noteAge, Dedupe) /\ scanAge' = Older(scanAge, Dedupe)
      /\ reservedFor' = Minus(reservedFor)
      /\ task' = [t \in Task |-> [task[t] EXCEPT !.left = Minus(@)]]
  BY DEF RefreshTick
<1>2. /\ noteAge' \in 0 .. Dedupe /\ scanAge' \in 0 .. Dedupe /\ reservedFor' \in 0 .. Dedupe
      /\ noteAge <= scanAge => noteAge' <= scanAge'
      /\ scanAge = Dedupe => scanAge' = Dedupe
  BY <1>1, SpacingTypes DEF Older, Minus
<1>3. ASSUME NEW t \in Task
      PROVE  /\ task'[t] \in TaskState /\ task'[t].step = task[t].step
             /\ TaskOk(task'[t], reservedFor', scanAge')
  <2>1. task[t] \in TaskState /\ TaskOk(task[t], reservedFor, scanAge) /\ task[t].left \in Nat
    BY DEF SpacingInv, TaskState
  <2>2. task'[t] = [task[t] EXCEPT !.left = Minus(@)]
    BY <1>1
  <2>3. Minus(task[t].left) \in Nat
    BY <2>1 DEF Minus
  <2>4. /\ task'[t] \in TaskState /\ task'[t].step = task[t].step
        /\ task'[t].left = Minus(task[t].left)
    BY <2>1, <2>2, <2>3 DEF TaskState
  <2>5. CASE ~Active(task[t])
    BY <2>1, <2>4, <2>5 DEF TaskOk, Active, Minus
  <2>6. CASE Active(task[t])
    <3>1. task[t].left > 0 /\ task[t].step # "check"
      BY <2>1, <2>6 DEF RefreshTick, Active, TaskOk
    <3>2. task'[t].left = task[t].left - 1
      BY <2>1, <2>4, <3>1 DEF Minus
    <3>3. Remaining(task'[t]) = Remaining(task[t]) - 1 /\ Remaining(task[t]) \in Nat
      BY <2>1, <2>4, <3>1, <3>2, SpacingTypes DEF Remaining
    <3>4. Remaining(task[t]) < reservedFor
      BY <2>1, <2>6 DEF TaskOk
    <3>5. Remaining(task'[t]) < reservedFor'
      BY <1>1, <3>3, <3>4, SpacingTypes DEF Minus
    <3> QED
      BY <1>2, <2>1, <2>4, <2>6, <3>1, <3>5 DEF TaskOk, Active
  <2> QED
    BY <2>4, <2>5, <2>6
<1>4. task' \in [Task -> TaskState]
  BY <1>1, <1>3
<1>5. \A t, u \in Task : Active(task'[t]) /\ Active(task'[u]) => t = u
  BY <1>3 DEF SpacingInv, Active
<1>6. noteAge' <= scanAge' \/ \E t \in Task : task'[t].step = "record"
  BY <1>2, <1>3 DEF SpacingInv
<1> QED
  BY <1>2, <1>3, <1>4, <1>5, <1>6 DEF SpacingInv

LEMMA SpacingStep ==
  ASSUME SpacingInv, [RefreshNext]_refreshVars
  PROVE  SpacingInv'
<1>1. CASE UNCHANGED refreshVars
  BY <1>1, OnlyNotes DEF refreshVars
<1>2. ASSUME NEW t \in Task, Rehydrated(t) \/ ImportObserved(t)
      PROVE  SpacingInv'
  BY <1>2, ScheduleSafe DEF Rehydrated, ImportObserved
<1>3. CASE SelfHealPass
  <2>1. /\ UNCHANGED <<noteAge, scanAge>>
        /\ UNCHANGED <<task, reservedFor>> \/ \E t \in Task : Schedule(t)
    BY <1>3 DEF SelfHealPass
  <2> QED
    BY <2>1, ScheduleSafe, OnlyNotes
<1>4. CASE PlayIntended \/ InventoryStep \/ InventoryBreaks \/ JellyfinForgets
  <2>1. /\ UNCHANGED <<task, reservedFor, scanAge>>
        /\ noteAge' = noteAge \/ noteAge' = 0
    BY <1>4 DEF PlayIntended, InventoryStep, InventoryMissing, Claim, InventoryRefreshed,
                InventoryRecorded, InventoryBreaks, JellyfinForgets, Noted
  <2> QED
    BY <2>1, OnlyNotes
<1>5. CASE ControllerRestarts
  <2>1. /\ task' = [t \in Task |-> NoTask] /\ reservedFor' = 0 /\ scanAge' = Dedupe
        /\ noteAge' = noteAge
    BY <1>5 DEF ControllerRestarts
  <2>2. /\ noteAge' \in 0 .. Dedupe /\ scanAge' \in 0 .. Dedupe /\ reservedFor' \in 0 .. Dedupe
        /\ noteAge' <= scanAge'
    BY <2>1, SpacingTypes
  <2> QED
    BY <2>1, <2>2, NoTaskOk DEF SpacingInv
<1> QED
  BY <1>1, <1>2, <1>3, <1>4, <1>5, TaskStepSafe, TickSafe DEF RefreshNext

(***************************************************************************)
(* The path is scanned for tasks once in a dedupe window (ScansSpaced),    *)
(* for any delays and limits with Delay + TimeLimit < Dedupe.              *)
(***************************************************************************)
THEOREM ScansApart == RefreshSpec => ScansSpaced
<1>1. RefreshInit => SpacingInv
  <2> SUFFICES ASSUME RefreshInit PROVE SpacingInv
    OBVIOUS
  <2>1. /\ noteAge \in 0 .. Dedupe /\ scanAge \in 0 .. Dedupe /\ reservedFor \in 0 .. Dedupe
        /\ noteAge <= scanAge
    BY RefreshConstants DEF RefreshInit
  <2> QED
    BY <2>1, NoTaskOk DEF RefreshInit, SpacingInv
<1>2. SpacingInv /\ [RefreshNext]_refreshVars => SpacingInv'
  BY SpacingStep
<1>3. SpacingInv => [\A t \in Task : PathRefreshed(t) => scanAge = Dedupe]_refreshVars
  BY DEF SpacingInv, TaskOk, PathRefreshed
<1> QED
  BY <1>1, <1>2, <1>3, PTL DEF RefreshSpec, ScansSpaced
================================================================================
