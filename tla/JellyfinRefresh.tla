------------------------------ MODULE JellyfinRefresh ------------------------------
(***************************************************************************)
(* When Jellyfin is asked to scan the path of one available row: after a   *)
(* rearm or an import (scheduleJellyfinRefresh), again by the self-heal    *)
(* pass when no success followed, and by the inventory pass when Jellyfin  *)
(* does not list the path.  Reservations are in memory, successes and      *)
(* inventory claims in the database; a delay and a limit of requests at    *)
(* once, shared with other rows, lie between them.                         *)
(*                                                                         *)
(* Time is in ticks.  Statements and lookups take none, a delay and a      *)
(* request their own, and the self-heal pass comes when it is due.         *)
(***************************************************************************)
EXTENDS Naturals

CONSTANTS
  Task,       \* calls of scheduleJellyfinRefresh, with their goroutines
  Dedupe,     \* RefreshDedupeMinutes
  Delay,      \* RefreshDelaySeconds
  TimeLimit,  \* TimeoutSeconds
  Recent,     \* SelfHealRecentHours
  HealEvery,  \* SelfHealInterval
  Cooldown    \* CooldownMinutes of the inventory

ASSUME RefreshConstants ==
  /\ Delay \in Nat /\ TimeLimit \in Nat /\ HealEvery \in Nat \ {0} /\ Cooldown \in Nat
  /\ Dedupe \in Nat /\ Dedupe > Delay + TimeLimit
  /\ Recent \in Nat /\ Recent > Dedupe + 2 * HealEvery + Delay + TimeLimit

VARIABLES
  eventAge,    \* since last_rehydrated and last_play_intent_at; Recent: long ago
  noted,       \* a success is recorded since then
  noteAge,     \* since a success was last recorded; Dedupe: long ago
  reservedFor, \* what is left of the reservation in jellyfinRefreshDedupe
  task,
  healIn,      \* until the self-heal pass
  indexed,     \* Jellyfin lists the path
  claimFor,    \* what is left of the inventory's cooldown
  sync,        \* the inventory pass
  scanAge      \* history: since a task's scan; Dedupe: long ago, or excused

refreshVars == <<eventAge, noted, noteAge, reservedFor, task, healIn, indexed,
                 claimFor, sync, scanAge>>
eventVars == <<eventAge, noted>>
inventoryVars == <<claimFor, sync>>

RefreshTypeOK ==
  /\ eventAge \in 0 .. Recent /\ noted \in BOOLEAN
  /\ noteAge \in 0 .. Dedupe /\ scanAge \in 0 .. Dedupe
  /\ reservedFor \in 0 .. Dedupe /\ healIn \in 0 .. HealEvery
  /\ task \in [Task -> [step : {"idle", "check", "delay", "request", "record"},
                        left : 0 .. Delay + TimeLimit]]
  /\ indexed \in BOOLEAN
  /\ claimFor \in 0 .. Cooldown /\ sync \in {"idle", "claim", "request", "record"}

NoTask == [step |-> "idle", left |-> 0]

RefreshInit ==
  /\ eventAge = Recent /\ noted = FALSE /\ noteAge = Dedupe /\ scanAge = Dedupe
  /\ reservedFor = 0 /\ healIn = 0
  /\ task = [t \in Task |-> NoTask]
  /\ indexed = TRUE /\ claimFor = 0 /\ sync = "idle"

TaskGoto(t, step, left) == task' = [task EXCEPT ![t] = [step |-> step, left |-> left]]
TaskEnds(t) == TaskGoto(t, "idle", 0)

--------------------------------------------------------------------------------
\* What asks for a refresh.  A rearm that succeeds and a play intent start the
\* self-heal window; an import does not.

\* reserveJellyfinRefresh, in memory.
Schedule(t) ==
  \/ reservedFor > 0 /\ UNCHANGED <<task, reservedFor>>
  \/ /\ reservedFor = 0 /\ reservedFor' = Dedupe
     /\ task[t].step = "idle" /\ TaskGoto(t, "check", 0)

Rehydrated(t) ==
  /\ Schedule(t)
  /\ eventAge' = 0 /\ noted' = FALSE
  /\ UNCHANGED <<noteAge, healIn, indexed, inventoryVars, scanAge>>

ImportObserved(t) ==
  /\ Schedule(t)
  /\ UNCHANGED <<eventVars, noteAge, healIn, indexed, inventoryVars, scanAge>>

\* Or a rearm, after which the process stops.
PlayIntended ==
  /\ eventAge' = 0 /\ noted' = FALSE
  /\ UNCHANGED <<noteAge, reservedFor, task, healIn, indexed, inventoryVars, scanAge>>

\* Mutation of HealCandidate: the window is that of the reservations.
HealCandidateSoon(age, done) == age < Dedupe /\ ~done

\* JellyfinSelfHealWorkItems: no success is as young as the event.
HealCandidate(age, done) == age < Recent /\ ~done

SelfHealPass ==
  /\ healIn = 0 /\ healIn' = HealEvery
  /\ IF HealCandidate(eventAge, noted) THEN \E t \in Task : Schedule(t)
     ELSE UNCHANGED <<task, reservedFor>>
  /\ UNCHANGED <<eventVars, noteAge, indexed, inventoryVars, scanAge>>

--------------------------------------------------------------------------------
\* The rest of scheduleJellyfinRefresh.

\* Mutation of RecentSuccess: the database is not asked.
RecentSuccessUnseen(age) == FALSE

RecentSuccess(age) == age < Dedupe

CheckRecent(t) ==
  /\ task[t].step = "check"
  /\ IF RecentSuccess(noteAge)
     THEN TaskEnds(t) /\ reservedFor' = 0
     ELSE TaskGoto(t, "delay", Delay) /\ UNCHANGED reservedFor
  /\ UNCHANGED <<eventVars, noteAge, healIn, indexed, inventoryVars, scanAge>>

\* The lookup fails, and the refresh goes on.
CheckFails(t) ==
  /\ task[t].step = "check" /\ TaskGoto(t, "delay", Delay)
  /\ scanAge' = Dedupe
  /\ UNCHANGED <<eventVars, noteAge, reservedFor, healIn, indexed, inventoryVars>>

DelayOver(t) ==
  /\ task[t].step = "delay" /\ task[t].left = 0 /\ TaskGoto(t, "request", TimeLimit)
  /\ UNCHANGED <<eventVars, noteAge, reservedFor, healIn, indexed, inventoryVars, scanAge>>

\* Every slot is taken, or a Usenet file is not readable yet; the reservation stays.
RefreshSkipped(t) ==
  /\ task[t].step = "delay" /\ task[t].left = 0 /\ TaskEnds(t)
  /\ UNCHANGED <<eventVars, noteAge, reservedFor, healIn, indexed, inventoryVars, scanAge>>

PathRefreshed(t) ==
  /\ task[t].step = "request" /\ TaskGoto(t, "record", task[t].left)
  /\ indexed' = TRUE /\ scanAge' = 0
  /\ UNCHANGED <<eventVars, noteAge, reservedFor, healIn, inventoryVars>>

\* The failure is recorded, or nothing is.
PathRefreshFails(t) ==
  /\ task[t].step = "request" /\ TaskEnds(t)
  /\ UNCHANGED <<eventVars, noteAge, reservedFor, healIn, indexed, inventoryVars, scanAge>>

Noted == noted' = TRUE /\ noteAge' = 0

RefreshRecorded(t) ==
  /\ task[t].step = "record" /\ TaskEnds(t) /\ Noted
  /\ UNCHANGED <<eventAge, reservedFor, healIn, indexed, inventoryVars, scanAge>>

\* The time limit of the request is over by then, or the statement fails.
RecordLost(t) ==
  /\ task[t].step = "record" /\ TaskEnds(t) /\ scanAge' = Dedupe
  /\ UNCHANGED <<eventVars, noteAge, reservedFor, healIn, indexed, inventoryVars>>

--------------------------------------------------------------------------------
\* reconcileJellyfinInventory, for a path the complete listing does not have.

InventoryMissing ==
  /\ sync = "idle" /\ ~indexed /\ sync' = "claim"
  /\ UNCHANGED <<eventVars, noteAge, reservedFor, task, healIn, indexed, claimFor, scanAge>>

\* Mutation of Claimed: a claim that is refused renews the cooldown.
ClaimedAgain(left) == Cooldown

\* Mutation of Claimed: a claim adds to what is left.
ClaimedLonger(left) == left + Cooldown

\* The cooldown after a claim.
Claimed(left) == IF left > 0 THEN left ELSE Cooldown

\* ClaimJellyfinInventory spends the cooldown before anything is asked.
Claim ==
  /\ sync = "claim"
  /\ sync' = IF claimFor > 0 THEN "idle" ELSE "request"
  /\ claimFor' = Claimed(claimFor)
  /\ UNCHANGED <<eventVars, noteAge, reservedFor, task, healIn, indexed, scanAge>>

InventoryRefreshed ==
  /\ sync = "request" /\ sync' = "record" /\ indexed' = TRUE
  /\ UNCHANGED <<eventVars, noteAge, reservedFor, task, healIn, claimFor, scanAge>>

InventoryRecorded ==
  /\ sync = "record" /\ sync' = "idle" /\ Noted
  /\ UNCHANGED <<eventAge, reservedFor, task, healIn, indexed, claimFor, scanAge>>

\* The request fails, the pass ends, or the row is no longer available.
InventoryBreaks ==
  /\ sync # "idle" /\ sync' = "idle"
  /\ UNCHANGED <<eventVars, noteAge, reservedFor, task, healIn, indexed, claimFor, scanAge>>

--------------------------------------------------------------------------------
\* Jellyfin no longer lists the path.
JellyfinForgets ==
  /\ indexed /\ indexed' = FALSE
  /\ UNCHANGED <<eventVars, noteAge, reservedFor, task, healIn, inventoryVars, scanAge>>

ControllerRestarts ==
  /\ task' = [t \in Task |-> NoTask] /\ reservedFor' = 0 /\ healIn' = 0
  /\ sync' = "idle" /\ scanAge' = Dedupe
  /\ UNCHANGED <<eventVars, noteAge, indexed, claimFor>>

Older(age, limit) == IF age < limit THEN age + 1 ELSE limit
Minus(n) == IF n > 0 THEN n - 1 ELSE 0

RefreshTick ==
  /\ healIn > 0
  /\ \A t \in Task : task[t].step # "idle" => task[t].left > 0
  /\ eventAge' = Older(eventAge, Recent)
  /\ noteAge' = Older(noteAge, Dedupe) /\ scanAge' = Older(scanAge, Dedupe)
  /\ reservedFor' = Minus(reservedFor) /\ claimFor' = Minus(claimFor)
  /\ healIn' = healIn - 1
  /\ task' = [t \in Task |-> [task[t] EXCEPT !.left = Minus(@)]]
  /\ UNCHANGED <<noted, indexed, sync>>

TaskStep(t) ==
  CheckRecent(t) \/ DelayOver(t) \/ PathRefreshed(t) \/ RefreshRecorded(t)

InventoryStep ==
  InventoryMissing \/ Claim \/ InventoryRefreshed \/ InventoryRecorded

RefreshNext ==
  \/ \E t \in Task : \/ Rehydrated(t) \/ ImportObserved(t) \/ TaskStep(t)
                     \/ CheckFails(t) \/ RefreshSkipped(t) \/ PathRefreshFails(t)
                     \/ RecordLost(t)
  \/ PlayIntended \/ SelfHealPass
  \/ InventoryStep \/ InventoryBreaks
  \/ JellyfinForgets \/ ControllerRestarts \/ RefreshTick

\* Goroutines run, tickers tick, and time passes whatever else happens.
RefreshFairness ==
  /\ \A t \in Task : WF_refreshVars(TaskStep(t))
  /\ SF_refreshVars(SelfHealPass) /\ SF_refreshVars(RefreshTick)
  /\ WF_refreshVars(InventoryMissing) /\ WF_refreshVars(Claim)
  /\ WF_refreshVars(InventoryRefreshed) /\ WF_refreshVars(InventoryRecorded)

RefreshSpec == RefreshInit /\ [][RefreshNext]_refreshVars
RefreshFairSpec == RefreshSpec /\ RefreshFairness

--------------------------------------------------------------------------------
\* The path is scanned for tasks once in a dedupe window, whichever of them
\* were reserved, checked, released or delayed meanwhile, unless the process
\* stopped or the database could not say so.
ScansSpaced ==
  [][\A t \in Task : PathRefreshed(t) => scanAge = Dedupe]_refreshVars

\* In the long run no rearm and no play intent leaves the self-heal window
\* without a success after it, although its own refresh may be dropped by the
\* reservation or the success of another.
RefreshTrouble ==
  /\ \/ \E t \in Task : RefreshSkipped(t) \/ PathRefreshFails(t) \/ RecordLost(t)
     \/ ControllerRestarts
  /\ ~(InventoryStep \/ \E t \in Task : TaskStep(t))
EventsNoted ==
  <>[][~RefreshTrouble]_refreshVars => <>[](eventAge = Recent - 1 => noted)

\* Once inventory passes run to their end, a path Jellyfin does not list is
\* scanned: the cooldown that a pass which failed or was stopped has spent
\* runs out.
InventoryTrouble ==
  /\ InventoryBreaks \/ ControllerRestarts
  /\ ~(InventoryStep \/ \E t \in Task : TaskStep(t))
MissingIndexed ==
  <>[][~InventoryTrouble]_refreshVars => (~indexed ~> indexed)
================================================================================
