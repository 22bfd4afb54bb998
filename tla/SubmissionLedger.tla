---------------------------- MODULE SubmissionLedger ----------------------------
(***************************************************************************)
(* What the gateway promises of a job's submissions, whatever the number   *)
(* of replicas: an attempt is charged to one worker before anything is     *)
(* sent, and that worker then uploads once for it, gives it back, or loses *)
(* it.  Nothing else charges, uploads or gives back.  GatewayWorker        *)
(* implements this.                                                        *)
(***************************************************************************)
EXTENDS Naturals

CONSTANTS Job, Worker, MaxAttempts

VARIABLES
  attempts,   \* attempts[j]: what job j has been charged
  reserved,   \* reserved[j]: the workers with an attempt of j still unspent
  uploads     \* uploads[j]: submissions of j that reached the provider

ledger == <<attempts, reserved, uploads>>

LedgerInit ==
  /\ attempts = [j \in Job |-> 0]
  /\ reserved = [j \in Job |-> {}]
  /\ uploads = [j \in Job |-> 0]

Reserve(j, w) ==
  /\ attempts[j] < MaxAttempts
  /\ \A k \in Job : w \notin reserved[k]
  /\ attempts' = [attempts EXCEPT ![j] = @ + 1]
  /\ reserved' = [reserved EXCEPT ![j] = @ \cup {w}]
  /\ UNCHANGED uploads

\* The end of a reservation.
Release(j, w) ==
  /\ w \in reserved[j]
  /\ reserved' = [reserved EXCEPT ![j] = @ \ {w}]

Upload(j, w) ==
  /\ Release(j, w)
  /\ uploads' = [uploads EXCEPT ![j] = @ + 1]
  /\ UNCHANGED attempts

GiveBack(j, w) ==
  /\ Release(j, w)
  /\ attempts[j] > 0
  /\ attempts' = [attempts EXCEPT ![j] = @ - 1]
  /\ UNCHANGED uploads

\* The placement was there already, or the pass ended before it sent anything.
Lose(j, w) == Release(j, w) /\ UNCHANGED <<attempts, uploads>>

LedgerNext ==
  \E j \in Job, w \in Worker :
    Reserve(j, w) \/ Upload(j, w) \/ GiveBack(j, w) \/ Lose(j, w)

LedgerSpec == LedgerInit /\ [][LedgerNext]_ledger
================================================================================
