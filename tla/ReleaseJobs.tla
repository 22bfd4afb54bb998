------------------------------- MODULE ReleaseJobs -------------------------------
(***************************************************************************)
(* What the controller may rely on of the gateway's job for a release,     *)
(* whatever the provider and the clients do.  A job is submitted again     *)
(* only when it is missing, and at most MaxRecoveries times; an unknown    *)
(* outcome is never submitted again; a failed job stays failed; and a job  *)
(* is completed only from work, never straight from Missing.  A completed  *)
(* job may go back to work without having been missing: its files were     *)
(* listed in another order and have to be verified again.                  *)
(*                                                                         *)
(* One provider worker (GatewayWorker) implements this, and the jobs of    *)
(* MediaLifecycle move by nothing else.  Queued stands for Submitting too, *)
(* and Working for every state between the submission and Completed.       *)
(***************************************************************************)
EXTENDS Naturals

CONSTANTS Release, MaxRecoveries

VARIABLES
  job,        \* job[r]: the state of r's job
  recoveries  \* recoveries[r]: times it was submitted again

jobs == <<job, recoveries>>

JobPhase == {"Absent", "Queued", "Working", "Completed", "Missing", "Unknown", "Failed"}

JobsTyped ==
  /\ job \in [Release -> JobPhase]
  /\ recoveries \in [Release -> 0 .. MaxRecoveries]

JobsInit ==
  /\ job = [r \in Release |-> "Absent"]
  /\ recoveries = [r \in Release |-> 0]

--------------------------------------------------------------------------------
Stays(r) == job'[r] = job[r] /\ recoveries'[r] = recoveries[r]

\* The moves that submit nothing again.
Move ==
  {<<"Absent", "Queued">>, <<"Queued", "Working">>, <<"Queued", "Unknown">>,
   <<"Unknown", "Working">>, <<"Working", "Completed">>, <<"Working", "Missing">>,
   <<"Completed", "Missing">>, <<"Completed", "Working">>,
   <<"Missing", "Working">>,
   <<"Queued", "Failed">>, <<"Working", "Failed">>, <<"Completed", "Failed">>,
   <<"Missing", "Failed">>}

Moves(r) == <<job[r], job'[r]>> \in Move /\ recoveries'[r] = recoveries[r]

Recovers(r) ==
  /\ job[r] = "Missing" /\ job'[r] = "Queued"
  /\ recoveries'[r] = recoveries[r] + 1

\* One statement may move several jobs: a claim sweeps all that are due.
JobsNext == JobsTyped' /\ \A r \in Release : Stays(r) \/ Moves(r) \/ Recovers(r)

JobsSpec == JobsInit /\ [][JobsNext]_jobs
================================================================================
