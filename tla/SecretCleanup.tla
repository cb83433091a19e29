--------------------------- MODULE SecretCleanup ---------------------------
(***************************************************************************)
(* Removal of an attempt's Secret once the attempt is over: the cleanup    *)
(* part of controller/runtime/runtime.go and the secret_cleanups row of    *)
(* store/operational.go.                                                   *)
(*                                                                         *)
(* Threads are the Job watch and the recovery loop, which observe the Job  *)
(* and decide whether the Secret may go, and the cleanup goroutines they   *)
(* start, which wait, check again and delete.  A step is one transaction   *)
(* or one API call.  The rest of the controller is external: while the     *)
(* attempt is not over it creates the Secret, registers it and creates the *)
(* Job, in this order and again after the Job is gone; a stale verdict may *)
(* end the attempt while a new Job runs (module Controller).               *)
(***************************************************************************)
EXTENDS Integers, Sequences

CONSTANTS
  Runs,        \* cleanup goroutines that exist at once
  NoRun,
  Passes,      \* loops over Jobs: "watch", the Job watch, and others, which list
  MaxJobs,     \* bound on the Jobs that bear the attempt's name
  MaxSecrets,  \* bound on the Secrets that bear the attempt's name
  MaxFaults    \* bound on API errors and crashes

ASSUME CleanupAssumption ==
  /\ NoRun \notin Runs /\ Runs \cap Passes = {}
  /\ MaxJobs \in Nat \ {0} /\ MaxSecrets \in Nat \ {0} /\ MaxFaults \in Nat

VARIABLES
  settled,  \* the attempt is READY, FAILED or CANCELLED
  job,      \* versions of Jobs under the name, how far the watch is, is the last one there?
  secret,   \* UIDs used under the name, and is the last one there, and ours?
  row,      \* secret_cleanups
  entry,    \* Runtime.cleanups: the goroutine of the attempt
  thread,   \* what each thread is doing
  faults

cleanupVars == <<settled, job, secret, row, entry, thread, faults>>

Threads == Passes \cup Runs

NoVersion == [uid |-> 0, finished |-> FALSE]
NoRow == [state |-> "none", generation |-> 1, jobUID |-> 0, secretUID |-> 0, eligible |-> FALSE]

(* pc; the Job version and the row it read; where it goes when it is        *)
(* blocked; of a run: the Job it was started for, the Secret it saw,        *)
(* whether it has bound it, and whether its context is cancelled.           *)
Idle == [pc |-> "idle", job |-> NoVersion, copy |-> NoRow, blocked |-> "idle",
         for |-> 0, seen |-> 0, bound |-> FALSE, cancelled |-> FALSE]

CleanupInit ==
  /\ settled = FALSE
  /\ job = [history |-> <<>>, watched |-> 0, here |-> FALSE]
  /\ secret = [uid |-> 0, here |-> FALSE, ours |-> FALSE]
  /\ row = NoRow
  /\ entry = NoRun
  /\ thread = [t \in Threads |-> Idle]
  /\ faults = 0

Current == IF job.history = <<>> THEN NoVersion ELSE job.history[Len(job.history)]
OwnSecret == secret.here /\ secret.ours
JobRunning == job.here /\ ~Current.finished

-----------------------------------------------------------------------------
(* The rest of the controller, Kubernetes and operators. *)

KeepThreads == UNCHANGED <<entry, thread, faults>>

(* EnsureSecret of ensureAttemptResources *)
CreateSecret ==
  /\ ~settled /\ ~secret.here /\ secret.uid < MaxSecrets
  /\ secret' = [uid |-> secret.uid + 1, here |-> TRUE, ours |-> TRUE]
  /\ UNCHANGED <<settled, job, row>> /\ KeepThreads

(* RegisterSecretCleanup: names never change, so a row that exists stays. *)
RegisterSecretCleanup ==
  /\ ~settled /\ OwnSecret
  /\ row' = IF row.state = "none" THEN [NoRow EXCEPT !.state = "open"] ELSE row
  /\ UNCHANGED <<settled, job, secret>> /\ KeepThreads

CreateJob ==
  /\ ~settled /\ OwnSecret /\ row.state # "none"
  /\ ~job.here /\ Current.uid < MaxJobs
  /\ job' = [job EXCEPT !.here = TRUE,
                        !.history = Append(@, [uid |-> Current.uid + 1, finished |-> FALSE])]
  /\ UNCHANGED <<settled, secret, row>> /\ KeepThreads

JobFinishes ==
  /\ JobRunning
  /\ job' = [job EXCEPT !.history = Append(@, [uid |-> Current.uid, finished |-> TRUE])]
  /\ UNCHANGED <<settled, secret, row>> /\ KeepThreads

JobRemoved ==
  /\ job.here /\ job' = [job EXCEPT !.here = FALSE]
  /\ UNCHANGED <<settled, secret, row>> /\ KeepThreads

Settle ==
  /\ ~settled /\ settled' = TRUE
  /\ UNCHANGED <<job, secret, row>> /\ KeepThreads

(* Somebody puts a Secret of his own in the place of ours. *)
ReplaceSecret ==
  /\ OwnSecret /\ secret.uid < MaxSecrets
  /\ secret' = [uid |-> secret.uid + 1, here |-> TRUE, ours |-> FALSE]
  /\ UNCHANGED <<settled, job, row>> /\ KeepThreads

-----------------------------------------------------------------------------
(* Moving a thread on.  A run whose context is cancelled finishes the call  *)
(* it is in; only CompleteSecretCleanup has a context of its own.           *)

At(t, pc) == thread[t].pc = pc

Stops(t, pc) == thread[t].cancelled /\ pc # "complete"
Continue(t, changed) ==
  thread' = [thread EXCEPT ![t] = IF Stops(t, changed.pc) THEN Idle ELSE changed]
Goto(t, pc) == Continue(t, [thread[t] EXCEPT !.pc = pc])

(* A run that ends leaves the map, unless another has taken its place. *)
End(t) ==
  /\ thread' = [thread EXCEPT ![t] = Idle]
  /\ entry' = IF entry = t THEN NoRun ELSE entry

(* A run that is blocked ends; a pass has something else to do. *)
Blocked(t) ==
  IF t \in Runs THEN End(t) ELSE Goto(t, thread[t].blocked) /\ UNCHANGED entry

KeepWorld == UNCHANGED <<settled, job, secret>>

Fault == faults < MaxFaults /\ faults' = faults + 1

-----------------------------------------------------------------------------
(* Passes over the Job: observeJob, scheduleSecretCleanup,                  *)
(* recoverSecretCleanups. *)

(* The watch delivers versions in order and late, a list the current one.   *)
Delivered(t) ==
  {i \in 1..Len(job.history) :
     \/ i = Len(job.history) /\ job.here
     \/ t = "watch" /\ i > job.watched}

BeginPass(t) ==
  /\ At(t, "idle")
  /\ \/ \E i \in Delivered(t) :
          /\ thread' = [thread EXCEPT ![t] = [Idle EXCEPT !.pc = "observe",
                                               !.job = job.history[i], !.blocked = "schedule"]]
          /\ job' = IF t = "watch" THEN [job EXCEPT !.watched = i] ELSE job
     \/ /\ ~job.here
        /\ thread' = [thread EXCEPT ![t].pc = "list"]
        /\ UNCHANGED job
  /\ UNCHANGED <<settled, secret, row, entry, faults>>

(* Mutant: a Job created again inherits the cleanup of the one before. *)
ObserveRowOnce(r, uid) == IF r.state = "none" THEN [NoRow EXCEPT !.state = "open", !.jobUID = uid]
                          ELSE r

(* ObserveKubernetesJob: another Job starts the cleanup over. *)
ObserveRow(r, uid) ==
  IF r.state = "none" THEN [NoRow EXCEPT !.state = "open", !.jobUID = uid]
  ELSE IF r.jobUID = uid THEN r
  ELSE [NoRow EXCEPT !.state = "open", !.jobUID = uid, !.generation = r.generation + 1]

ObserveJob(t) ==
  /\ At(t, "observe")
  /\ row' = ObserveRow(row, thread[t].job.uid)
  /\ Goto(t, IF thread[t].job.finished THEN "keep" ELSE "ineligible")
  /\ KeepWorld /\ UNCHANGED <<entry, faults>>

(* MarkSecretCleanupIneligible *)
Ineligible ==
  IF row.state = "open" /\ row.eligible
  THEN [row EXCEPT !.eligible = FALSE, !.secretUID = 0, !.generation = @ + 1] ELSE row

MarkIneligible(t) ==
  /\ At(t, "ineligible") /\ row' = Ineligible
  /\ Goto(t, "cancel")
  /\ KeepWorld /\ UNCHANGED <<entry, faults>>

(* cancelSecretCleanup: whatever runs, or what was started for another Job. *)
Cancel(t) ==
  /\ At(t, "cancel") \/ At(t, "keep")
  /\ LET keep == IF At(t, "keep") THEN thread[t].job.uid ELSE 0
     IN IF entry # NoRun /\ (keep = 0 \/ thread[entry].for # keep)
        THEN /\ entry' = NoRun
             /\ thread' = [thread EXCEPT ![entry].cancelled = TRUE,
                                         ![t] = IF t \in Runs THEN Idle
                                                ELSE [@ EXCEPT !.pc = thread[t].blocked]]
        ELSE Blocked(t)
  /\ KeepWorld /\ UNCHANGED <<row, faults>>

(* scheduleSecretCleanup, of the Job that was delivered. *)
Schedule(t) ==
  /\ At(t, "schedule")
  /\ Continue(t, [thread[t] EXCEPT !.pc = IF settled THEN "guard" ELSE "ineligible",
                                   !.copy = [NoRow EXCEPT !.jobUID = thread[t].job.uid],
                                   !.job = NoVersion,
                                   !.blocked = "list"])
  /\ KeepWorld /\ UNCHANGED <<row, entry, faults>>

(* recoverSecretCleanups, of the row as it was listed. *)
List(t) ==
  /\ At(t, "list")
  /\ IF row.state # "open" THEN thread' = [thread EXCEPT ![t] = Idle]
     ELSE Continue(t, [thread[t] EXCEPT !.pc = IF settled THEN "guard" ELSE "ineligible",
                                        !.copy = row, !.blocked = "idle"])
  /\ KeepWorld /\ UNCHANGED <<row, entry, faults>>

(* Mutant: the Job that bears the name now is not asked for. *)
GuardTrusting(t) ==
  /\ At(t, "guard")
  /\ Goto(t, IF t \in Passes THEN "mark" ELSE IF thread[t].bound THEN "delete" ELSE "get")
  /\ KeepWorld /\ UNCHANGED <<row, entry, faults>>

(* cleanupBlockedByCurrentJob: another Job under the name is observed, a    *)
(* running one takes the eligibility back, and an API error blocks as well. *)
Guard(t) ==
  /\ At(t, "guard")
  /\ \/ /\ ~job.here \/ (Current.uid = thread[t].copy.jobUID /\ Current.finished)
        /\ Goto(t, IF t \in Passes THEN "mark" ELSE IF thread[t].bound THEN "delete" ELSE "get")
        /\ UNCHANGED <<entry, faults>>
     \/ /\ job.here /\ Current.uid # thread[t].copy.jobUID
        /\ Continue(t, [thread[t] EXCEPT !.pc = "observe", !.job = Current])
        /\ UNCHANGED <<entry, faults>>
     \/ /\ JobRunning /\ Current.uid = thread[t].copy.jobUID
        /\ Goto(t, "ineligible")
        /\ UNCHANGED <<entry, faults>>
     \/ Fault /\ Blocked(t)
  /\ KeepWorld /\ UNCHANGED row

(* MarkSecretCleanupEligible, of the row as it is (schedule) or as it was   *)
(* listed (recover); a row that has changed stops the pass.                 *)
MarkEligible(t) ==
  /\ At(t, "mark")
  /\ LET listed == thread[t].blocked = "idle"
         copy == thread[t].copy
         same == /\ row.state = "open" /\ row.jobUID = copy.jobUID
                 /\ listed => row.generation = copy.generation
     IN \/ /\ listed /\ copy.eligible
           /\ Goto(t, "start") /\ UNCHANGED <<row, entry>>
        \/ /\ ~(listed /\ copy.eligible) /\ same
           /\ row' = [row EXCEPT !.eligible = TRUE]
           /\ Continue(t, [thread[t] EXCEPT !.pc = "start", !.copy = row'])
           /\ UNCHANGED entry
        \/ ~(listed /\ copy.eligible) /\ ~same /\ Blocked(t) /\ UNCHANGED row
  /\ KeepWorld /\ UNCHANGED faults

(* Mutant: a goroutine is started without looking into the map. *)
StartCleanupAlways(t) ==
  /\ At(t, "start")
  /\ \E r \in Runs :
       /\ At(r, "idle") /\ entry' = r
       /\ thread' = [thread EXCEPT ![t].pc = thread[t].blocked,
                                   ![r] = [Idle EXCEPT !.pc = "waiting", !.copy = thread[t].copy,
                                                       !.for = thread[t].copy.jobUID]]
  /\ KeepWorld /\ UNCHANGED <<row, faults>>

(* startSecretCleanup: one goroutine per attempt. *)
StartCleanup(t) ==
  /\ At(t, "start")
  /\ LET pass == [thread[t] EXCEPT !.pc = thread[t].blocked]
     IN IF entry # NoRun
        THEN thread' = [thread EXCEPT ![t] = pass] /\ UNCHANGED entry
        ELSE LET r == CHOOSE free \in Runs : At(free, "idle")
             IN /\ \E free \in Runs : At(free, "idle")
                /\ thread' = [thread EXCEPT ![t] = pass,
                     ![r] = [Idle EXCEPT !.pc = "waiting", !.copy = thread[t].copy,
                                         !.for = thread[t].copy.jobUID]]
                /\ entry' = r
  /\ KeepWorld /\ UNCHANGED <<row, faults>>

-----------------------------------------------------------------------------
(* The cleanup goroutine *)

(* The retention has passed. *)
Wake(r) ==
  /\ At(r, "waiting") /\ Goto(r, "row")
  /\ KeepWorld /\ UNCHANGED <<row, entry, faults>>

(* secretCleanupStillEligible, up to its question about the Job. *)
CheckRow(r) ==
  /\ At(r, "row")
  /\ LET copy == thread[r].copy
     IN IF /\ settled /\ row.state = "open" /\ row.eligible
           /\ row.generation = copy.generation /\ row.jobUID = copy.jobUID
           /\ copy.secretUID \in {0, row.secretUID}
        THEN Goto(r, "guard") /\ UNCHANGED entry
        ELSE End(r)
  /\ KeepWorld /\ UNCHANGED <<row, faults>>

(* Mutant: any failure of the lookup counts as "not found". *)
GetSecretAnyError(r) ==
  /\ At(r, "get")
  /\ \/ ~OwnSecret /\ Goto(r, "complete") /\ UNCHANGED faults
     \/ /\ OwnSecret
        /\ Continue(r, [thread[r] EXCEPT !.pc = "bind", !.seen = secret.uid])
        /\ UNCHANGED faults
     \/ Fault /\ Goto(r, "complete")
  /\ KeepWorld /\ UNCHANGED <<row, entry>>

(* No Secret, or one that is not ours: nothing to delete. *)
GetSecret(r) ==
  /\ At(r, "get")
  /\ \/ ~OwnSecret /\ Goto(r, "complete") /\ UNCHANGED faults
     \/ /\ OwnSecret
        /\ Continue(r, [thread[r] EXCEPT !.pc = "bind", !.seen = secret.uid])
        /\ UNCHANGED faults
     \/ Fault /\ Goto(r, "row")
  /\ KeepWorld /\ UNCHANGED <<row, entry>>

(* BindSecretCleanupUID, its update and the read after it. *)
BindSecret(r) ==
  /\ At(r, "bind")
  /\ LET copy == thread[r].copy
     IN IF /\ row.state = "open" /\ row.eligible
           /\ row.generation = copy.generation /\ row.jobUID = copy.jobUID
        THEN /\ row' = [row EXCEPT !.secretUID = thread[r].seen,
                                   !.generation = IF row.secretUID \in {0, thread[r].seen}
                                                  THEN @ ELSE @ + 1]
             /\ Goto(r, "reread") /\ UNCHANGED entry
        ELSE End(r) /\ UNCHANGED row
  /\ KeepWorld /\ UNCHANGED faults

Reread(r) ==
  /\ At(r, "reread")
  /\ IF row.state = "open"
     THEN /\ Continue(r, [thread[r] EXCEPT !.pc = "row", !.copy = row, !.bound = TRUE])
          /\ UNCHANGED entry
     ELSE End(r)
  /\ KeepWorld /\ UNCHANGED <<row, faults>>

(* The deletion has the UID seen as its precondition; a conflict or an      *)
(* error starts over.                                                       *)
DeleteSecret(r) ==
  /\ At(r, "delete")
  /\ \/ /\ secret.here => secret.uid = thread[r].seen
        /\ secret' = [secret EXCEPT !.here = FALSE]
        /\ Goto(r, "complete") /\ UNCHANGED faults
     \/ /\ secret.here /\ secret.uid # thread[r].seen
        /\ Continue(r, [thread[r] EXCEPT !.pc = "row", !.bound = FALSE])
        /\ UNCHANGED <<secret, faults>>
     \/ /\ Fault
        /\ Continue(r, [thread[r] EXCEPT !.pc = "row", !.bound = FALSE])
        /\ UNCHANGED secret
  /\ UNCHANGED <<settled, job, row, entry>>

(* CompleteSecretCleanup, of exactly the row the goroutine knows. *)
CompleteCleanup(r) ==
  /\ At(r, "complete")
  /\ LET copy == thread[r].copy
     IN row' = IF /\ row.state = "open" /\ row.generation = copy.generation
                  /\ row.jobUID = copy.jobUID /\ row.secretUID = copy.secretUID
               THEN [row EXCEPT !.state = "done"] ELSE row
  /\ End(r)
  /\ KeepWorld /\ UNCHANGED faults

(* The process dies; the row is what is left. *)
Crash ==
  /\ Fault
  /\ thread' = [t \in Threads |-> Idle] /\ entry' = NoRun
  /\ KeepWorld /\ UNCHANGED row

-----------------------------------------------------------------------------

PassNext(t) ==
  BeginPass(t) \/ Schedule(t) \/ List(t) \/ MarkEligible(t) \/ StartCleanup(t)

ThreadNext(t) == ObserveJob(t) \/ MarkIneligible(t) \/ Cancel(t) \/ Guard(t)

RunNext(r) ==
  \/ Wake(r) \/ CheckRow(r) \/ GetSecret(r) \/ BindSecret(r) \/ Reread(r)
  \/ DeleteSecret(r) \/ CompleteCleanup(r)

OutsideNext ==
  \/ CreateSecret \/ RegisterSecretCleanup \/ CreateJob
  \/ JobFinishes \/ JobRemoved \/ Settle \/ ReplaceSecret

CleanupNext ==
  \/ OutsideNext \/ Crash
  \/ \E t \in Passes : PassNext(t)
  \/ \E t \in Threads : ThreadNext(t)
  \/ \E r \in Runs : RunNext(r)

CleanupSpec == CleanupInit /\ [][CleanupNext]_cleanupVars

(* The recovery loop and the goroutines are scheduled; a worker Job has a   *)
(* deadline.                                                                *)
FairCleanupSpec ==
  /\ CleanupSpec
  /\ WF_cleanupVars(JobFinishes)
  /\ \A t \in Passes : WF_cleanupVars(PassNext(t) \/ ThreadNext(t))
  /\ \A r \in Runs : WF_cleanupVars(RunNext(r) \/ ThreadNext(r))

-----------------------------------------------------------------------------

(* Cleanup deletes a Secret only when the attempt is over and no worker of  *)
(* it runs, whatever Jobs came and went since the deletion was planned; and *)
(* never a Secret that somebody put in the place of ours.                   *)
OnlyOrphansAreDeleted ==
  [][secret.here /\ ~secret'.here => settled /\ ~JobRunning /\ secret.ours]_cleanupVars

(* A cleanup that is recorded as complete, and so is never looked at again, *)
(* has left no Secret of the attempt behind.                                *)
CompleteMeansGone == row.state = "done" => ~OwnSecret

(* At most one goroutine cleans up: others that still finish a call are     *)
(* cancelled.                                                               *)
OneCleanup ==
  \A r \in Runs : thread[r].pc # "idle" => entry = r \/ thread[r].cancelled

(* A registered Secret does not outlive its attempt for ever.               *)
SecretsAreRemoved == (settled /\ OwnSecret /\ row.state # "none") ~> ~OwnSecret

=============================================================================
