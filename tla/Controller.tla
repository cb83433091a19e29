----------------------------- MODULE Controller -----------------------------
(***************************************************************************)
(* The controller of one task (internal/controller and its runtime) over   *)
(* the store and the cluster.                                              *)
(*                                                                         *)
(* Operations take the task's keyed lock, so at most one is under way:     *)
(* `op`.  Each of its steps is one store transaction or one API call       *)
(* together with the reads before it; between two steps the cluster, the   *)
(* log readers, FailForgeEvent and a crash may act, which hold no lock.    *)
(* An API call may fail with or without effect, a context may expire: an   *)
(* operation may stop after any step (Abandon, Crash).                     *)
(*                                                                         *)
(* Reconcile, Cancel, CreateTask, Retry, the forge inbox and log streams   *)
(* may start at any time.  Not here: Secret cleanup after a finished Job,  *)
(* raw log bytes and quotas, webhook matching.                             *)
(***************************************************************************)
EXTENDS TaskStore, Cluster

CONSTANTS
  PermanentErrors,  \* may the API refuse a creation for good?
  SpuriousEOF       \* may a log stream end before the Pod's log does?

ASSUME ControllerAssumption ==
  /\ PermanentErrors \in BOOLEAN /\ SpuriousEOF \in BOOLEAN
  /\ WorkerEvents = Jobs \X (1..MaxLines)

VARIABLES
  registered,  \* attempts with a secret_cleanups row
  op,          \* the operation that holds the lock
  startups,    \* attempts whose CreateTask or startAttempt call waits
  acks,        \* events handled but not yet marked processed
  reader       \* generation -> the goroutine that collects its Pod's log

volatileVars == <<op, startups, acks, reader>>
vars == <<storeVars, clusterVars, registered, volatileVars>>

NoJobStatus == "none"

Idle == [call |-> "idle", pc |-> "idle", attempt |-> 1, event |-> NoEvent,
         exhausted |-> FALSE, job |-> NoJobStatus]
Reading == [at |-> "reading", job |-> NoJobStatus]

Calls == {"idle", "reconcile", "create", "start", "cancel", "event", "logs", "recover"}
Steps == {"idle", "snapshot", "advance", "intent", "secret", "register", "job", "complete",
          "giveup", "surrender", "resume", "promote", "promoting", "feedback",
          "observe", "finish",
          "failedJob", "fail", "completedJob", "recover", "cancelDelete",
          "cancelConfirm", "cancelSecret", "cancelLogs", "cancelEvents",
          "cancelApi", "handle", "verdict"}

ControllerTypeOK ==
  /\ StoreTypeOK /\ ClusterTypeOK
  /\ registered \subseteq Attempts
  /\ op \in [call : Calls, pc : Steps, attempt : Attempts, event : WorkerEvents \cup {NoEvent},
             exhausted : BOOLEAN, job : JobStatuses]
  /\ startups \subseteq Attempts
  /\ acks \subseteq WorkerEvents
  /\ reader \in [Jobs -> [at : {"reading", "eof", "ended", "waiting"}, job : JobStatuses]]

ControllerInit ==
  /\ StoreInit /\ ClusterInit
  /\ registered = {}
  /\ op = Idle
  /\ startups = {1}
  /\ acks = {}
  /\ reader = [g \in Jobs |-> Reading]

-----------------------------------------------------------------------------
(* Moving an operation on *)

At(pc) == op.pc = pc
Goto(pc) == op' = [op EXCEPT !.pc = pc]
Return == op' = Idle

Keep == UNCHANGED <<clusterVars, registered, startups, acks, reader>>
KeepStore == UNCHANGED storeVars

(* A locked operation begins: it reads the task and its current attempt. *)
Begin(call, pc, e) ==
  /\ op = Idle
  /\ op' = [Idle EXCEPT !.call = call, !.pc = pc, !.attempt = current, !.event = e,
                        !.exhausted = exhausted[current]]

(* One transition of the task, then the next step; a refused transition     *)
(* ends the operation.                                                      *)
TransitionThen(to, next) ==
  \/ Transition(state, to) /\ Goto(next)
  \/ ~CanTransition(state, to) /\ Return /\ KeepStore

(* A transition that ends the operation, accepted or not. *)
TransitionLast(to) ==
  \/ Transition(state, to) /\ Return
  \/ ~CanTransition(state, to) /\ Return /\ KeepStore

(* currentResourceIntent *)
Blocked == cancelRequested \/ state \in Settled \/ current # op.attempt

-----------------------------------------------------------------------------
(* Starting an attempt *)

(* CreateTask after its insert, and startAttempt after a retry, a follow-up *)
(* or the recovery of one.                                                  *)
BeginStartup(a) ==
  /\ a \in startups
  /\ op = Idle
  /\ startups' = startups \ {a}
  /\ IF cancelRequested \/ state \in Settled \/ current # a THEN UNCHANGED op
     ELSE op' = IF a = 1 THEN [Idle EXCEPT !.call = "create", !.pc = "snapshot", !.attempt = a]
                ELSE [Idle EXCEPT !.call = "start", !.pc = "advance", !.attempt = a]
  /\ KeepStore /\ UNCHANGED <<clusterVars, registered, acks, reader>>

(* CreateTask takes the snapshot before the first transition. *)
Snapshot ==
  /\ At("snapshot") /\ Goto("advance")
  /\ \/ snapshot[op.attempt] # NoVersion /\ KeepStore
     \/ \E v \in Versions : SaveAttemptSnapshot(op.attempt, v)
  /\ Keep

BeginReconcile ==
  /\ state \notin Settled \/ ~exhausted[current]
  /\ Begin("reconcile", IF cancelRequested THEN "cancelDelete" ELSE "advance", NoEvent)
  /\ KeepStore /\ Keep

(* RECEIVED -> QUEUED -> CREATING_JOB.  Reconcile leaves an attempt alone   *)
(* that has unprocessed worker events.                                      *)
Advance ==
  /\ At("advance")
  /\ \/ state = "received" /\ TransitionThen("queued", "advance")
     \/ state = "queued" /\ TransitionThen("creating_job", "advance")
     \/ /\ state \notin {"received", "queued"}
        /\ KeepStore
        /\ IF op.call = "reconcile"
           THEN IF state \in WorkerResourceStates /\ Pending(op.attempt) = {}
                THEN Goto("intent") ELSE Goto("resume")
           ELSE IF state = "creating_job" THEN Goto("intent") ELSE Return
  /\ Keep

(* prepareAttemptSnapshot under currentResourceIntent. *)
Intent ==
  /\ At("intent")
  /\ \/ Blocked /\ Return /\ KeepStore
     \/ ~Blocked /\ snapshot[op.attempt] # NoVersion /\ Goto("secret") /\ KeepStore
     \/ ~Blocked /\ Goto("secret") /\ \E v \in Versions : SaveAttemptSnapshot(op.attempt, v)
  /\ Keep

(* A permanent Kubernetes error (Forbidden, Invalid, ...). *)
Refused == PermanentErrors /\ Goto("giveup")

EnsureSecret ==
  /\ At("secret")
  /\ \/ Goto("register") /\ secrets' = secrets \cup {op.attempt}
     \/ Return /\ secrets' = secrets \cup {op.attempt}
     \/ Refused /\ UNCHANGED secrets
  /\ KeepStore /\ UNCHANGED <<jobs, pods, registered, startups, acks, reader>>

(* RegisterSecretCleanup, and the second look at the intent. *)
Register ==
  /\ At("register")
  /\ registered' = registered \cup {op.attempt}
  /\ IF Blocked THEN Return ELSE Goto("job")
  /\ KeepStore /\ UNCHANGED <<clusterVars, startups, acks, reader>>

(* Create the Job or adopt the one that exists.  The last alternative is a  *)
(* call that took effect and reported an error.                             *)
EnsureJob ==
  /\ At("job")
  /\ \/ /\ IF state = "creating_job" THEN Goto("complete") ELSE Goto("resume")
        /\ \/ CreateJob(op.attempt)
           \/ JobOf(op.attempt) # {} /\ UNCHANGED jobs
     \/ Return /\ CreateJob(op.attempt)
     \/ Refused /\ UNCHANGED jobs
  /\ KeepStore /\ UNCHANGED <<pods, secrets, registered, startups, acks, reader>>

(* completeAttemptResources *)
Complete ==
  /\ At("complete")
  /\ \/ ~Blocked /\ op.call = "reconcile" /\ TransitionThen("job_pending", "resume")
     \/ ~Blocked /\ op.call # "reconcile" /\ TransitionLast("job_pending")
     \/ Blocked /\ Return /\ KeepStore
  /\ Keep

(* Permanent creation error: no log will follow, which the controller tries *)
(* to record ...                                                            *)
GiveUp ==
  /\ At("giveup")
  /\ \/ Blocked /\ Return /\ KeepStore
     \/ ~Blocked /\ Goto("surrender") /\ (MarkLogsExhausted(op.attempt) \/ KeepStore)
  /\ Keep

(* ... and the task fails; Reconcile first lets pending events decide. *)
Surrender ==
  /\ At("surrender")
  /\ \/ op.call = "reconcile" /\ Pending(op.attempt) # {} /\ Return /\ KeepStore
     \/ op.call # "reconcile" /\ TransitionLast("failed")
     \/ Pending(op.attempt) = {} /\ op.call = "reconcile" /\ TransitionLast("failed")
  /\ Keep

-----------------------------------------------------------------------------
(* Promoting a durable pull request *)

(* A worker event is acknowledged after the lock is released. *)
Ack == acks' = acks \cup {op.event} /\ Return

(* The operation after a promotion: the event is done, Reconcile goes on. *)
Promoted ==
  \/ op.call = "event" /\ Ack
  \/ op.call = "reconcile" /\ Goto("observe") /\ UNCHANGED acks
  \/ op.call = "recover" /\ Return /\ UNCHANGED acks

KeepButAcks == UNCHANGED <<clusterVars, registered, startups, reader>>

Resume ==
  /\ At("resume")
  /\ Goto(IF /\ AtOrAfter(state, "validating") /\ ~AtOrAfter(state, "pr_open")
             /\ git[op.attempt].state = "pushed" /\ pr[op.attempt].state = "open"
          THEN "promote" ELSE "observe")
  /\ KeepStore /\ Keep

(* resumePullRequestLocked reads everything again ... *)
Promote ==
  /\ At("promote")
  /\ \/ cancelRequested /\ Promoted
     \/ /\ ~cancelRequested /\ UNCHANGED acks
        /\ IF DurablePullRequest(op.attempt) THEN Goto("promoting") ELSE Return
  /\ KeepStore /\ KeepButAcks

(* ... and takes one transition at a time to PR_OPEN. *)
Promoting ==
  /\ At("promoting")
  /\ \/ state = "validating" /\ validation[op.attempt] # "succeeded" /\ Return /\ KeepStore
     \/ state = "validating" /\ validation[op.attempt] = "succeeded"
        /\ TransitionThen("committing", "promoting")
     \/ state = "committing" /\ TransitionThen("pushing", "promoting")
     \/ state = "pushing" /\ TransitionThen("creating_pr", "promoting")
     \/ state = "creating_pr" /\ TransitionThen("pr_open", "promoting")
     \/ state \in PullRequestStates /\ Goto("feedback") /\ KeepStore
     \/ state \notin PullRequestStates \cup {"validating", "committing", "pushing", "creating_pr"}
        /\ Return /\ KeepStore
  /\ Keep

(* completeForgeEventLocked: the provider shows the pushed head, still the  *)
(* prior one (retry later), or something else (the batch fails).            *)
CompleteFeedback ==
  /\ At("feedback")
  /\ \/ Promoted /\ KeepStore
     \/ FailRunningFeedback(op.attempt) /\ Promoted
     \/ \E f \in RunningFeedback(op.attempt) :
          MarkForgeEventHandled(f) /\ UNCHANGED <<op, acks>>
  /\ KeepButAcks

-----------------------------------------------------------------------------
(* Observing the Job *)

Observe ==
  /\ At("observe")
  /\ \/ \E g \in JobOf(op.attempt) :
          op' = [op EXCEPT !.pc = "finish", !.job = jobs[g].status] /\ KeepStore
     \/ /\ JobOf(op.attempt) = {} /\ Return
        /\ IF \/ Pending(op.attempt) # {} \/ state \in WorkerResourceStates
              \/ op.exhausted \/ PodsOf(op.attempt) # {}
           THEN KeepStore ELSE MarkLogsExhausted(op.attempt)
  /\ Keep

(* Mutant: a finished Job decides before its log is read. *)
FinishUnread ==
  /\ At("finish")
  /\ \/ op.job = "failed" /\ state \notin Settled /\ Goto("fail")
     \/ (op.job # "failed" \/ state \in Settled) /\ Return
  /\ KeepStore /\ Keep

(* reconcileJob, on the status read before.  The Pods of the attempt are    *)
(* those of this Job: an earlier Job is gone only after its Pod.            *)
Finish ==
  /\ At("finish")
  /\ \/ /\ JobFinished(op.job) /\ ~op.exhausted /\ PodsOf(op.attempt) = {}
        /\ MarkLogsExhausted(op.attempt)
        /\ op' = [op EXCEPT !.exhausted = TRUE]
     \/ /\ KeepStore
        /\ \/ JobFinished(op.job) /\ ~op.exhausted /\ PodsOf(op.attempt) # {} /\ Return
           \/ JobFinished(op.job) /\ op.exhausted /\ state \in Settled /\ Return
           \/ /\ op.exhausted /\ state \notin Settled
              /\ \/ op.job = "failed" /\ Goto("failedJob")
                 \/ op.job = "complete" /\ Goto("completedJob")
           \/ /\ ~JobFinished(op.job)
              /\ IF op.job = "active" /\ StateIndex(state) \in 1..4 THEN Goto("recover") ELSE Return
  /\ Keep

(* recoverTo RUNNING *)
Recover ==
  /\ At("recover")
  /\ \/ state = "creating_job" /\ TransitionThen("job_pending", "recover")
     \/ state = "job_pending" /\ TransitionThen("running", "recover")
     \/ state \notin {"creating_job", "job_pending"} /\ Return /\ KeepStore
  /\ Keep

(* Mutant: a failed Job decides although worker events are pending. *)
FailedJobEager ==
  /\ At("failedJob")
  /\ \/ state # "validating" /\ TransitionLast("failed")
     \/ state = "validating" /\ Return /\ KeepStore
  /\ Keep

(* finishFailedJob: a failed validation is recorded before the task fails. *)
FailedJob ==
  /\ At("failedJob")
  /\ \/ Pending(op.attempt) # {} /\ Return /\ KeepStore
     \/ Pending(op.attempt) = {} /\ state # "validating" /\ TransitionLast("failed")
     \/ /\ Pending(op.attempt) = {} /\ state = "validating"
        /\ CanMarkValidationComplete(op.attempt)
        /\ MarkValidationComplete(op.attempt, "failed") /\ Goto("fail")
     \/ /\ Pending(op.attempt) = {} /\ state = "validating"
        /\ ~CanMarkValidationComplete(op.attempt) /\ Return
        /\ \/ TransitionClosingRuns("validating", "failed")
           \/ ~CanTransition("validating", "failed") /\ KeepStore
  /\ Keep

Fail ==
  /\ At("fail")
  /\ \/ Transition(state, "failed") /\ (IF op.call = "event" THEN Ack ELSE Return /\ UNCHANGED acks)
     \/ ~CanTransition(state, "failed") /\ Return /\ UNCHANGED acks /\ KeepStore
  /\ KeepButAcks

(* finishCompletedJob: success without a durable pull request is failure. *)
CompletedJob ==
  /\ At("completedJob")
  /\ IF DurablePullRequest(op.attempt) \/ Pending(op.attempt) # {}
     THEN Return /\ KeepStore ELSE TransitionLast("failed")
  /\ Keep

-----------------------------------------------------------------------------
(* Cancellation *)

(* Cancel: the request is durable first, then the Job is deleted. *)
Cancel ==
  /\ Begin("cancel", "cancelApi", NoEvent)
  /\ RequestCancellation
  /\ Keep

(* Mutant: only a Job whose Pod runs is deleted. *)
DeleteRunningJob ==
  IF \A g \in JobOf(op.attempt) : jobs[g].status # "active" THEN UNCHANGED jobs
  ELSE \E g \in JobOf(op.attempt) : DeleteJob(g)

DeleteAttemptJob ==
  IF JobOf(op.attempt) = {} THEN UNCHANGED jobs ELSE \E g \in JobOf(op.attempt) : DeleteJob(g)

CancelApi ==
  /\ At("cancelApi")
  /\ DeleteAttemptJob /\ Return
  /\ KeepStore /\ UNCHANGED <<pods, secrets, registered, startups, acks, reader>>

(* reconcileCancellation, in the order of its calls. *)
CancelDelete ==
  /\ At("cancelDelete")
  /\ DeleteAttemptJob /\ Goto("cancelConfirm")
  /\ KeepStore /\ UNCHANGED <<pods, secrets, registered, startups, acks, reader>>

(* Mutant: the deletion call is trusted. *)
CancelConfirmTrusting == At("cancelConfirm") /\ Goto("cancelSecret") /\ KeepStore /\ Keep

CancelConfirm ==
  /\ At("cancelConfirm")
  /\ IF JobOf(op.attempt) = {} /\ PodsOf(op.attempt) = {} THEN Goto("cancelSecret") ELSE Return
  /\ KeepStore /\ Keep

(* deleteCancelledAttemptSecret knows the Secrets registered for cleanup. *)
CancelSecret ==
  /\ At("cancelSecret")
  /\ secrets' = secrets \ ({op.attempt} \cap registered)
  /\ Goto("cancelLogs")
  /\ KeepStore /\ UNCHANGED <<jobs, pods, registered, startups, acks, reader>>

CancelLogs ==
  /\ At("cancelLogs")
  /\ MarkLogsExhausted(op.attempt)
  /\ Goto("cancelEvents")
  /\ Keep

(* Mutant: the running forge events are forgotten. *)
CancelEventsAlone == At("cancelEvents") /\ TransitionLast("cancelled") /\ Keep

CancelEvents ==
  /\ At("cancelEvents")
  /\ \/ RunningFeedback(op.attempt) = {} /\ TransitionLast("cancelled")
     \/ \E f \in RunningFeedback(op.attempt) : MarkForgeEventHandled(f) /\ UNCHANGED op
  /\ Keep

-----------------------------------------------------------------------------
(* Worker events *)

AttemptOf(e) == jobs[e[1]].attempt
Content(e) == pods[e[1]].log[e[2]]
EventsOf(g) == {e \in WorkerEvents : e[1] = g}

(* drainWorkerEvents: per Pod in log order, one at a time, each marked      *)
(* processed before the next is handled.                                    *)
NextOf(g, e) ==
  /\ e \in EventsOf(g) \cap Pending(jobs[g].attempt)
  /\ EventsOf(g) \cap acks = {}
  /\ \A d \in EventsOf(g) \cap Pending(jobs[g].attempt) : e[2] <= d[2]

(* Mutant: the event is acknowledged before it is handled. *)
BeginEventAcked(g) ==
  /\ jobs[g].attempt = current
  /\ \E e \in WorkerEvents :
       /\ NextOf(g, e) /\ acks' = acks \cup {e}
       /\ IF state \in Settled \/ cancelRequested
          THEN op = Idle /\ UNCHANGED op ELSE Begin("event", "handle", e)
  /\ KeepStore /\ KeepButAcks

(* handleWorkerEvent: authorize, then ignore what can no longer matter. *)
BeginEvent(g) ==
  /\ jobs[g].attempt = current
  /\ \E e \in WorkerEvents :
       /\ NextOf(g, e)
       /\ IF state \in Settled \/ cancelRequested
          THEN op = Idle /\ acks' = acks \cup {e} /\ UNCHANGED op
          ELSE Begin("event", "handle", e) /\ UNCHANGED acks
  /\ KeepStore /\ KeepButAcks

Handling(type) == At("handle") /\ Content(op.event).type = type

(* The event cannot be handled now: it stays pending and blocks the Pod's   *)
(* later ones.                                                              *)
Refuse == Return /\ KeepStore /\ UNCHANGED acks

(* failPullRequestReceipt of a permanent error: the task fails, the event   *)
(* stays pending and is ignored when it is read again.                      *)
Reject == TransitionLast("failed") /\ UNCHANGED acks

(* A transition that completes the event, if it is accepted. *)
TransitionAck(to) ==
  \/ Transition(state, to) /\ Ack
  \/ ~CanTransition(state, to) /\ Refuse

AgentStarted ==
  /\ Handling("agent_started")
  /\ \/ state = "creating_job" /\ TransitionThen("job_pending", "handle") /\ UNCHANGED acks
     \/ state = "job_pending" /\ TransitionThen("running", "handle") /\ UNCHANGED acks
     \/ state = "running" /\ TransitionAck("agent_running")
     \/ AtOrAfter(state, "agent_running") /\ Ack /\ KeepStore
     \/ ~AtOrAfter(state, "creating_job") /\ Refuse
  /\ KeepButAcks

ValidationStarted ==
  /\ Handling("validation_started")
  /\ \/ /\ state = "validating"
        /\ \/ op.event \in StartedEvents(op.attempt) /\ Ack /\ KeepStore
           \/ RecordValidationStartedOnce(op.attempt, op.event) /\ Ack
           \/ /\ op.event \notin StartedEvents(op.attempt)
              /\ ~CanStartRun(op.attempt, op.event) /\ Refuse
     \/ state = "agent_running" /\ TransitionValidating(state, op.event) /\ Ack
     \/ state = "agent_running" /\ Refuse
        /\ ~(CanTransition(state, "validating") /\ CanStartRun(op.attempt, op.event))
     \/ AtOrAfter(state, "committing") /\ Ack /\ KeepStore
     \/ ~AtOrAfter(state, "agent_running") /\ Refuse
  /\ KeepButAcks

ValidationResult ==
  /\ Handling("validation_result")
  /\ \/ state = "validating" /\ op.event \in ResultEvents(op.attempt) /\ Ack /\ KeepStore
     \/ RecordValidationResultOnce(op.attempt, op.event, Content(op.event).verdict) /\ Ack
     \/ state # "validating" /\ Refuse
     \/ /\ op.event \notin ResultEvents(op.attempt) /\ RunningRows(op.attempt) = {}
        /\ Refuse
  /\ KeepButAcks

ValidationSucceeded ==
  /\ Handling("validation_succeeded")
  /\ \/ AtOrAfter(state, "committing") /\ Ack /\ KeepStore
     \/ state = "validating" /\ MarkValidationComplete(op.attempt, "succeeded") /\ Ack
     \/ state = "validating" /\ ~CanMarkValidationComplete(op.attempt) /\ Refuse
     \/ ~AtOrAfter(state, "validating") /\ Refuse
  /\ KeepButAcks

(* The last result, or the detail of a failed one; then the verdict; then   *)
(* the task.                                                                *)
ValidationFailed ==
  /\ Handling("validation_failed")
  /\ \/ /\ state = "validating" /\ Goto("verdict") /\ UNCHANGED acks
        /\ \/ RecordValidationResultOnce(op.attempt, op.event, "failed")
           \/ op.event \in ResultEvents(op.attempt) /\ KeepStore
           \/ /\ RunningRows(op.attempt) = {}
              /\ \E r \in runs[op.attempt] : r.state = "failed"
              /\ KeepStore
     \/ /\ \/ state # "validating"
           \/ RunningRows(op.attempt) = {} /\ \A r \in runs[op.attempt] : r.state # "failed"
        /\ Refuse
  /\ KeepButAcks

Verdict ==
  /\ At("verdict")
  /\ \/ MarkValidationComplete(op.attempt, "failed") /\ Goto("fail")
     \/ ~CanMarkValidationComplete(op.attempt) /\ Return /\ KeepStore
  /\ Keep

WorkerFailed ==
  /\ Handling("worker_failed")
  /\ TransitionAck("failed")
  /\ KeepButAcks

(* The pull request an attempt must continue: the one its row was created   *)
(* with (manifest.ExistingPullRequestNumber).                               *)
ExistingNumber(a) == IF branch[a] = a THEN 0 ELSE pr[a].number

(* latestPullRequestGitResult: the newest commit published on the branch of *)
(* a by an earlier attempt (manifest.ExistingPullRequestHeadSHA).           *)
Lineage(a) == {b \in 1..(a - 1) : branch[b] = branch[a] /\ git[b].state # "none"
                                   /\ pr[b].number = pr[a].number}
ExistingHead(a) ==
  IF Lineage(a) = {} THEN NoCommit
  ELSE git[CHOOSE b \in Lineage(a) : \A c \in Lineage(a) : c <= b].sha

Origin(a) == [number |-> ExistingNumber(a), sha |-> ExistingHead(a)]

Continues(a, n) == ExistingNumber(a) \in {0, n}

PullRequestPublished ==
  /\ Handling("pull_request_published")
  /\ LET a == op.attempt
         c == Content(op.event).sha
         n == Content(op.event).number
     IN \/ state \notin {"agent_running", "validating"} /\ Refuse
        \/ /\ state \in {"agent_running", "validating"}
           /\ \/ Continues(a, n) /\ RecordPullRequestCandidate(a, c, n) /\ Ack
              \/ ~(Continues(a, n) /\ CanRecordCandidate(a, c, n)) /\ Reject
  /\ KeepButAcks

(* candidateMatchesReceipt *)
Matches(a, e) ==
  /\ \/ git[a].state = "candidate" /\ pr[a].state \in {"reported", "open"}
     \/ git[a].state = "pushed" /\ pr[a].state = "open"
  /\ git[a].sha = e.sha /\ pr[a].number = e.number

(* The provider confirms the pull request, denies it for good, or (Abandon) *)
(* cannot be asked now.                                                     *)
PullRequestReady ==
  /\ Handling("pull_request_ready")
  /\ LET a == op.attempt
         e == Content(op.event)
         inOrder == AtOrAfter(state, "validating") /\ validation[a] = "succeeded"
     IN \/ ~(inOrder /\ Matches(a, e)) /\ Reject
        \/ /\ inOrder /\ Matches(a, e)
           /\ \/ git[a].state = "pushed" /\ Goto("promote") /\ KeepStore /\ UNCHANGED acks
              \/ /\ git[a].state = "candidate"
                 /\ \/ RecordVerifiedPullRequest(a, e.sha, e.number)
                       /\ Goto("promote") /\ UNCHANGED acks
                    \/ Reject
  /\ KeepButAcks

MarkProcessed ==
  /\ \E e \in acks : MarkWorkerEventProcessed(AttemptOf(e), e) /\ acks' = acks \ {e}
  /\ UNCHANGED <<clusterVars, registered, op, startups, reader>>

-----------------------------------------------------------------------------
(* Log readers, one per Pod; they hold no lock. *)

Lines(g) == Len(pods[g].log)
Stored(g) == EventsOf(g) \cap inbox[jobs[g].attempt]
PodTerminal(g) == pods[g].phase \in {"succeeded", "failed"}

ReaderAt(g, at) == jobs[g].status \notin {"none", "gone"} /\ reader[g].at = at
MoveReader(g, at) == reader' = [reader EXCEPT ![g].at = at]
KeepButReader == UNCHANGED <<clusterVars, registered, op, startups, acks>>

(* A line is stored only when the events before it are handled: an error    *)
(* of drainWorkerEvents ends the stream.                                    *)
ReadLine(g) ==
  /\ ReaderAt(g, "reading") /\ PodPresent(g)
  /\ Cardinality(Stored(g)) < Lines(g)
  /\ Pending(jobs[g].attempt) \cap EventsOf(g) = {}
  /\ AppendWorkerEvent(jobs[g].attempt, <<g, Cardinality(Stored(g)) + 1>>)
  /\ KeepButReader /\ UNCHANGED reader

(* A clean end of the stream.  The API server may end one early. *)
StreamEnds(g) ==
  /\ ReaderAt(g, "reading") /\ PodPresent(g)
  /\ ~exhausted[jobs[g].attempt]
  /\ SpuriousEOF \/ (PodTerminal(g) /\ Cardinality(Stored(g)) = Lines(g))
  /\ MoveReader(g, "eof")
  /\ KeepStore /\ KeepButReader

(* logsTerminal, asked after the stream ended. *)
CheckTerminal(g) ==
  /\ ReaderAt(g, "eof")
  /\ MoveReader(g, IF PodTerminal(g) \/ JobFinished(jobs[g].status) THEN "ended" ELSE "reading")
  /\ KeepStore /\ KeepButReader

(* Every stored event is drained; WorkerLogsExhausted reads the Job and the *)
(* Pod before it waits for the lock.                                        *)
ReadBarrier(g) ==
  /\ ReaderAt(g, "ended")
  /\ Pending(jobs[g].attempt) \cap EventsOf(g) = {}
  /\ PodPresent(g)
  /\ reader' = [reader EXCEPT ![g] = [at |-> "waiting", job |-> jobs[g].status]]
  /\ KeepStore /\ KeepButReader

(* WorkerLogsExhausted under the lock, judging by the status it read. *)
WorkerLogsExhausted(g) ==
  LET a == jobs[g].attempt
      verdict == IF a # current \/ cancelRequested \/ state \in Settled THEN "none"
                 ELSE reader[g].job
  IN /\ reader[g].at = "waiting" /\ op = Idle
     /\ MarkLogsExhausted(a)
     /\ \/ verdict = "failed"
           /\ op' = [Idle EXCEPT !.call = "logs", !.pc = "failedJob", !.attempt = a]
        \/ verdict = "complete"
           /\ op' = [Idle EXCEPT !.call = "logs", !.pc = "completedJob", !.attempt = a]
        \/ ~JobFinished(verdict) /\ UNCHANGED op
     /\ reader' = [reader EXCEPT ![g] = Reading]
     /\ UNCHANGED <<clusterVars, registered, startups, acks>>

(* An error, or the Pod or Job gone: the collector starts again. *)
ReaderFails(g) ==
  /\ reader[g].at # "reading"
  /\ reader' = [reader EXCEPT ![g] = Reading]
  /\ KeepStore /\ KeepButReader

-----------------------------------------------------------------------------
(* Other callers *)

RetryWithKey ==
  /\ op = Idle
  /\ \E key \in Keys \cup {NoKey}, v \in Versions : RetryTaskOnce(key, v)
  /\ startups' = startups \cup {current'}
  /\ UNCHANGED <<clusterVars, registered, op, acks, reader>>

(* startForgeEvent *)
FollowUp ==
  /\ op = Idle
  /\ \E batch \in SUBSET Feedback, v \in Versions : StartForgeEventAttempt(batch, v)
  /\ startups' = startups \cup {current'}
  /\ UNCHANGED <<clusterVars, registered, op, acks, reader>>

(* Mutant: the provider is asked about an attempt that pushed nothing. *)
RecoverFeedbackUnpushed ==
  /\ RunningFeedback(current) # {}
  /\ Begin("recover", "feedback", NoEvent) /\ UNCHANGED startups
  /\ KeepStore /\ UNCHANGED <<clusterVars, registered, acks, reader>>

(* recoverRunningForgeEvent: complete a pushed follow-up or start it again. *)
RecoverFeedback ==
  /\ RunningFeedback(current) # {}
  /\ IF git[current].state = "pushed"
     THEN Begin("recover", "feedback", NoEvent) /\ UNCHANGED startups
     ELSE op = Idle /\ startups' = startups \cup {current} /\ UNCHANGED op
  /\ KeepStore /\ UNCHANGED <<clusterVars, registered, acks, reader>>

(* ProcessForgeEvents persists failures and dismissals without the lock. *)
ProcessForgeEvents ==
  /\ \/ FailRunningFeedback(current)
     \/ \E batch \in SUBSET Feedback : FailPendingFeedback(batch)
     \/ \E f \in Feedback : forge[f].status = "pending" /\ MarkForgeEventHandled(f)
  /\ UNCHANGED <<clusterVars, registered, volatileVars>>

(* A timeout or an API or store error ends the operation where it is. *)
Abandon ==
  /\ op # Idle /\ Return
  /\ KeepStore /\ Keep

(* The controller process dies; the next one knows what is durable. *)
Crash ==
  /\ op' = Idle /\ startups' = {} /\ acks' = {}
  /\ reader' = [g \in Jobs |-> Reading]
  /\ KeepStore /\ UNCHANGED <<clusterVars, registered>>

-----------------------------------------------------------------------------

StartupNext ==
  \/ \E a \in Attempts : BeginStartup(a)
  \/ Snapshot \/ Advance \/ Intent \/ EnsureSecret \/ Register \/ EnsureJob
  \/ Complete \/ GiveUp \/ Surrender

ReconcileNext ==
  \/ BeginReconcile \/ Resume \/ Promote \/ Promoting \/ CompleteFeedback
  \/ Observe \/ Finish \/ Recover \/ FailedJob \/ Fail \/ CompletedJob

CancellationNext ==
  \/ Cancel \/ CancelApi
  \/ CancelDelete \/ CancelConfirm \/ CancelSecret \/ CancelLogs \/ CancelEvents

EventNext ==
  \/ \E g \in Jobs : BeginEvent(g)
  \/ AgentStarted \/ ValidationStarted \/ ValidationResult \/ ValidationSucceeded
  \/ ValidationFailed \/ Verdict \/ WorkerFailed \/ PullRequestPublished
  \/ PullRequestReady \/ MarkProcessed

ReaderNext == \E g \in Jobs :
  ReadLine(g) \/ StreamEnds(g) \/ CheckTerminal(g) \/ ReadBarrier(g)
    \/ WorkerLogsExhausted(g) \/ ReaderFails(g)

CallerNext == RetryWithKey \/ FollowUp \/ RecoverFeedback \/ ProcessForgeEvents

ClusterStep(A) == A /\ UNCHANGED <<storeVars, registered, volatileVars>>

ClusterNext == ClusterStep(
  \E g \in Jobs :
    \/ PodStarts(g) \/ WorkerExits(g) \/ PodRemoved(g) \/ JobFinishes(g)
    \/ DeadlinePasses(g) \/ JobExpires(g) \/ JobRemoved(g)
    \/ jobs[g].attempt # 0 /\ WorkerPrints(g, Origin(jobs[g].attempt)))

Next == \/ StartupNext \/ ReconcileNext \/ CancellationNext \/ EventNext
        \/ ReaderNext \/ CallerNext \/ Abandon \/ Crash \/ ClusterNext

Spec == ControllerInit /\ [][Next]_vars

(* What a cancellation needs: an operation ends, at the latest by its       *)
(* timeout; the periodic pass gets the lock again and again (WaitingEnds of *)
(* KeyedLocks); a call that every pass makes again succeeds at last; and    *)
(* Kubernetes carries out the deletion of a Job.                            *)
CancellationFairness ==
  /\ WF_vars(Abandon) /\ SF_vars(BeginReconcile)
  /\ SF_vars(CancelDelete) /\ SF_vars(CancelConfirm) /\ SF_vars(CancelSecret)
  /\ SF_vars(CancelLogs) /\ SF_vars(CancelEvents)
  /\ \A g \in Jobs : WF_vars(ClusterStep(jobs[g].deleting /\ (PodRemoved(g) \/ JobRemoved(g))))

-----------------------------------------------------------------------------

(* A CANCELLED task has no Job, no Pod and no registered Secret left:       *)
(* reconcileCancellation confirmed that its Job and Pod are gone before the *)
(* task says so, no later step brings them back, and a Secret registered for *)
(* cleanup went first.  A Secret that was created and not registered stays. *)
ConfirmedCancellation ==
  state = "cancelled" =>
    /\ JobOf(current) = {} /\ PodsOf(current) = {}
    /\ current \in registered => current \notin secrets

(* The commit of a verified pull request passed validation: some Pod of the *)
(* attempt published it and then ran every command on it with success,      *)
(* before it published anything else (Runner.Run, handleWorkerEvent and the *)
(* receipts together, over replayed and lost events and several Pods).      *)
HeadPassed(g, c) == LET log == pods[g].log IN
  Published(log) # {} /\ Candidate(log).sha = c /\ RoundOver(log) /\ ~RoundFailed(log)

PushedHeadPassedValidation ==
  \A a \in Existing : git[a].state = "pushed" =>
    \E g \in Jobs : jobs[g].attempt = a /\ HeadPassed(g, git[a].sha)

(* An acknowledged pull_request_ready is never lost: once it is marked      *)
(* processed, its task is at PR_OPEN or later, is over, or is being         *)
(* cancelled.                                                               *)
ReadyIsNotDropped ==
  \A e \in processed[current] :
    Content(e).type = "pull_request_ready" =>
      cancelRequested \/ state \in PullRequestStates \cup Settled

(* An accepted review or CI event is answered before it is done: once the   *)
(* event of a follow-up is handled, that follow-up (or the retry it was     *)
(* rebound to) has pushed its verified commit, or is being or was cancelled.*)
FeedbackIsAnswered ==
  \A f \in Feedback : LET a == forge[f].attempt IN
    forge[f].status = "handled" /\ a # 0 =>
      \/ git[a].state = "pushed"
      \/ a = current /\ (cancelRequested \/ state = "cancelled")

(* A requested cancellation ends: passes may stop at any call, the API may  *)
(* fail, a Job created just after the request may have to go, the process   *)
(* may die, but some pass gets through (reconcileCancellation).             *)
CancellationEnds == cancelRequested ~> state = "cancelled"

(* A cancelled follow-up lets go of its events: none stays running, where   *)
(* it would keep the task from any later follow-up.                         *)
CancellationReleasesFeedback == state = "cancelled" => RunningFeedback(current) = {}

(* An attempt that has a successor has no worker running: two workers never *)
(* work on one task.  Of an attempt whose Job was deleted and created again *)
(* only the first Job: the collector of the deleted one may close the log   *)
(* while the worker of the next one runs (WorkerLogsExhausted).             *)
FirstJob(g) == \A h \in 1..(g - 1) : jobs[h].attempt # jobs[g].attempt

PredecessorsStopped ==
  \A g \in Jobs : FirstJob(g) /\ jobs[g].attempt \in 1..(current - 1)
                   => pods[g].phase # "running"

(* The status of a Job decides a task only after its structured log: at     *)
(* such a step the log is exhausted and every worker event is processed.    *)
(* (A refused creation, "surrender", fails the task without a Job.)         *)
OutcomeFollowsLog ==
  [][op.call \in {"reconcile", "logs"} /\ op.pc # "surrender"
        /\ state' = "failed" /\ state # "failed"
       => exhausted[current] /\ Pending(current) = {}]_vars

(* "WorkerLogsExhausted durably records that structured replay has          *)
(* finished" (worker_events.go): every event a worker printed is stored.    *)
ReplayFinishedFirst ==
  [][\A g \in Jobs : reader[g].at = "waiting" /\ ~exhausted[jobs[g].attempt]
       /\ exhausted'[jobs[g].attempt] /\ reader'[g].at # "waiting"
         => Cardinality(Stored(g)) = Lines(g)]_vars

=============================================================================
