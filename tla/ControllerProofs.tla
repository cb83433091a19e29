-------------------------- MODULE ControllerProofs --------------------------
(***************************************************************************)
(* Proofs about Controller, for any number of attempts, Jobs, log lines,   *)
(* commands, fixes, commits, numbers, keys and forge events.               *)
(*                                                                         *)
(* 1. Each step of the controller is one transaction of the store or       *)
(*    leaves its rows alone, so everything TaskStoreProofs and             *)
(*    TaskRefinementProofs show of arbitrary callers holds here.           *)
(* 2. What the order of the steps of an operation adds: the outcome after  *)
(*    the log, the confirmed cancellation, the answered feedback, the      *)
(*    commit that passed validation, and the predecessor's ended worker.   *)
(***************************************************************************)
EXTENDS Controller, TaskRefinementProofs, FiniteSetTheorems

USE DomainAssumption DEF DomainAssumption, Attempts

Operations == [call : Calls, pc : Steps, attempt : Attempts,
               event : WorkerEvents \cup {NoEvent}, exhausted : BOOLEAN, job : JobStatuses]

(* The operation under way holds the task's lock, so no attempt is started  *)
(* beside it: it works on the current attempt.                              *)
OperationIsCurrent == op # Idle => op.attempt = current

(* A Job belongs to an attempt that exists, and only a Job has a reader.    *)
JobsBelong == \A g \in Jobs :
  /\ jobs[g] = NoJob \/ jobs[g].attempt \in Existing
  /\ reader[g].at # "reading" => jobs[g].attempt \in Existing

(* A stored, processed or handled event is a line of a Pod of its attempt.  *)
EventsWerePrinted ==
  /\ \A a \in Attempts : \A e \in inbox[a] :
       AttemptOf(e) = a /\ e[2] \in DOMAIN pods[e[1]].log
  /\ \A a \in Attempts : processed[a] \subseteq inbox[a]
  /\ \A e \in acks : AttemptOf(e) \in Existing /\ e \in inbox[AttemptOf(e)]
  /\ op.call = "event" => op.event \in inbox[op.attempt]
  /\ op.pc \in {"handle", "verdict"} => op.call = "event"

ControllerInv ==
  ControllerTypeOK /\ OperationIsCurrent /\ JobsBelong /\ EventsWerePrinted

(* What an operation knows about the log when it decides by a Job's status. *)
LogWasRead ==
  /\ op.exhausted => exhausted[op.attempt]
  /\ op.pc \in {"failedJob", "completedJob"} => exhausted[op.attempt]
  /\ op.pc = "fail" /\ op.call # "event" =>
       exhausted[op.attempt] /\ Pending(op.attempt) = {}

(* Nothing a pull_request_ready event could still do. *)
Decided == cancelRequested \/ state \in PullRequestStates \cup Settled

ReadyIsDone ==
  /\ \A e \in acks \cup processed[current] :
       AttemptOf(e) = current /\ Content(e).type = "pull_request_ready" => Decided
  /\ op.pc = "feedback" /\ op.call = "event" => Decided

(* The steps of a cancellation, and those after the cluster was found empty.*)
Cancelling == {"cancelApi", "cancelDelete", "cancelConfirm", "cancelSecret",
               "cancelLogs", "cancelEvents"}
Confirmed == {"cancelSecret", "cancelLogs", "cancelEvents"}

NothingRuns == JobOf(current) = {} /\ PodsOf(current) = {}
SecretGone == current \in registered => current \notin secrets

CancellationInOrder ==
  /\ op.pc \in Cancelling => cancelRequested
  /\ op.pc \in Confirmed => NothingRuns
  /\ op.pc \in {"cancelLogs", "cancelEvents"} => SecretGone
  /\ op.pc = "cancelEvents" => exhausted[current]
  /\ state = "cancelled" =>
       /\ op = Idle /\ NothingRuns /\ SecretGone
       /\ exhausted[current] /\ RunningFeedback(current) = {}

FeedbackInOrder ==
  /\ op.pc = "feedback" => git[op.attempt].state = "pushed"
  /\ \A f \in Feedback : forge[f].status = "pending" => forge[f].attempt = 0
  /\ FeedbackIsAnswered

(* A validation round: what a log holds when its last event is of a type.   *)
Passed(log) == Published(log) # {} /\ RoundOver(log) /\ ~RoundFailed(log)
LogInOrder(log) ==
  /\ Published(log) # {} => \E i \in Published(log) : \A k \in Published(log) : k <= i
  /\ \A i \in DOMAIN log : log[i].type = "pull_request_ready" => i = Len(log)
  /\ log # <<>> => LET last == log[Len(log)] IN
       /\ last.type \in {"validation_started", "validation_result"} => Published(log) # {}
       /\ last.type \in {"validation_succeeded", "pull_request_ready"} => Passed(log)
       /\ last.type = "pull_request_ready" => Candidate(log).sha = last.sha

ReadyLog(g, a, c) ==
  /\ jobs[g].attempt = a /\ Succeeded(pods[g].log)
  /\ pods[g].log[Len(pods[g].log)].sha = c

PushedWasReady ==
  \A a \in Existing : git[a].state = "pushed" => \E g \in Jobs : ReadyLog(g, a, git[a].sha)
-----------------------------------------------------------------------------
(* How one step moves the operation *)

(* It goes on with the same call, attempt and event ... *)
GoesOn ==
  /\ op # Idle /\ op' \in Operations
  /\ op'.call = op.call /\ op'.attempt = op.attempt /\ op'.event = op.event

(* ... or begins on the current attempt. *)
Begins == op = Idle /\ op' \in Operations /\ op'.attempt = current

(* The step that leads to each of these points of an operation. *)
Entered(pc) ==
  /\ op'.call = "event" => op.call = "event" \/ \E g \in Jobs : BeginEvent(g)
  /\ op'.exhausted => op.exhausted \/ exhausted[op'.attempt] \/ Finish
  /\ pc \in {"failedJob", "completedJob"} => Finish \/ \E g \in Jobs : WorkerLogsExhausted(g)
  /\ pc = "fail" => FailedJob \/ Verdict
  /\ pc = "feedback" => Promoting \/ RecoverFeedback
  /\ pc = "intent" => Advance
  /\ pc = "secret" => Intent
  /\ pc = "register" => EnsureSecret
  /\ pc = "job" => Register
  /\ pc = "giveup" => EnsureSecret \/ EnsureJob
  /\ pc = "surrender" => GiveUp
  /\ pc = "resume" => Advance \/ EnsureJob \/ Complete
  /\ pc = "promote" => Resume \/ PullRequestReady
  /\ pc = "promoting" => Promote
  /\ pc = "observe" => Resume \/ Promote \/ CompleteFeedback
  /\ pc = "finish" => Observe \/ Finish
  /\ pc \in {"snapshot", "advance"} =>
       Snapshot \/ Advance \/ BeginReconcile \/ \E a \in Attempts : BeginStartup(a)
  /\ pc = "handle" => AgentStarted \/ \E g \in Jobs : BeginEvent(g)
  /\ pc = "verdict" => ValidationFailed
  /\ pc = "cancelApi" => Cancel
  /\ pc = "cancelDelete" => BeginReconcile
  /\ pc = "cancelConfirm" => CancelDelete
  /\ pc = "cancelSecret" => CancelConfirm
  /\ pc = "cancelLogs" => CancelSecret
  /\ pc = "cancelEvents" => CancelLogs

(* The points a step may move an operation to.                              *)
LEMMA IdleRow == Idle \in Operations /\ Idle.pc = "idle" /\ Idle.call = "idle" /\ ~Idle.exhausted
BY DEF Idle, Operations, Calls, Steps, JobStatuses, NoJobStatus

(* An operation that is somewhere is not idle, and goes on from there.      *)
LEMMA GotoStep ==
  ASSUME op \in Operations, NEW p \in Steps, op.pc # "idle", Goto(p)
  PROVE  GoesOn /\ op'.pc = p /\ op'.exhausted = op.exhausted
BY IdleRow DEF Goto, GoesOn, Operations

(* A locked operation begins on the current attempt and what its row says.  *)
LEMMA BeginStep ==
  ASSUME ControllerTypeOK, NEW call \in Calls, NEW p \in Steps,
         NEW e \in WorkerEvents \cup {NoEvent}, Begin(call, p, e)
  PROVE  /\ Begins /\ op'.call = call /\ op'.pc = p /\ op'.event = e
         /\ op'.exhausted = exhausted[current] /\ op'.attempt = current
<1>1. current \in Attempts /\ exhausted[current] \in BOOLEAN
  BY DEF ControllerTypeOK, StoreTypeOK
<1>2. op' = [call |-> call, pc |-> p, attempt |-> current, event |-> e,
             exhausted |-> exhausted[current], job |-> NoJobStatus]
  BY DEF Begin, Idle
<1>3. NoJobStatus \in JobStatuses
  BY DEF NoJobStatus, JobStatuses
<1>4. op' \in Operations
  BY <1>1, <1>2, <1>3 DEF Operations
<1> QED
  BY <1>2, <1>4 DEF Begin, Begins

(* A startup begins on the current attempt, with nothing known of its log.  *)
LEMMA StartupBegins ==
  ASSUME ControllerTypeOK, NEW a \in Attempts, BeginStartup(a)
  PROVE  \/ op' = op
         \/ /\ Begins /\ op'.pc \in {"snapshot", "advance"} /\ op'.call \in {"create", "start"}
            /\ ~op'.exhausted
<1> SUFFICES ASSUME op' # op
             PROVE  /\ Begins /\ op'.pc \in {"snapshot", "advance"}
                    /\ op'.call \in {"create", "start"} /\ ~op'.exhausted
  OBVIOUS
<1>1. PICK call \in {"create", "start"}, p \in {"snapshot", "advance"} :
        op' = [call |-> call, pc |-> p, attempt |-> a, event |-> NoEvent,
               exhausted |-> FALSE, job |-> NoJobStatus]
  BY DEF BeginStartup, Idle
<1>2. op = Idle /\ a = current
  BY DEF BeginStartup
<1>3. call \in Calls /\ p \in Steps /\ NoJobStatus \in JobStatuses /\ FALSE \in BOOLEAN
  BY DEF Calls, Steps, NoJobStatus, JobStatuses
<1>4. op' \in Operations
  BY <1>1, <1>3 DEF Operations
<1> QED
  BY <1>1, <1>2, <1>4 DEF Begins

(* The other operations begin with what the row of the current attempt says.*)
LEMMA OperationBegins ==
  ASSUME ControllerTypeOK
  PROVE  LET Begun(call, pcs) == /\ Begins /\ op'.call = call /\ op'.pc \in pcs
                                 /\ op'.exhausted = exhausted[op'.attempt]
         IN  /\ BeginReconcile => Begun("reconcile", {"cancelDelete", "advance"})
             /\ Cancel => Begun("cancel", {"cancelApi"})
             /\ \A g \in Jobs : BeginEvent(g) => op' = op \/ Begun("event", {"handle"})
             /\ RecoverFeedback => op' = op \/ Begun("recover", {"feedback"})
<1> DEFINE Begun(call, pcs) == /\ Begins /\ op'.call = call /\ op'.pc \in pcs
                               /\ op'.exhausted = exhausted[op'.attempt]
<1>1. ASSUME NEW call \in Calls, NEW p \in Steps, NEW e \in WorkerEvents \cup {NoEvent},
             Begin(call, p, e)
      PROVE  Begun(call, {p})
  BY <1>1, BeginStep
<1> HIDE DEF Begun
<1>2. /\ {"reconcile", "cancel", "event", "recover"} \subseteq Calls
      /\ {"cancelDelete", "advance", "cancelApi", "handle", "feedback"} \subseteq Steps
  BY DEF Calls, Steps
<1>3. ASSUME BeginReconcile PROVE Begun("reconcile", {"cancelDelete", "advance"})
  <2>1. PICK p \in {"cancelDelete", "advance"} : Begin("reconcile", p, NoEvent)
    BY <1>3 DEF BeginReconcile
  <2>2. Begun("reconcile", {p})
    BY <1>1, <1>2, <2>1
  <2> QED
    BY <2>2 DEF Begun
<1>4. Cancel => Begun("cancel", {"cancelApi"})
  BY <1>1, <1>2 DEF Cancel
<1>5. \A g \in Jobs : BeginEvent(g) => op' = op \/ Begun("event", {"handle"})
  <2> SUFFICES ASSUME NEW g \in Jobs, BeginEvent(g), op' # op PROVE Begun("event", {"handle"})
    OBVIOUS
  <2>1. PICK e \in WorkerEvents : Begin("event", "handle", e)
    BY DEF BeginEvent
  <2> QED
    BY <1>1, <1>2, <2>1
<1>6. RecoverFeedback => op' = op \/ Begun("recover", {"feedback"})
  BY <1>1, <1>2 DEF RecoverFeedback
<1> QED
  BY <1>3, <1>4, <1>5, <1>6 DEF Begun

(* Every step leaves the operation where it is, ends it, takes it one point *)
(* further, or begins one on the current attempt.                           *)
LEMMA OperationStep ==
  ASSUME ControllerTypeOK, Next
  PROVE  /\ op' = op \/ op' = Idle \/ GoesOn \/ Begins
         /\ op' # op => Entered(op'.pc)
<1>1. op \in Operations /\ \A g \in Jobs : jobs[g].status \in JobStatuses
  BY DEF ControllerTypeOK, Operations, ClusterTypeOK, JobRows
<1> DEFINE Goal == /\ op' = op \/ op' = Idle \/ GoesOn \/ Begins
                   /\ op' # op => Entered(op'.pc)
<1> USE DEF At, Goto, Return, TransitionThen, TransitionLast, TransitionAck, Ack, Refuse, Reject,
            Refused, Promoted, GoesOn, Begins, Entered, Operations, Idle
<1>2. ASSUME StartupNext PROVE Goal
  <2>1. CASE \E a \in Attempts : BeginStartup(a)
    <3>1. PICK a \in Attempts : BeginStartup(a)
      BY <2>1
    <3>2. CASE op' = op
      BY <3>2
    <3>3. CASE op' # op
      BY <2>1, <3>1, <3>3, StartupBegins
    <3> QED
      BY <3>2, <3>3
  <2>2. CASE Snapshot
    BY <1>1, <2>2 DEF Snapshot, Calls, Steps
  <2>3. CASE Advance
    BY <1>1, <2>3 DEF Advance, Calls, Steps
  <2>4. CASE Intent
    BY <1>1, <2>4 DEF Intent, Calls, Steps
  <2>5. CASE EnsureSecret
    BY <1>1, <2>5 DEF EnsureSecret, Calls, Steps
  <2>6. CASE Register
    BY <1>1, <2>6 DEF Register, Calls, Steps
  <2>7. CASE EnsureJob
    BY <1>1, <2>7 DEF EnsureJob, Calls, Steps
  <2>8. CASE Complete
    BY <1>1, <2>8 DEF Complete, Calls, Steps
  <2>9. CASE GiveUp
    BY <1>1, <2>9 DEF GiveUp, Calls, Steps
  <2>10. CASE Surrender
    BY <1>1, <2>10 DEF Surrender, Calls, Steps
  <2> QED
    BY <1>2, <2>1, <2>2, <2>3, <2>4, <2>5, <2>6, <2>7, <2>8, <2>9, <2>10 DEF StartupNext
<1>3. ASSUME ReconcileNext PROVE Goal
  <2>1. CASE BeginReconcile
    <3>1. /\ Begins /\ op'.pc \in {"cancelDelete", "advance"} /\ op'.call = "reconcile"
          /\ op'.exhausted = exhausted[op'.attempt]
      BY <2>1, OperationBegins
    <3> QED
      BY <2>1, <3>1
  <2>2. CASE Resume
    BY <1>1, <2>2 DEF Resume, Calls, Steps
  <2>3. CASE Promote
    BY <1>1, <2>3 DEF Promote, Calls, Steps
  <2>4. CASE Promoting
    BY <1>1, <2>4 DEF Promoting, Calls, Steps
  <2>5. CASE CompleteFeedback
    BY <1>1, <2>5 DEF CompleteFeedback, Calls, Steps
  <2>6. CASE Observe
    <3>1. CASE op' = Idle
      BY <3>1
    <3>2. CASE op' # Idle
      <4>1. PICK g \in Jobs : /\ op.pc = "observe"
                             /\ op' = [[op EXCEPT !.pc = "finish"] EXCEPT !.job = jobs[g].status]
        BY <2>6, <3>2 DEF Observe, JobOf
      <4> DEFINE there == [op EXCEPT !.pc = "finish"]
      <4>2. /\ there \in Operations /\ there.pc = "finish" /\ there.call = op.call
            /\ there.attempt = op.attempt /\ there.event = op.event
            /\ there.exhausted = op.exhausted
        BY <1>1 DEF Steps
      <4>3. jobs[g].status \in JobStatuses /\ op' = [there EXCEPT !.job = jobs[g].status]
        BY <1>1, <4>1
      <4> HIDE DEF there
      <4>4. /\ op' \in Operations /\ op'.pc = "finish" /\ op'.call = op.call
            /\ op'.attempt = op.attempt /\ op'.event = op.event
            /\ op'.exhausted = op.exhausted
        BY <4>2, <4>3
      <4> QED
        BY <2>6, <4>1, <4>4
    <3> QED
      BY <3>1, <3>2
  <2>7. CASE Finish
    <3>1. /\ op.pc = "finish"
          /\ \/ op' \in {Idle, [op EXCEPT !.exhausted = TRUE]}
             \/ \E p \in {"failedJob", "completedJob", "recover"} : op' = [op EXCEPT !.pc = p]
      BY <2>7 DEF Finish
    <3>2. CASE op' = [op EXCEPT !.exhausted = TRUE]
      <4>1. op' = [call |-> op.call, pc |-> "finish", attempt |-> op.attempt, event |-> op.event,
                   exhausted |-> TRUE, job |-> op.job]
        BY <1>1, <3>1, <3>2
      <4>2. TRUE \in BOOLEAN
        OBVIOUS
      <4>3. op' \in Operations
        BY <1>1, <3>1, <4>1, <4>2
      <4> QED
        BY <2>7, <3>1, <4>1, <4>3
    <3>3. ASSUME NEW p \in {"failedJob", "completedJob", "recover"}, op' = [op EXCEPT !.pc = p]
          PROVE  GoesOn /\ op'.pc = p
      BY <1>1, <3>1, <3>3 DEF Steps
    <3> QED
      BY <2>7, <3>1, <3>2, <3>3
  <2>8. CASE Recover
    BY <1>1, <2>8 DEF Recover, Calls, Steps
  <2>9. CASE FailedJob
    BY <1>1, <2>9 DEF FailedJob, Calls, Steps
  <2>10. CASE Fail
    BY <1>1, <2>10 DEF Fail, Calls, Steps
  <2>11. CASE CompletedJob
    BY <1>1, <2>11 DEF CompletedJob, Calls, Steps
  <2> QED
    BY <1>3, <2>1, <2>2, <2>3, <2>4, <2>5, <2>6, <2>7, <2>8, <2>9, <2>10, <2>11 DEF ReconcileNext
<1>4. ASSUME CancellationNext PROVE Goal
  <2>1. CASE Cancel
    <3>1. Begins /\ op'.pc = "cancelApi" /\ op'.call = "cancel" /\ op'.exhausted = exhausted[op'.attempt]
      BY <2>1, OperationBegins
    <3> QED
      BY <2>1, <3>1
  <2>2. CASE CancelApi
    BY <1>1, <2>2 DEF CancelApi, Calls, Steps
  <2>3. CASE CancelDelete
    BY <1>1, <2>3 DEF CancelDelete, Calls, Steps
  <2>4. CASE CancelConfirm
    BY <1>1, <2>4 DEF CancelConfirm, Calls, Steps
  <2>5. CASE CancelSecret
    BY <1>1, <2>5 DEF CancelSecret, Calls, Steps
  <2>6. CASE CancelLogs
    BY <1>1, <2>6 DEF CancelLogs, Calls, Steps
  <2>7. CASE CancelEvents
    BY <1>1, <2>7 DEF CancelEvents, Calls, Steps
  <2> QED
    BY <1>4, <2>1, <2>2, <2>3, <2>4, <2>5, <2>6, <2>7 DEF CancellationNext
<1>5. ASSUME EventNext PROVE Goal
  <2>1. CASE \E g \in Jobs : BeginEvent(g)
    <3>1. op' # op => Begins /\ op'.pc = "handle" /\ op'.exhausted = exhausted[op'.attempt]
      BY <2>1, OperationBegins
    <3> QED
      BY <2>1, <3>1
  <2>2. CASE AgentStarted
    BY <1>1, <2>2 DEF AgentStarted, Handling, Calls, Steps
  <2>3. CASE ValidationStarted
    BY <1>1, <2>3 DEF ValidationStarted, Handling, Calls, Steps
  <2>4. CASE ValidationResult
    BY <1>1, <2>4 DEF ValidationResult, Handling, Calls, Steps
  <2>5. CASE ValidationSucceeded
    BY <1>1, <2>5 DEF ValidationSucceeded, Handling, Calls, Steps
  <2>6. CASE ValidationFailed
    BY <1>1, <2>6 DEF ValidationFailed, Handling, Calls, Steps
  <2>7. CASE Verdict
    BY <1>1, <2>7 DEF Verdict, Handling, Calls, Steps
  <2>8. CASE WorkerFailed
    BY <1>1, <2>8 DEF WorkerFailed, Handling, Calls, Steps
  <2>9. CASE PullRequestPublished
    BY <1>1, <2>9 DEF PullRequestPublished, Handling, Calls, Steps
  <2>10. CASE PullRequestReady
    BY <1>1, <2>10 DEF PullRequestReady, Handling, Calls, Steps
  <2>11. CASE MarkProcessed
    BY <1>1, <2>11 DEF MarkProcessed, Handling, Calls, Steps
  <2> QED
    BY <1>5, <2>1, <2>2, <2>3, <2>4, <2>5, <2>6, <2>7, <2>8, <2>9, <2>10, <2>11 DEF EventNext
<1>6. ASSUME ReaderNext PROVE Goal
  <2>1. PICK g \in Jobs : \/ WorkerLogsExhausted(g) \/ ReadLine(g) \/ StreamEnds(g)
                            \/ CheckTerminal(g) \/ ReadBarrier(g) \/ ReaderFails(g)
    BY <1>6 DEF ReaderNext
  <2>2. CASE WorkerLogsExhausted(g)
    <3>1. CASE op' = op
      BY <3>1
    <3>2. CASE op' # op
      <4>1. /\ op = Idle /\ jobs[g].attempt = current
            /\ \E p \in {"failedJob", "completedJob"} :
                 op' = [[[Idle EXCEPT !.call = "logs"] EXCEPT !.pc = p]
                          EXCEPT !.attempt = current]
        BY <2>2, <3>2 DEF WorkerLogsExhausted, JobFinished
      <4>2. current \in Attempts
        BY DEF ControllerTypeOK, StoreTypeOK
      <4> QED
        BY <1>1, <2>2, <4>1, <4>2, IdleRow DEF Calls, Steps
    <3> QED
      BY <3>1, <3>2
  <2>3. CASE ReadLine(g) \/ StreamEnds(g) \/ CheckTerminal(g) \/ ReadBarrier(g) \/ ReaderFails(g)
    BY <2>3 DEF ReadLine, StreamEnds, CheckTerminal, ReadBarrier, ReaderFails, KeepButReader
  <2> QED
    BY <2>1, <2>2, <2>3
<1>7. ASSUME CallerNext PROVE Goal
  <2>1. CASE RetryWithKey \/ FollowUp \/ ProcessForgeEvents
    BY <2>1 DEF RetryWithKey, FollowUp, ProcessForgeEvents, volatileVars
  <2>2. CASE RecoverFeedback
    <3>1. CASE op' = op
      BY <3>1
    <3>2. CASE op' # op
      <4>1. /\ Begins /\ op'.pc = "feedback" /\ op'.call = "recover"
            /\ op'.exhausted = exhausted[op'.attempt]
        BY <2>2, <3>2, OperationBegins
      <4> QED
        BY <2>2, <4>1
    <3> QED
      BY <3>1, <3>2
  <2> QED
    BY <1>7, <2>1, <2>2 DEF CallerNext
<1>8. ASSUME Abandon \/ Crash \/ ClusterNext PROVE Goal
  BY <1>8 DEF Abandon, Crash, ClusterNext, ClusterStep, volatileVars
<1> QED
  BY <1>2, <1>3, <1>4, <1>5, <1>6, <1>7, <1>8 DEF Next

-----------------------------------------------------------------------------
(* Every step is a transaction of the store *)

(* A transaction other than the insert of a new attempt. *)
OwnNext == LifecycleNext \/ ValidationNext \/ LogNext \/ ResultNext \/ ForgeNext

(* The transactions the operations make, as steps of the store.             *)
LEMMA Transactions ==
  /\ \A to \in States : Transition(state, to) => OwnNext
  /\ \A e \in WorkerEvents : TransitionValidating(state, e) => OwnNext
  /\ RequestCancellation => OwnNext
  /\ \A a \in Existing : MarkLogsExhausted(a) \/ FailRunningFeedback(a) => OwnNext
  /\ \A a \in Existing, v \in Versions : SaveAttemptSnapshot(a, v) => OwnNext
  /\ \A a \in Existing, e \in WorkerEvents :
       \/ AppendWorkerEvent(a, e) \/ MarkWorkerEventProcessed(a, e)
       \/ RecordValidationStartedOnce(a, e)
       => OwnNext
  /\ \A a \in Existing, verdict \in {"succeeded", "failed"} :
       /\ MarkValidationComplete(a, verdict) => OwnNext
       /\ \A e \in WorkerEvents : RecordValidationResultOnce(a, e, verdict) => OwnNext
  /\ \A a \in Existing, c \in Commits, n \in Numbers :
       RecordPullRequestCandidate(a, c, n) \/ RecordVerifiedPullRequest(a, c, n) => OwnNext
  /\ \A f \in Feedback : MarkForgeEventHandled(f) => OwnNext
  /\ \A batch \in SUBSET Feedback : FailPendingFeedback(batch) => OwnNext
<1>1. /\ \A to \in States : Transition(state, to) => LifecycleNext
      /\ \A e \in WorkerEvents : TransitionValidating(state, e) => LifecycleNext
      /\ RequestCancellation => LifecycleNext
  BY DEF LifecycleNext
<1>2. /\ \A a \in Existing : MarkLogsExhausted(a) => LogNext
      /\ \A a \in Existing, v \in Versions : SaveAttemptSnapshot(a, v) => LogNext
      /\ \A a \in Existing, e \in WorkerEvents :
           AppendWorkerEvent(a, e) \/ MarkWorkerEventProcessed(a, e) => LogNext
  BY DEF LogNext
<1>3. /\ \A a \in Existing, e \in WorkerEvents : RecordValidationStartedOnce(a, e) => ValidationNext
      /\ \A a \in Existing, e \in WorkerEvents, verdict \in {"succeeded", "failed"} :
           RecordValidationResultOnce(a, e, verdict) => ValidationNext
      /\ \A a \in Existing, verdict \in {"succeeded", "failed"} :
           MarkValidationComplete(a, verdict) => ValidationNext
  BY DEF ValidationNext
<1>4. \A a \in Existing, c \in Commits, n \in Numbers :
        RecordPullRequestCandidate(a, c, n) \/ RecordVerifiedPullRequest(a, c, n) => ResultNext
  BY DEF ResultNext
<1>5. /\ \A a \in Existing : FailRunningFeedback(a) => ForgeNext
      /\ \A f \in Feedback : MarkForgeEventHandled(f) => ForgeNext
      /\ \A batch \in SUBSET Feedback : FailPendingFeedback(batch) => ForgeNext
  BY DEF ForgeNext
<1>6. /\ \A to \in States : Transition(state, to) => OwnNext
      /\ \A e \in WorkerEvents : TransitionValidating(state, e) => OwnNext
      /\ RequestCancellation => OwnNext
  BY <1>1 DEF OwnNext
<1>7. /\ \A a \in Existing : MarkLogsExhausted(a) \/ FailRunningFeedback(a) => OwnNext
      /\ \A a \in Existing, v \in Versions : SaveAttemptSnapshot(a, v) => OwnNext
  BY <1>2, <1>5 DEF OwnNext
<1>8. \A a \in Existing, e \in WorkerEvents :
        \/ AppendWorkerEvent(a, e) \/ MarkWorkerEventProcessed(a, e)
        \/ RecordValidationStartedOnce(a, e)
        => OwnNext
  BY <1>2, <1>3 DEF OwnNext
<1>9. \A a \in Existing, verdict \in {"succeeded", "failed"} :
        /\ MarkValidationComplete(a, verdict) => OwnNext
        /\ \A e \in WorkerEvents : RecordValidationResultOnce(a, e, verdict) => OwnNext
  BY <1>3 DEF OwnNext
<1>10. /\ \A a \in Existing, c \in Commits, n \in Numbers :
            RecordPullRequestCandidate(a, c, n) \/ RecordVerifiedPullRequest(a, c, n) => OwnNext
       /\ \A f \in Feedback : MarkForgeEventHandled(f) => OwnNext
       /\ \A batch \in SUBSET Feedback : FailPendingFeedback(batch) => OwnNext
  BY <1>4, <1>5 DEF OwnNext
<1> QED
  BY <1>6, <1>7, <1>8, <1>9, <1>10

(* The fields of an event, by its type.                                     *)
LEMMA EventFields ==
  ASSUME NEW e \in Events
  PROVE  /\ e.type = "validation_result" => e.verdict \in {"succeeded", "failed"}
         /\ e.type \in Identities => e.sha \in Commits /\ e.number \in Numbers
<1>1. CASE e \in {Signal(type) : type \in Signals}
  <2>1. PICK type \in Signals : e = Signal(type)
    BY <1>1
  <2>2. e.type = type
    BY <2>1 DEF Signal
  <2> QED
    BY <2>2 DEF Signals, Identities
<1>2. CASE e \in {Result(v) : v \in {"succeeded", "failed"}}
  <2>1. PICK v \in {"succeeded", "failed"} : e = Result(v)
    BY <1>2
  <2>2. e.type = "validation_result" /\ e.verdict = v
    BY <2>1 DEF Result, Signal
  <2> QED
    BY <2>2 DEF Identities
<1>3. CASE e \in {Identity(type, c, n) : type \in Identities, c \in Commits, n \in Numbers}
  <2>1. PICK type \in Identities, c \in Commits, n \in Numbers : e = Identity(type, c, n)
    BY <1>3
  <2>2. e.type = type /\ e.sha = c /\ e.number = n
    BY <2>1 DEF Identity
  <2> QED
    BY <2>2 DEF Identities
<1> QED
  BY <1>1, <1>2, <1>3 DEF Events

(* A stored event is a line of the log of a Job.                            *)
LEMMA StoredEvent ==
  ASSUME ControllerInv, NEW a \in Attempts, NEW e \in inbox[a]
  PROVE  /\ e \in WorkerEvents /\ e[1] \in Jobs /\ AttemptOf(e) = a
         /\ e[2] \in DOMAIN pods[e[1]].log /\ Content(e) \in Events
<1>1. e \in Jobs \X (1..MaxLines)
  BY ControllerAssumption DEF ControllerAssumption, ControllerInv, ControllerTypeOK, StoreTypeOK
<1>2. e[2] \in DOMAIN pods[e[1]].log /\ AttemptOf(e) = a
  BY DEF ControllerInv, EventsWerePrinted
<1>3. pods[e[1]].log \in Seq(Events)
  BY <1>1 DEF ControllerInv, ControllerTypeOK, ClusterTypeOK
<1>4. Content(e) \in Events
  BY <1>2, <1>3 DEF Content
<1> QED
  BY <1>1, <1>2, <1>4, ControllerAssumption DEF ControllerAssumption

(* What an operation may rely on: its attempt exists, and its event too.    *)
LEMMA UnderWay ==
  ASSUME ControllerInv
  PROVE  /\ op.pc # "idle" => op.attempt = current
         /\ current \in Existing /\ current \in Attempts /\ op \in Operations
         /\ op.pc \in {"handle", "verdict"} =>
              /\ op.call = "event"
              /\ op.event \in inbox[current] /\ op.event \in WorkerEvents
              /\ Content(op.event) \in Events
<1>1. current \in Attempts /\ op \in Operations
  <2>1. StoreTypeOK /\ op \in Operations
    BY DEF ControllerInv, ControllerTypeOK, Operations
  <2> QED
    BY <2>1 DEF StoreTypeOK
<1>4. current \in 1..current
  BY <1>1
<1>2. op.pc # "idle" => op.attempt = current
  BY IdleRow DEF ControllerInv, OperationIsCurrent
<1>3. ASSUME op.pc \in {"handle", "verdict"}
      PROVE  op.call = "event" /\ op.event \in inbox[current]
  BY <1>2, <1>3 DEF ControllerInv, EventsWerePrinted
<1> QED
  BY <1>1, <1>2, <1>3, <1>4, StoredEvent DEF Existing

(* The bound on the lines of a log is a number.                             *)
LEMMA MaxLogNat == MaxLog \in Nat
<1>1. Commands \in Nat /\ MaxFixes \in Nat
  BY WorkerAssumption DEF WorkerAssumption
<1>2. \A m, n \in Nat : m * n \in Nat
  OBVIOUS
<1>3. MaxFixes + 1 \in Nat /\ 2 + 2 * Commands \in Nat
  BY <1>1
<1> QED
  BY <1>2, <1>3 DEF MaxLog

(* The lines a reader has stored are counted by a natural number, and the    *)
(* next one is an event of the worker.                                      *)
LEMMA StoredCount ==
  ASSUME ControllerInv, NEW g \in Jobs, jobs[g].attempt \in Attempts
  PROVE  /\ Cardinality(Stored(g)) \in Nat
         /\ Cardinality(Stored(g)) < Lines(g) =>
              /\ <<g, Cardinality(Stored(g)) + 1>> \in WorkerEvents
              /\ Cardinality(Stored(g)) + 1 \in DOMAIN pods[g].log
<1>1. WorkerEvents = Jobs \X (1..MaxLines) /\ MaxLines \in Nat /\ MaxJobs \in Nat
  BY ControllerAssumption, ClusterAssumption, MaxLogNat DEF ControllerAssumption, ClusterAssumption
<1>2. IsFiniteSet(1..MaxJobs) /\ IsFiniteSet(1..MaxLines)
  BY <1>1, FS_Interval
<1>3. IsFiniteSet(WorkerEvents)
  BY <1>1, <1>2, FS_Product DEF Jobs
<1>4. Stored(g) \subseteq WorkerEvents
  BY DEF Stored, EventsOf
<1>5. Cardinality(Stored(g)) \in Nat
  BY <1>3, <1>4, FS_Subset, FS_CardinalityType
<1>6. pods[g].log \in Seq(Events) /\ Len(pods[g].log) <= MaxLines
  BY DEF ControllerInv, ControllerTypeOK, ClusterTypeOK
<1> QED
  BY <1>1, <1>5, <1>6 DEF Lines

(* Every step of the controller and of the cluster is one transaction with   *)
(* arguments the store knows, or leaves the store alone.                    *)
LEMMA StoreStep ==
  ASSUME ControllerInv, Next
  PROVE  \/ [OwnNext]_storeVars
         \/ AttemptNext /\ UNCHANGED <<clusterVars, registered, op, acks, reader>> /\ op = Idle
<1>1. /\ op.pc # "idle" => op.attempt \in Existing
      /\ current \in Existing /\ current \in Attempts /\ op \in Operations
      /\ op.pc \in {"handle", "verdict"} => op.event \in WorkerEvents /\ Content(op.event) \in Events
  BY UnderWay
<1>2. /\ "queued" \in States /\ "creating_job" \in States /\ "job_pending" \in States
      /\ "running" \in States /\ "agent_running" \in States /\ "validating" \in States
      /\ "committing" \in States /\ "pushing" \in States /\ "creating_pr" \in States
      /\ "pr_open" \in States /\ "failed" \in States /\ "cancelled" \in States
  BY DEF States
<1>3. "succeeded" \in {"succeeded", "failed"} /\ "failed" \in {"succeeded", "failed"}
  OBVIOUS
<1> DEFINE Goal == OwnNext \/ UNCHANGED storeVars
<1> USE DEF KeepStore
<1>4. ASSUME StartupNext PROVE Goal
  <2>1. CASE \E a \in Attempts : BeginStartup(a)
    BY <1>1, <1>2, <1>3, <2>1, Transactions DEF BeginStartup
  <2>2. CASE Snapshot
    BY <1>1, <1>2, <1>3, <2>2, Transactions DEF Snapshot, At
  <2>3. CASE Advance
    BY <1>1, <1>2, <1>3, <2>3, Transactions DEF Advance, TransitionThen
  <2>4. CASE Intent
    BY <1>1, <1>2, <1>3, <2>4, Transactions DEF Intent, At
  <2>5. CASE EnsureSecret
    BY <1>1, <1>2, <1>3, <2>5, Transactions DEF EnsureSecret
  <2>6. CASE Register
    BY <1>1, <1>2, <1>3, <2>6, Transactions DEF Register
  <2>7. CASE EnsureJob
    BY <1>1, <1>2, <1>3, <2>7, Transactions DEF EnsureJob
  <2>8. CASE Complete
    BY <1>1, <1>2, <1>3, <2>8, Transactions DEF Complete, TransitionThen, TransitionLast
  <2>9. CASE GiveUp
    BY <1>1, <1>2, <1>3, <2>9, Transactions DEF GiveUp, At
  <2>10. CASE Surrender
    BY <1>1, <1>2, <1>3, <2>10, Transactions DEF Surrender, TransitionLast
  <2> QED
    BY <1>4, <2>1, <2>2, <2>3, <2>4, <2>5, <2>6, <2>7, <2>8, <2>9, <2>10 DEF StartupNext
<1>5. ASSUME ReconcileNext PROVE Goal
  <2>1. CASE BeginReconcile
    BY <1>1, <1>2, <1>3, <2>1, Transactions DEF BeginReconcile
  <2>2. CASE Resume
    BY <1>1, <1>2, <1>3, <2>2, Transactions DEF Resume
  <2>3. CASE Promote
    BY <1>1, <1>2, <1>3, <2>3, Transactions DEF Promote
  <2>4. CASE Promoting
    BY <1>1, <1>2, <1>3, <2>4, Transactions DEF Promoting, TransitionThen
  <2>5. CASE CompleteFeedback
    BY <1>1, <1>2, <1>3, <2>5, Transactions DEF CompleteFeedback, RunningFeedback, At
  <2>6. CASE Observe
    BY <1>1, <1>2, <1>3, <2>6, Transactions DEF Observe, At
  <2>7. CASE Finish
    BY <1>1, <1>2, <1>3, <2>7, Transactions DEF Finish, At
  <2>8. CASE Recover
    BY <1>1, <1>2, <1>3, <2>8, Transactions DEF Recover, TransitionThen
  <2>9. CASE FailedJob
    <3>1. TransitionClosingRuns("validating", "failed") => OwnNext
      <4>1. TransitionClosingRuns("validating", "failed") => state = "validating"
        BY DEF TransitionClosingRuns, CanTransition
      <4> QED
        BY <1>2, <4>1 DEF OwnNext, LifecycleNext
    <3>2. op.attempt \in Existing
      BY <1>1, <2>9 DEF FailedJob, At
    <3>3. MarkValidationComplete(op.attempt, "failed") => OwnNext
      BY <1>3, <3>2, Transactions
    <3>4. Transition(state, "failed") => OwnNext
      BY <1>2, Transactions
    <3> QED
      BY <2>9, <3>1, <3>3, <3>4 DEF FailedJob, TransitionLast
  <2>10. CASE Fail
    BY <1>1, <1>2, <1>3, <2>10, Transactions DEF Fail
  <2>11. CASE CompletedJob
    BY <1>1, <1>2, <1>3, <2>11, Transactions DEF CompletedJob, TransitionLast
  <2> QED
    BY <1>5, <2>1, <2>2, <2>3, <2>4, <2>5, <2>6, <2>7, <2>8, <2>9, <2>10, <2>11 DEF ReconcileNext
<1>6. ASSUME CancellationNext PROVE Goal
  <2>1. CASE Cancel
    BY <1>1, <1>2, <1>3, <2>1, Transactions DEF Cancel
  <2>2. CASE CancelApi
    BY <1>1, <1>2, <1>3, <2>2, Transactions DEF CancelApi
  <2>3. CASE CancelDelete
    BY <1>1, <1>2, <1>3, <2>3, Transactions DEF CancelDelete
  <2>4. CASE CancelConfirm
    BY <1>1, <1>2, <1>3, <2>4, Transactions DEF CancelConfirm
  <2>5. CASE CancelSecret
    BY <1>1, <1>2, <1>3, <2>5, Transactions DEF CancelSecret
  <2>6. CASE CancelLogs
    BY <1>1, <1>2, <1>3, <2>6, Transactions DEF CancelLogs, At
  <2>7. CASE CancelEvents
    BY <1>1, <1>2, <1>3, <2>7, Transactions DEF CancelEvents, TransitionLast, RunningFeedback
  <2> QED
    BY <1>6, <2>1, <2>2, <2>3, <2>4, <2>5, <2>6, <2>7 DEF CancellationNext
<1>7. ASSUME EventNext PROVE Goal
  <2>1. CASE \E g \in Jobs : BeginEvent(g)
    BY <1>1, <1>2, <1>3, <2>1, Transactions DEF BeginEvent
  <2>2. CASE AgentStarted
    BY <1>1, <1>2, <1>3, <2>2, Transactions DEF AgentStarted, TransitionThen, TransitionAck, Refuse
  <2>3. CASE ValidationStarted
    BY <1>1, <1>2, <1>3, <2>3, Transactions DEF ValidationStarted, Handling, At, Refuse
  <2>4. CASE ValidationResult
    <3>1. /\ op.attempt \in Existing /\ op.event \in WorkerEvents
          /\ Content(op.event).verdict \in {"succeeded", "failed"}
      BY <1>1, <2>4, EventFields DEF ValidationResult, Handling, At
    <3> QED
      BY <2>4, <3>1, Transactions DEF ValidationResult, Refuse
  <2>5. CASE ValidationSucceeded
    BY <1>1, <1>2, <1>3, <2>5, Transactions DEF ValidationSucceeded, Handling, At, Refuse
  <2>6. CASE ValidationFailed
    BY <1>1, <1>2, <1>3, <2>6, Transactions DEF ValidationFailed, Handling, At, Refuse
  <2>7. CASE Verdict
    BY <1>1, <1>2, <1>3, <2>7, Transactions DEF Verdict, At
  <2>8. CASE WorkerFailed
    BY <1>1, <1>2, <1>3, <2>8, Transactions DEF WorkerFailed, TransitionAck, Refuse
  <2>9. CASE PullRequestPublished
    <3>1. /\ op.attempt \in Existing
          /\ Content(op.event).sha \in Commits /\ Content(op.event).number \in Numbers
      BY <1>1, <2>9, EventFields DEF PullRequestPublished, Handling, At, Identities
    <3> QED
      BY <1>2, <2>9, <3>1, Transactions
      DEF PullRequestPublished, Refuse, Reject, TransitionLast
  <2>10. CASE PullRequestReady
    <3>1. /\ op.attempt \in Existing
          /\ Content(op.event).sha \in Commits /\ Content(op.event).number \in Numbers
      BY <1>1, <2>10, EventFields DEF PullRequestReady, Handling, At, Identities
    <3> QED
      BY <1>2, <2>10, <3>1, Transactions DEF PullRequestReady, Reject, TransitionLast
  <2>11. CASE MarkProcessed
    <3>1. PICK e \in acks : MarkWorkerEventProcessed(AttemptOf(e), e)
      BY <2>11 DEF MarkProcessed
    <3>2. AttemptOf(e) \in Existing /\ e \in WorkerEvents
      BY <3>1 DEF ControllerInv, ControllerTypeOK, EventsWerePrinted
    <3> QED
      BY <3>1, <3>2, Transactions
  <2> QED
    BY <1>7, <2>1, <2>2, <2>3, <2>4, <2>5, <2>6, <2>7, <2>8, <2>9, <2>10, <2>11 DEF EventNext
<1>8. ASSUME ReaderNext PROVE Goal
  <2>1. PICK g \in Jobs : \/ ReadLine(g) \/ WorkerLogsExhausted(g) \/ StreamEnds(g)
                            \/ CheckTerminal(g) \/ ReadBarrier(g) \/ ReaderFails(g)
    BY <1>8 DEF ReaderNext
  <2>2. CASE ReadLine(g)
    <3> DEFINE e == <<g, Cardinality(Stored(g)) + 1>>
    <3>1. AppendWorkerEvent(jobs[g].attempt, e) /\ Cardinality(Stored(g)) < Lines(g)
      BY <2>2 DEF ReadLine
    <3>2. jobs[g].attempt = current
      BY <3>1 DEF AppendWorkerEvent, Appendable
    <3>3. e \in WorkerEvents
      BY <1>1, <3>1, <3>2, StoredCount
    <3> QED
      BY <1>1, <3>1, <3>2, <3>3, Transactions
  <2>3. CASE WorkerLogsExhausted(g)
    <3>1. jobs[g].attempt \in Existing
      BY <2>3 DEF WorkerLogsExhausted, ControllerInv, JobsBelong
    <3> QED
      BY <2>3, <3>1, Transactions DEF WorkerLogsExhausted
  <2>4. CASE StreamEnds(g) \/ CheckTerminal(g) \/ ReadBarrier(g) \/ ReaderFails(g)
    BY <2>4 DEF StreamEnds, CheckTerminal, ReadBarrier, ReaderFails
  <2> QED
    BY <2>1, <2>2, <2>3, <2>4
<1>9. ASSUME RetryWithKey \/ FollowUp
      PROVE  AttemptNext /\ UNCHANGED <<clusterVars, registered, op, acks, reader>> /\ op = Idle
  BY <1>9 DEF RetryWithKey, FollowUp, AttemptNext
<1>10. ASSUME RecoverFeedback \/ ProcessForgeEvents PROVE Goal
  <2>1. CASE RecoverFeedback
    BY <2>1 DEF RecoverFeedback
  <2>2. CASE ProcessForgeEvents
    BY <1>1, <2>2, Transactions DEF ProcessForgeEvents
  <2> QED
    BY <1>10, <2>1, <2>2
<1>11. ASSUME Abandon \/ Crash \/ ClusterNext PROVE Goal
  BY <1>11 DEF Abandon, Crash, ClusterNext, ClusterStep, storeVars
<1> QED
  BY <1>4, <1>5, <1>6, <1>7, <1>8, <1>9, <1>10, <1>11 DEF Next, CallerNext

-----------------------------------------------------------------------------
(* What one step does to the rest *)

(* Only the inserts of an attempt move the task to another one, and no      *)
(* operation is under way then.                                             *)
LEMMA CurrentKept ==
  ASSUME ControllerInv, Next
  PROVE  /\ current' \in Attempts
         /\ \/ current' = current
            \/ current' = current + 1 /\ op = Idle /\ op' = Idle
         /\ Existing \subseteq Existing'
<1>1. StoreTypeOK /\ current \in Attempts
  BY UnderWay DEF ControllerInv, ControllerTypeOK
<1>2. CASE [OwnNext]_storeVars
  <2>1. current' = current
    BY <1>1, <1>2, LifecycleStep, OtherSteps, ForgeStep DEF OwnNext, storeVars
  <2> QED
    BY <1>1, <2>1 DEF Existing
<1>3. CASE AttemptNext /\ UNCHANGED <<clusterVars, registered, op, acks, reader>> /\ op = Idle
  <2>1. current' = current + 1 /\ current + 1 \in Attempts /\ op' = op /\ op = Idle
    BY <1>1, <1>3, AttemptStep
  <2> QED
    BY <1>1, <2>1 DEF Existing
<1> QED
  BY <1>2, <1>3, StoreStep

(* The steps that change each of the other variables.                       *)
ChangedBy ==
  /\ UNCHANGED <<jobs, pods>> \/ EnsureJob \/ CancelApi \/ CancelDelete \/ ClusterNext
  /\ UNCHANGED secrets \/ EnsureSecret \/ CancelSecret
  /\ UNCHANGED registered \/ Register
  /\ UNCHANGED reader \/ Crash \/ ReaderNext
  /\ startups' \subseteq startups \cup {current'} \/ RecoverFeedback
  /\ \/ acks' \subseteq acks
     \/ op.call = "event" /\ acks' = acks \cup {op.event}
     \/ \E g \in Jobs : BeginEvent(g)

(* Each variable has few writers.                                           *)
LEMMA Writers ==
  ASSUME ControllerInv, Next
  PROVE  ChangedBy
<1>1. op.pc \in {"handle", "verdict"} => op.call = "event"
  BY UnderWay
<1> USE DEF ChangedBy, Keep, KeepButAcks, KeepButReader, clusterVars, volatileVars, At, Ack, Refuse, Reject,
            Promoted, TransitionAck
<1>2. ASSUME StartupNext PROVE ChangedBy
  BY <1>2 DEF StartupNext, BeginStartup, Snapshot, Advance, Intent, EnsureSecret, Register,
              EnsureJob, Complete, GiveUp, Surrender
<1>3. ASSUME ReconcileNext PROVE ChangedBy
  <2>1. CASE Fail
    BY <1>1, <2>1 DEF Fail
  <2>2. CASE \/ BeginReconcile \/ Resume \/ Promote \/ Promoting \/ CompleteFeedback
             \/ Observe \/ Finish \/ Recover \/ FailedJob \/ CompletedJob
    BY <2>2 DEF BeginReconcile, Resume, Promote, Promoting, CompleteFeedback, Observe,
                Finish, Recover, FailedJob, CompletedJob
  <2> QED
    BY <1>3, <2>1, <2>2 DEF ReconcileNext
<1>4. ASSUME CancellationNext PROVE ChangedBy
  BY <1>4 DEF CancellationNext, Cancel, CancelApi, CancelDelete, CancelConfirm, CancelSecret,
              CancelLogs, CancelEvents
<1>5. ASSUME EventNext PROVE ChangedBy
  <2>1. ASSUME \E g \in Jobs : BeginEvent(g) PROVE ChangedBy
    BY <2>1 DEF BeginEvent
  <2>2. CASE AgentStarted \/ ValidationStarted \/ ValidationResult \/ ValidationSucceeded
    BY <1>1, <2>2 DEF AgentStarted, ValidationStarted, ValidationResult, ValidationSucceeded,
                      Handling
  <2>3. CASE ValidationFailed \/ Verdict \/ WorkerFailed
    BY <1>1, <2>3 DEF ValidationFailed, Verdict, WorkerFailed, Handling
  <2>4. CASE PullRequestPublished \/ PullRequestReady \/ MarkProcessed
    BY <1>1, <2>4 DEF PullRequestPublished, PullRequestReady, MarkProcessed, Handling
  <2> QED
    BY <1>5, <2>1, <2>2, <2>3, <2>4 DEF EventNext
<1>6. ASSUME ReaderNext PROVE ChangedBy
  BY <1>6 DEF ReaderNext, ReadLine, StreamEnds, CheckTerminal, ReadBarrier, WorkerLogsExhausted,
              ReaderFails
<1>7. ASSUME CallerNext PROVE ChangedBy
  BY <1>7 DEF CallerNext, RetryWithKey, FollowUp, RecoverFeedback, ProcessForgeEvents
<1>8. ASSUME Abandon \/ Crash \/ ClusterNext PROVE ChangedBy
  <2>1. CASE Abandon \/ Crash
    BY <2>1 DEF Abandon, Crash
  <2>2. CASE ClusterNext
    <3>1. UNCHANGED <<registered, op, startups, acks, reader>> /\ UNCHANGED secrets
      <4>1. UNCHANGED <<storeVars, registered, volatileVars>>
        BY <2>2 DEF ClusterNext, ClusterStep
      <4>2. UNCHANGED secrets
        BY <2>2 DEF ClusterNext, ClusterStep, PodStarts, WorkerExits, PodRemoved, JobFinishes,
                    DeadlinePasses, JobExpires, JobRemoved, WorkerPrints
      <4> QED
        BY <4>1, <4>2
    <3> QED
      BY <2>2, <3>1
  <2> QED
    BY <1>8, <2>1, <2>2
<1> QED
  BY <1>2, <1>3, <1>4, <1>5, <1>6, <1>7, <1>8 DEF Next

(* A Job is created for the current attempt, keeps its attempt, and stays   *)
(* gone.                                                                    *)
NewJob == [attempt |-> current, status |-> "pending", deleting |-> FALSE]
JobMoves(g) ==
  \/ jobs'[g] = jobs[g]
  \/ jobs[g] = NoJob /\ jobs'[g] = NewJob /\ EnsureJob
  \/ /\ jobs[g] # NoJob /\ jobs'[g].attempt = jobs[g].attempt
     /\ jobs[g].status = "gone" => jobs'[g].status = "gone"

(* A Pod starts with its Job, and only adds what its worker may print.      *)
PodMoves(g) ==
  /\ PodPresent(g)' => PodPresent(g) \/ jobs[g].status = "pending"
  /\ \/ pods'[g].log = pods[g].log
     \/ /\ Len(pods[g].log) < MaxLines
        /\ \E e \in Events : /\ MayPrint(pods[g].log, e, Origin(jobs[g].attempt))
                             /\ pods'[g].log = Append(pods[g].log, e)

(* Jobs and Pods as the API calls and the cluster move them.                *)
LEMMA ClusterMoves ==
  ASSUME ControllerInv, Next
  PROVE  /\ jobs' \in [Jobs -> JobRows]
         /\ pods' \in [Jobs -> [phase : PodPhases, log : Seq(Events)]]
         /\ \A g \in Jobs : JobMoves(g) /\ PodMoves(g)
<1>1. /\ jobs \in [Jobs -> JobRows]
      /\ pods \in [Jobs -> [phase : PodPhases, log : Seq(Events)]]
  BY DEF ControllerInv, ControllerTypeOK, ClusterTypeOK
<1>2. /\ current \in Attempts
      /\ op.pc # "idle" => op.attempt = current
  BY UnderWay
<1> DEFINE Goal == /\ jobs' \in [Jobs -> JobRows]
                   /\ pods' \in [Jobs -> [phase : PodPhases, log : Seq(Events)]]
                   /\ \A g \in Jobs : JobMoves(g) /\ PodMoves(g)
<1>3. CASE UNCHANGED <<jobs, pods>>
  BY <1>1, <1>3 DEF JobMoves, PodMoves, PodPresent
<1>4. CASE EnsureJob
  <2>1. pods' = pods
    BY <1>4 DEF EnsureJob
  <2>2. CASE jobs' = jobs
    BY <1>3, <2>1, <2>2
  <2>3. CASE jobs' # jobs
    <3>1. CreateJob(op.attempt) /\ op.attempt = current
      BY <1>2, <1>4, <2>3 DEF EnsureJob, At
    <3>2. PICK g \in Jobs : jobs[g] = NoJob /\ jobs' = [jobs EXCEPT ![g] = NewJob]
      BY <3>1 DEF CreateJob, NewJob
    <3>3. NewJob \in JobRows
      BY <1>2 DEF NewJob, JobRows, JobStatuses
    <3>4. jobs' \in [Jobs -> JobRows] /\ \A h \in Jobs : JobMoves(h)
      BY <1>1, <1>4, <3>2, <3>3 DEF JobMoves
    <3> QED
      BY <1>1, <2>1, <3>4 DEF PodMoves, PodPresent
  <2> QED
    BY <2>2, <2>3
<1>5. CASE CancelApi \/ CancelDelete
  <2>1. pods' = pods /\ DeleteAttemptJob
    BY <1>5 DEF CancelApi, CancelDelete
  <2>2. CASE jobs' = jobs
    BY <1>3, <2>1, <2>2
  <2>3. CASE jobs' # jobs
    <3>1. PICK g \in JobOf(op.attempt) : jobs' = [jobs EXCEPT ![g].deleting = TRUE]
      BY <2>1, <2>3 DEF DeleteAttemptJob, DeleteJob
    <3>2. op.attempt = current
      BY <1>2, <1>5 DEF CancelApi, CancelDelete, At
    <3>3. g \in Jobs /\ jobs[g] # NoJob
      BY <1>2, <3>1, <3>2 DEF JobOf, NoJob
    <3>4. jobs'[g] = [jobs[g] EXCEPT !.deleting = TRUE] /\ TRUE \in BOOLEAN
      BY <1>1, <3>1, <3>3
    <3>5. /\ jobs' \in [Jobs -> JobRows] /\ jobs'[g].attempt = jobs[g].attempt
          /\ jobs'[g].status = jobs[g].status
          /\ \A h \in Jobs : h # g => jobs'[h] = jobs[h]
      BY <1>1, <3>1, <3>3, <3>4 DEF JobRows
    <3>6. \A h \in Jobs : JobMoves(h)
      BY <3>3, <3>5 DEF JobMoves
    <3> QED
      BY <1>1, <2>1, <3>5, <3>6 DEF PodMoves, PodPresent
  <2> QED
    BY <2>2, <2>3
<1>6. CASE ClusterNext
  <2>1. PICK g \in Jobs :
          \/ PodStarts(g) \/ WorkerExits(g) \/ PodRemoved(g) \/ JobFinishes(g)
          \/ DeadlinePasses(g) \/ JobExpires(g) \/ JobRemoved(g)
          \/ WorkerPrints(g, Origin(jobs[g].attempt))
    BY <1>6 DEF ClusterNext, ClusterStep
  <2>2. /\ jobs[g] \in JobRows /\ pods[g].phase \in PodPhases /\ pods[g].log \in Seq(Events)
        /\ "active" \in JobStatuses /\ "complete" \in JobStatuses
        /\ "failed" \in JobStatuses /\ "gone" \in JobStatuses
        /\ "running" \in PodPhases /\ "failed" \in PodPhases
        /\ "succeeded" \in PodPhases /\ "gone" \in PodPhases
    BY <1>1 DEF JobStatuses, PodPhases
  <2>3. ASSUME NEW s \in JobStatuses, jobs' = [jobs EXCEPT ![g].status = s],
               jobs[g] # NoJob, jobs[g].status # "gone" \/ s = "gone"
        PROVE  jobs' \in [Jobs -> JobRows] /\ \A h \in Jobs : JobMoves(h)
    <3>1. /\ jobs' \in [Jobs -> JobRows] /\ jobs'[g].attempt = jobs[g].attempt
          /\ jobs'[g].status = s
          /\ \A h \in Jobs : h # g => jobs'[h] = jobs[h]
      BY <1>1, <2>2, <2>3 DEF JobRows
    <3> QED
      BY <2>3, <3>1 DEF JobMoves
  <2>4. ASSUME NEW p \in PodPhases, pods' = [pods EXCEPT ![g].phase = p],
               PodPresent(g) \/ jobs[g].status = "pending" \/ p = "gone"
        PROVE  /\ pods' \in [Jobs -> [phase : PodPhases, log : Seq(Events)]]
               /\ \A h \in Jobs : PodMoves(h)
    <3>1. /\ pods' \in [Jobs -> [phase : PodPhases, log : Seq(Events)]]
          /\ pods'[g].phase = p /\ pods'[g].log = pods[g].log
          /\ \A h \in Jobs : h # g => pods'[h] = pods[h]
      BY <1>1, <2>4
    <3> QED
      BY <2>4, <3>1 DEF PodMoves, PodPresent
  <2>5. jobs' = jobs => jobs' \in [Jobs -> JobRows] /\ \A h \in Jobs : JobMoves(h)
    BY <1>1 DEF JobMoves
  <2>6. pods' = pods => /\ pods' \in [Jobs -> [phase : PodPhases, log : Seq(Events)]]
                        /\ \A h \in Jobs : PodMoves(h)
    BY <1>1 DEF PodMoves, PodPresent
  <2>7. CASE PodStarts(g)
    <3>1. /\ jobs[g].status = "pending" /\ jobs[g] # NoJob
          /\ jobs' = [jobs EXCEPT ![g].status = "active"]
          /\ pods' = [pods EXCEPT ![g].phase = "running"]
      BY <2>7 DEF PodStarts, NoJob
    <3> QED
      BY <2>2, <2>3, <2>4, <3>1
  <2>8. CASE WorkerExits(g)
    <3>1. PICK p \in {"failed", "succeeded"} : pods' = [pods EXCEPT ![g].phase = p]
      BY <2>8 DEF WorkerExits
    <3> QED
      BY <2>2, <2>4, <2>5, <2>8, <3>1 DEF WorkerExits, PodPresent
  <2>9. CASE PodRemoved(g)
    BY <2>2, <2>4, <2>5, <2>9 DEF PodRemoved
  <2>10. CASE JobFinishes(g)
    BY <2>2, <2>3, <2>6, <2>10 DEF JobFinishes, NoJob
  <2>11. CASE DeadlinePasses(g)
    <3>1. jobs' = [jobs EXCEPT ![g].status = "failed"] /\ jobs[g].status \in {"pending", "active"}
      BY <2>11 DEF DeadlinePasses
    <3>2. \/ PodPresent(g) /\ pods' = [pods EXCEPT ![g].phase = "gone"]
          \/ pods' = pods
      BY <1>1, <2>11 DEF DeadlinePasses
    <3>3. jobs[g] # NoJob /\ jobs[g].status # "gone"
      BY <3>1 DEF NoJob
    <3>4. jobs' \in [Jobs -> JobRows] /\ \A h \in Jobs : JobMoves(h)
      BY <2>2, <2>3, <3>1, <3>3
    <3> QED
      BY <2>2, <2>4, <2>6, <3>2, <3>4
  <2>12. CASE JobExpires(g)
    <3>1. jobs' = [jobs EXCEPT ![g].deleting = TRUE] /\ jobs[g] # NoJob /\ pods' = pods
      BY <2>12 DEF JobExpires, DeleteJob, NoJob
    <3>2. jobs'[g] = [jobs[g] EXCEPT !.deleting = TRUE] /\ TRUE \in BOOLEAN
      BY <1>1, <3>1
    <3>3. /\ jobs' \in [Jobs -> JobRows] /\ jobs'[g].attempt = jobs[g].attempt
          /\ jobs'[g].status = jobs[g].status
          /\ \A h \in Jobs : h # g => jobs'[h] = jobs[h]
      BY <1>1, <3>1, <3>2 DEF JobRows
    <3> QED
      BY <2>6, <3>1, <3>3 DEF JobMoves
  <2>13. CASE JobRemoved(g)
    <3>1. /\ jobs[g].deleting /\ jobs' = [jobs EXCEPT ![g].status = "gone"] /\ pods' = pods
      BY <2>13 DEF JobRemoved
    <3>2. jobs[g] # NoJob
      BY <3>1 DEF NoJob
    <3> QED
      BY <2>2, <2>3, <2>6, <3>1, <3>2
  <2>14. CASE WorkerPrints(g, Origin(jobs[g].attempt))
    <3>1. PICK e \in Events : /\ MayPrint(pods[g].log, e, Origin(jobs[g].attempt))
                              /\ pods' = [pods EXCEPT ![g].log = Append(@, e)]
      BY <2>14 DEF WorkerPrints
    <3>2. Append(pods[g].log, e) \in Seq(Events) /\ Len(pods[g].log) < MaxLines /\ jobs' = jobs
      BY <2>2, <2>14 DEF WorkerPrints
    <3>3. /\ pods' \in [Jobs -> [phase : PodPhases, log : Seq(Events)]]
          /\ pods'[g].phase = pods[g].phase /\ pods'[g].log = Append(pods[g].log, e)
          /\ \A h \in Jobs : h # g => pods'[h] = pods[h]
      BY <1>1, <3>1, <3>2
    <3>4. \A h \in Jobs : PodMoves(h)
      BY <3>1, <3>2, <3>3 DEF PodMoves, PodPresent
    <3> QED
      BY <2>5, <3>2, <3>3, <3>4
  <2> QED
    BY <2>1, <2>7, <2>8, <2>9, <2>10, <2>11, <2>12, <2>13, <2>14
<1> QED
  BY <1>3, <1>4, <1>5, <1>6, Writers DEF ChangedBy

(* The steps that write each of these columns, and those that end a task.   *)
MovingSteps == {"idle", "advance", "complete", "surrender", "promoting", "recover", "failedJob",
                "fail", "completedJob", "cancelEvents", "handle"}
ClosesLog == \/ GiveUp \/ Observe \/ Finish \/ CancelLogs
             \/ \E g \in Jobs : WorkerLogsExhausted(g)
StoreWriters ==
  /\ inbox' = inbox \/ \E g \in Jobs : ReadLine(g)
  /\ processed' = processed \/ MarkProcessed
  /\ git' = git \/ PullRequestPublished \/ PullRequestReady
  /\ forge' = forge \/ CompleteFeedback \/ CancelEvents \/ ProcessForgeEvents \/ RetryWithKey \/ FollowUp
  /\ state' = "failed" =>
       \/ state = "failed"
       \/ Surrender \/ FailedJob \/ Fail \/ CompletedJob \/ WorkerFailed
       \/ PullRequestPublished \/ PullRequestReady
  /\ state' = "cancelled" => state = "cancelled" \/ CancelEvents
  /\ state' = state \/ op.pc \in MovingSteps
  /\ exhausted' = exhausted \/ ClosesLog

(* What each transaction leaves alone.                                      *)
LEMMA TransactionFrames ==
  /\ \A to : Transition(state, to) \/ TransitionClosingRuns("validating", to) =>
       state' = to /\ UNCHANGED <<exhausted, inbox, processed, git, forge>>
  /\ \A e : TransitionValidating(state, e) =>
       state' = "validating" /\ UNCHANGED <<exhausted, inbox, processed, git, forge>>
  /\ \A a, v, e, w :
       (\/ RequestCancellation \/ SaveAttemptSnapshot(a, v)
        \/ RecordValidationStartedOnce(a, e) \/ MarkValidationComplete(a, w)
        \/ RecordValidationResultOnce(a, e, w)) =>
       UNCHANGED <<state, exhausted, inbox, processed, git, forge>>
  /\ \A a : MarkLogsExhausted(a) => UNCHANGED <<state, inbox, processed, git, forge>>
  /\ \A a, e : AppendWorkerEvent(a, e) => UNCHANGED <<state, exhausted, processed, git, forge>>
  /\ \A a, e : MarkWorkerEventProcessed(a, e) => UNCHANGED <<state, exhausted, inbox, git, forge>>
  /\ \A a, c, n : RecordPullRequestCandidate(a, c, n) \/ RecordVerifiedPullRequest(a, c, n) =>
       UNCHANGED <<state, exhausted, inbox, processed, forge>>
  /\ \A a, batch, f : FailRunningFeedback(a) \/ FailPendingFeedback(batch) \/ MarkForgeEventHandled(f) =>
       UNCHANGED <<state, exhausted, inbox, processed, git>>
<1> USE DEF taskVars, attemptVars, eventVars, resultVars
<1>1. \A to : Transition(state, to) \/ TransitionClosingRuns("validating", to) =>
        state' = to /\ UNCHANGED <<exhausted, inbox, processed, git, forge>>
  BY DEF Transition, TransitionClosingRuns, MoveTo
<1>2. \A e : TransitionValidating(state, e) =>
        state' = "validating" /\ UNCHANGED <<exhausted, inbox, processed, git, forge>>
  BY DEF TransitionValidating, MoveTo
<1>3. \A a, v, e, w :
        (\/ RequestCancellation \/ SaveAttemptSnapshot(a, v)
         \/ RecordValidationStartedOnce(a, e) \/ MarkValidationComplete(a, w)
         \/ RecordValidationResultOnce(a, e, w)) =>
        UNCHANGED <<state, exhausted, inbox, processed, git, forge>>
  BY DEF RequestCancellation, SaveAttemptSnapshot, RecordValidationStartedOnce,
         MarkValidationComplete, RecordValidationResultOnce
<1>7. \A a : MarkLogsExhausted(a) => UNCHANGED <<state, inbox, processed, git, forge>>
  BY DEF MarkLogsExhausted
<1>4. /\ \A a, e : AppendWorkerEvent(a, e) => UNCHANGED <<state, exhausted, processed, git, forge>>
      /\ \A a, e : MarkWorkerEventProcessed(a, e) => UNCHANGED <<state, exhausted, inbox, git, forge>>
  BY DEF AppendWorkerEvent, MarkWorkerEventProcessed
<1>5. \A a, c, n : RecordPullRequestCandidate(a, c, n) \/ RecordVerifiedPullRequest(a, c, n) =>
        UNCHANGED <<state, exhausted, inbox, processed, forge>>
  BY DEF RecordPullRequestCandidate, RecordVerifiedPullRequest
<1>6. \A a, batch, f : FailRunningFeedback(a) \/ FailPendingFeedback(batch) \/ MarkForgeEventHandled(f) =>
        UNCHANGED <<state, exhausted, inbox, processed, git>>
  BY DEF FailRunningFeedback, FailPendingFeedback, MarkForgeEventHandled
<1> QED
  BY <1>1, <1>2, <1>3, <1>4, <1>5, <1>6, <1>7

(* Few steps write a worker event, a receipt, a forge event or an outcome.  *)
LEMMA StoreWrites ==
  ASSUME Next
  PROVE  StoreWriters
<1> USE DEF KeepStore, storeVars, StoreWriters, MovingSteps, ClosesLog, At, Handling
<1>1. ASSUME StartupNext PROVE StoreWriters
  <2>1. CASE \E a \in Attempts : BeginStartup(a)
    BY <2>1, TransactionFrames DEF BeginStartup
  <2>2. CASE Snapshot
    BY <2>2, TransactionFrames DEF Snapshot
  <2>3. CASE Advance
    BY <2>3, TransactionFrames DEF Advance, TransitionThen
  <2>4. CASE Intent
    BY <2>4, TransactionFrames DEF Intent
  <2>5. CASE EnsureSecret
    BY <2>5, TransactionFrames DEF EnsureSecret
  <2>6. CASE Register
    BY <2>6, TransactionFrames DEF Register
  <2>7. CASE EnsureJob
    BY <2>7, TransactionFrames DEF EnsureJob
  <2>8. CASE Complete
    BY <2>8, TransactionFrames DEF Complete, TransitionThen, TransitionLast
  <2>9. CASE GiveUp
    BY <2>9, TransactionFrames DEF GiveUp
  <2>10. CASE Surrender
    BY <2>10, TransactionFrames DEF Surrender, TransitionLast
  <2> QED
    BY <1>1, <2>1, <2>2, <2>3, <2>4, <2>5, <2>6, <2>7, <2>8, <2>9, <2>10 DEF StartupNext
<1>2. ASSUME ReconcileNext PROVE StoreWriters
  <2>1. CASE BeginReconcile
    BY <2>1, TransactionFrames DEF BeginReconcile
  <2>2. CASE Resume
    BY <2>2, TransactionFrames DEF Resume
  <2>3. CASE Promote
    BY <2>3, TransactionFrames DEF Promote
  <2>4. CASE Promoting
    BY <2>4, TransactionFrames DEF Promoting, TransitionThen
  <2>5. CASE CompleteFeedback
    BY <2>5, TransactionFrames DEF CompleteFeedback
  <2>6. CASE Observe
    BY <2>6, TransactionFrames DEF Observe
  <2>7. CASE Finish
    BY <2>7, TransactionFrames DEF Finish
  <2>8. CASE Recover
    BY <2>8, TransactionFrames DEF Recover, TransitionThen
  <2>9. CASE FailedJob
    BY <2>9, TransactionFrames DEF FailedJob, TransitionLast
  <2>10. CASE Fail
    BY <2>10, TransactionFrames DEF Fail
  <2>11. CASE CompletedJob
    BY <2>11, TransactionFrames DEF CompletedJob, TransitionLast
  <2> QED
    BY <1>2, <2>1, <2>2, <2>3, <2>4, <2>5, <2>6, <2>7, <2>8, <2>9, <2>10, <2>11 DEF ReconcileNext
<1>3. ASSUME CancellationNext PROVE StoreWriters
  <2>1. CASE Cancel
    BY <2>1, TransactionFrames DEF Cancel
  <2>2. CASE CancelApi
    BY <2>2, TransactionFrames DEF CancelApi
  <2>3. CASE CancelDelete
    BY <2>3, TransactionFrames DEF CancelDelete
  <2>4. CASE CancelConfirm
    BY <2>4, TransactionFrames DEF CancelConfirm
  <2>5. CASE CancelSecret
    BY <2>5, TransactionFrames DEF CancelSecret
  <2>6. CASE CancelLogs
    BY <2>6, TransactionFrames DEF CancelLogs
  <2>7. CASE CancelEvents
    BY <2>7, TransactionFrames DEF CancelEvents, TransitionLast
  <2> QED
    BY <1>3, <2>1, <2>2, <2>3, <2>4, <2>5, <2>6, <2>7 DEF CancellationNext
<1>4. ASSUME EventNext PROVE StoreWriters
  <2>1. CASE \E g \in Jobs : BeginEvent(g)
    BY <2>1, TransactionFrames DEF BeginEvent
  <2>2. CASE AgentStarted
    BY <2>2, TransactionFrames DEF AgentStarted, TransitionThen, TransitionAck, Refuse
  <2>3. CASE ValidationStarted
    BY <2>3, TransactionFrames DEF ValidationStarted, Refuse
  <2>4. CASE ValidationResult
    BY <2>4, TransactionFrames DEF ValidationResult, Refuse
  <2>5. CASE ValidationSucceeded
    BY <2>5, TransactionFrames DEF ValidationSucceeded, Refuse
  <2>6. CASE ValidationFailed
    BY <2>6, TransactionFrames DEF ValidationFailed, Refuse
  <2>7. CASE Verdict
    BY <2>7, TransactionFrames DEF Verdict
  <2>8. CASE WorkerFailed
    BY <2>8, TransactionFrames DEF WorkerFailed, TransitionAck, Refuse
  <2>9. CASE PullRequestPublished
    BY <2>9, TransactionFrames DEF PullRequestPublished, Refuse, Reject, TransitionLast
  <2>10. CASE PullRequestReady
    BY <2>10, TransactionFrames DEF PullRequestReady, Reject, TransitionLast
  <2>11. CASE MarkProcessed
    BY <2>11, TransactionFrames DEF MarkProcessed
  <2> QED
    BY <1>4, <2>1, <2>2, <2>3, <2>4, <2>5, <2>6, <2>7, <2>8, <2>9, <2>10, <2>11 DEF EventNext
<1>5. ASSUME ReaderNext PROVE StoreWriters
  BY <1>5, TransactionFrames
  DEF ReaderNext, ReadLine, WorkerLogsExhausted, StreamEnds, CheckTerminal, ReadBarrier, ReaderFails
<1>6. ASSUME RetryWithKey \/ FollowUp PROVE StoreWriters
  <2>1. /\ \A key, v : RetryTaskOnce(key, v) => state' = "queued" /\ UNCHANGED <<exhausted, inbox, processed, git>>
        /\ \A batch, v : StartForgeEventAttempt(batch, v) =>
             state' = "queued" /\ UNCHANGED <<exhausted, inbox, processed, git>>
    BY DEF RetryTaskOnce, StartForgeEventAttempt, InsertAttempt, eventVars
  <2>2. op.pc = "idle"
    BY <1>6, IdleRow DEF RetryWithKey, FollowUp
  <2> QED
    BY <1>6, <2>1, <2>2 DEF RetryWithKey, FollowUp
<1>7. ASSUME RecoverFeedback \/ ProcessForgeEvents PROVE StoreWriters
  BY <1>7, TransactionFrames DEF RecoverFeedback, ProcessForgeEvents
<1>8. ASSUME Abandon \/ Crash \/ ClusterNext PROVE StoreWriters
  BY <1>8 DEF Abandon, Crash, ClusterNext, ClusterStep
<1> QED
  BY <1>1, <1>2, <1>3, <1>4, <1>5, <1>6, <1>7, <1>8 DEF Next, CallerNext

-----------------------------------------------------------------------------
(* Worker events and the types of the rest *)

(* A reader stores the next line of its Pod, for the current attempt, whose *)
(* log is not exhausted.                                                    *)
LEMMA ReadLineStep ==
  ASSUME ControllerInv, NEW g \in Jobs, ReadLine(g)
  PROVE  /\ jobs[g].attempt = current /\ ~exhausted[current]
         /\ UNCHANGED <<jobs, pods, acks, op, processed, current>>
         /\ \E e \in WorkerEvents :
              /\ e[1] = g /\ e[2] \in DOMAIN pods[g].log
              /\ inbox' = [inbox EXCEPT ![current] = @ \cup {e}]
<1> DEFINE e == <<g, Cardinality(Stored(g)) + 1>>
<1>1. AppendWorkerEvent(jobs[g].attempt, e) /\ Cardinality(Stored(g)) < Lines(g)
  BY DEF ReadLine
<1>2. jobs[g].attempt = current /\ ~exhausted[current] /\ UNCHANGED <<processed, current>>
      /\ inbox' = [inbox EXCEPT ![current] = @ \cup {e}]
  BY <1>1 DEF AppendWorkerEvent, Appendable, taskVars
<1>3. current \in Attempts
  BY UnderWay
<1>4. e \in WorkerEvents /\ e[1] = g /\ e[2] \in DOMAIN pods[g].log
  BY <1>1, <1>2, <1>3, StoredCount
<1>5. UNCHANGED <<jobs, pods, acks, op>>
  BY DEF ReadLine, KeepButReader, clusterVars
<1> QED
  BY <1>2, <1>4, <1>5

(* Stored and processed events stay, and an exhausted log takes no more.    *)
LEMMA RowsGrow ==
  ASSUME ControllerInv, Next
  PROVE  \A a \in Attempts :
           /\ inbox[a] \subseteq inbox'[a] /\ processed[a] \subseteq processed'[a]
           /\ exhausted[a] => exhausted'[a] /\ inbox'[a] = inbox[a]
<1>1. /\ inbox \in [Attempts -> SUBSET WorkerEvents]
      /\ processed \in [Attempts -> SUBSET WorkerEvents]
      /\ exhausted \in [Attempts -> BOOLEAN]
      /\ current \in Attempts /\ StoreTypeOK
  BY DEF ControllerInv, ControllerTypeOK, StoreTypeOK
<1>2. ASSUME NEW a \in Attempts
      PROVE  inbox[a] \subseteq inbox'[a] /\ (exhausted[a] => inbox'[a] = inbox[a])
  <2>1. CASE inbox' = inbox
    BY <2>1
  <2>2. ASSUME NEW g \in Jobs, ReadLine(g)
        PROVE  inbox[a] \subseteq inbox'[a] /\ (exhausted[a] => inbox'[a] = inbox[a])
    <3>1. PICK e \in WorkerEvents : inbox' = [inbox EXCEPT ![current] = @ \cup {e}]
      BY <2>2, ReadLineStep
    <3>2. ~exhausted[current]
      BY <2>2, ReadLineStep
    <3>3. inbox'[a] = IF a = current THEN inbox[a] \cup {e} ELSE inbox[a]
      BY <1>1, <3>1
    <3> QED
      BY <3>2, <3>3
  <2> QED
    BY <2>1, <2>2, StoreWrites DEF StoreWriters
<1>3. ASSUME NEW a \in Attempts PROVE processed[a] \subseteq processed'[a]
  <2>1. CASE processed' = processed
    BY <2>1
  <2>2. CASE MarkProcessed
    BY <1>1, <2>2 DEF MarkProcessed, MarkWorkerEventProcessed
  <2> QED
    BY <2>1, <2>2, StoreWrites DEF StoreWriters
<1>4. ASSUME NEW a \in Attempts, exhausted[a] PROVE exhausted'[a]
  <2>1. CASE exhausted' = exhausted
    BY <1>4, <2>1
  <2>2. CASE ValidationNext
    BY <2>1, <2>2 DEF ValidationNext, RecordValidationResultOnce, RecordValidationStartedOnce,
                      MarkValidationComplete, attemptVars
  <2>3. CASE LogNext
    BY <1>1, <1>4, <2>3 DEF LogNext, AppendWorkerEvent, MarkWorkerEventProcessed,
                            SaveAttemptSnapshot, MarkLogsExhausted, attemptVars
  <2>4. CASE ResultNext
    BY <2>1, <2>4 DEF ResultNext, RecordPullRequestCandidate, RecordVerifiedPullRequest, attemptVars
  <2> QED
    BY <1>1, <2>1, <2>2, <2>3, <2>4, StoreStep, LifecycleStep, ForgeStep, AttemptStep
    DEF OwnNext, storeVars
<1> QED
  BY <1>2, <1>3, <1>4

(* One step keeps every variable of the controller in its domain.           *)
LEMMA TypeStep ==
  ASSUME ControllerInv, Next
  PROVE  ControllerTypeOK'
<1>1. /\ StoreTypeOK /\ ClusterTypeOK /\ op \in Operations
      /\ registered \subseteq Attempts /\ startups \subseteq Attempts /\ acks \subseteq WorkerEvents
      /\ reader \in [Jobs -> [at : {"reading", "eof", "ended", "waiting"}, job : JobStatuses]]
  BY DEF ControllerInv, ControllerTypeOK, Operations
<1>2. StoreTypeOK'
  BY <1>1, StoreStep, StoreTypeStep DEF OwnNext, StoreNext
<1>3. ClusterTypeOK'
  <2>1. ASSUME NEW g \in Jobs PROVE Len(pods'[g].log) <= MaxLines
    <3>1. pods[g].log \in Seq(Events) /\ Len(pods[g].log) <= MaxLines
      BY <1>1 DEF ClusterTypeOK
    <3>2. MaxLines \in Nat
      BY MaxLogNat, ClusterAssumption DEF ClusterAssumption
    <3>3. CASE pods'[g].log = pods[g].log
      BY <3>1, <3>3
    <3>4. ASSUME NEW e \in Events, pods'[g].log = Append(pods[g].log, e), Len(pods[g].log) < MaxLines
          PROVE  Len(pods'[g].log) <= MaxLines
      BY <3>1, <3>2, <3>4
    <3> QED
      BY <3>3, <3>4, ClusterMoves DEF PodMoves
  <2>2. secrets' \subseteq Attempts
    <3>1. secrets \subseteq Attempts /\ op.attempt \in Attempts
      BY <1>1 DEF ClusterTypeOK, Operations
    <3> QED
      BY <3>1, Writers DEF ChangedBy, EnsureSecret, CancelSecret
  <2> QED
    BY <2>1, <2>2, ClusterMoves DEF ClusterTypeOK
<1>4. op' \in Operations
  BY <1>1, IdleRow, OperationStep DEF ControllerInv, GoesOn, Begins
<1>5. registered' \subseteq Attempts
  <2>1. op.attempt \in Attempts
    BY <1>1 DEF Operations
  <2> QED
    BY <1>1, <2>1, Writers DEF ChangedBy, Register
<1>6. startups' \subseteq Attempts
  <2>1. current \in Attempts /\ current' \in Attempts
    BY UnderWay, CurrentKept
  <2> QED
    BY <1>1, <2>1, Writers DEF ChangedBy, RecoverFeedback
<1>7. acks' \subseteq WorkerEvents
  <2>1. op.call = "event" => op.event \in WorkerEvents
    BY <1>1 DEF ControllerInv, EventsWerePrinted, StoreTypeOK, Operations
  <2>2. ASSUME NEW g \in Jobs, BeginEvent(g) PROVE acks' \subseteq WorkerEvents
    BY <1>1, <2>2 DEF BeginEvent
  <2> QED
    BY <1>1, <2>1, <2>2, Writers DEF ChangedBy
<1>8. reader' \in [Jobs -> [at : {"reading", "eof", "ended", "waiting"}, job : JobStatuses]]
  <2>1. Reading \in [at : {"reading", "eof", "ended", "waiting"}, job : JobStatuses]
    BY DEF Reading, NoJobStatus, JobStatuses
  <2>2. CASE Crash
    BY <2>1, <2>2 DEF Crash
  <2>3. ASSUME NEW g \in Jobs,
               \/ ReadLine(g) \/ StreamEnds(g) \/ CheckTerminal(g) \/ ReadBarrier(g)
               \/ WorkerLogsExhausted(g) \/ ReaderFails(g)
        PROVE  reader' \in [Jobs -> [at : {"reading", "eof", "ended", "waiting"}, job : JobStatuses]]
    <3>1. jobs[g].status \in JobStatuses
      BY <1>1 DEF ClusterTypeOK, JobRows
    <3>2. CASE ReadLine(g)
      BY <1>1, <3>2 DEF ReadLine
    <3>3. CASE ReadBarrier(g)
      BY <1>1, <3>1, <3>3 DEF ReadBarrier
    <3>4. CASE WorkerLogsExhausted(g) \/ ReaderFails(g)
      BY <1>1, <2>1, <3>4 DEF WorkerLogsExhausted, ReaderFails
    <3>5. CASE StreamEnds(g) \/ CheckTerminal(g)
      BY <1>1, <3>5 DEF StreamEnds, CheckTerminal, MoveReader
    <3> QED
      BY <2>3, <3>2, <3>3, <3>4, <3>5
  <2> QED
    BY <1>1, <2>2, <2>3, Writers DEF ChangedBy, ReaderNext
<1> QED
  BY <1>2, <1>3, <1>4, <1>5, <1>6, <1>7, <1>8 DEF ControllerTypeOK, Operations

(* A Job that belongs to an attempt keeps belonging to it.                  *)
LEMMA JobKept ==
  ASSUME ControllerInv, Next, NEW g \in Jobs, jobs[g].attempt \in Existing
  PROVE  jobs'[g].attempt = jobs[g].attempt /\ jobs'[g].attempt \in Existing'
<1>1. jobs[g] # NoJob
  BY DEF NoJob, Existing
<1> QED
  BY <1>1, ClusterMoves, CurrentKept DEF JobMoves

(* The lines of a log stay where they are.                                  *)
LEMMA LineKept ==
  ASSUME ControllerInv, Next, NEW g \in Jobs, NEW i \in DOMAIN pods[g].log
  PROVE  i \in DOMAIN pods'[g].log /\ pods'[g].log[i] = pods[g].log[i]
<1>1. pods[g].log \in Seq(Events) /\ i \in 1..Len(pods[g].log)
  BY DEF ControllerInv, ControllerTypeOK, ClusterTypeOK
<1>2. CASE pods'[g].log = pods[g].log
  BY <1>2
<1>3. ASSUME NEW e \in Events, pods'[g].log = Append(pods[g].log, e)
      PROVE  i \in DOMAIN pods'[g].log /\ pods'[g].log[i] = pods[g].log[i]
  BY <1>1, <1>3
<1> QED
  BY <1>2, <1>3, ClusterMoves DEF PodMoves

(* One step keeps the links between Jobs, Pods, readers and stored events.  *)
LEMMA LinkStep ==
  ASSUME ControllerInv, Next
  PROVE  OperationIsCurrent' /\ JobsBelong' /\ EventsWerePrinted'
<1>1. /\ current \in Attempts /\ current \in Existing
      /\ op.pc # "idle" => op.attempt = current
      /\ op # Idle => op.attempt = current
      /\ Existing \subseteq Attempts
  BY UnderWay, ExistingRows DEF ControllerInv, ControllerTypeOK, OperationIsCurrent
<1>2. /\ \A a \in Attempts : inbox[a] \subseteq WorkerEvents /\ inbox[a] \subseteq inbox'[a]
      /\ inbox \in [Attempts -> SUBSET WorkerEvents] /\ processed \in [Attempts -> SUBSET WorkerEvents]
  BY RowsGrow DEF ControllerInv, ControllerTypeOK, StoreTypeOK
<1>3. \A g \in Jobs : jobs[g] = NoJob \/ jobs[g].attempt \in Existing
  BY DEF ControllerInv, JobsBelong
<1>4. OperationIsCurrent'
  <2>1. SUFFICES ASSUME op' # Idle PROVE op'.attempt = current'
    BY DEF OperationIsCurrent, Idle
  <2>2. current' = current
    BY <2>1, CurrentKept
  <2> QED
    BY <1>1, <2>1, <2>2, OperationStep DEF ControllerInv, GoesOn, Begins
<1>5. JobsBelong'
  <2>1. SUFFICES ASSUME NEW g \in Jobs
                 PROVE  /\ jobs'[g] = NoJob \/ jobs'[g].attempt \in Existing'
                        /\ reader'[g].at # "reading" => jobs'[g].attempt \in Existing'
    BY DEF JobsBelong, Jobs, NoJob
  <2>2. jobs'[g] = NoJob \/ jobs'[g].attempt \in Existing'
    <3>1. CASE jobs[g].attempt \in Existing
      BY <3>1, JobKept
    <3>2. CASE jobs[g] = NoJob
      <4>1. NewJob.attempt \in Existing'
        BY <1>1, CurrentKept DEF NewJob
      <4> QED
        BY <3>2, <4>1, ClusterMoves DEF JobMoves
    <3> QED
      BY <1>3, <3>1, <3>2
  <2>3. ASSUME reader'[g].at # "reading" PROVE jobs[g].attempt \in Existing
    <3>1. reader[g].at # "reading" => jobs[g].attempt \in Existing
      BY DEF ControllerInv, JobsBelong
    <3>2. jobs[g].status # "none" => jobs[g].attempt \in Existing
      BY <1>3 DEF NoJob
    <3>3. reader \in [Jobs -> [at : {"reading", "eof", "ended", "waiting"}, job : JobStatuses]]
      BY DEF ControllerInv, ControllerTypeOK
    <3>4. CASE Crash
      BY <2>3, <3>4 DEF Crash, Reading
    <3>5. ASSUME NEW h \in Jobs,
                 \/ ReadLine(h) \/ StreamEnds(h) \/ CheckTerminal(h) \/ ReadBarrier(h)
                 \/ WorkerLogsExhausted(h) \/ ReaderFails(h)
          PROVE  \/ reader'[g] = reader[g] \/ reader[g].at # "reading"
                 \/ jobs[g].status # "none" \/ reader'[g].at = "reading"
      <4>1. CASE ReadLine(h)
        BY <4>1 DEF ReadLine
      <4>2. CASE StreamEnds(h) \/ CheckTerminal(h)
        BY <3>3, <4>2 DEF StreamEnds, CheckTerminal, ReaderAt, MoveReader
      <4>3. CASE ReadBarrier(h)
        BY <3>3, <4>3 DEF ReadBarrier, ReaderAt
      <4>4. CASE WorkerLogsExhausted(h) \/ ReaderFails(h)
        BY <3>3, <4>4 DEF WorkerLogsExhausted, ReaderFails, Reading
      <4> QED
        BY <3>5, <4>1, <4>2, <4>3, <4>4
    <3> QED
      BY <2>3, <3>1, <3>2, <3>4, <3>5, Writers DEF ChangedBy, ReaderNext
  <2> QED
    BY <2>2, <2>3, JobKept
<1>6. \A a \in Attempts : \A e \in inbox[a] :
        a \in Existing /\ e[1] \in Jobs /\ AttemptOf(e)' = a /\ e[2] \in DOMAIN pods'[e[1]].log
  <2>1. SUFFICES ASSUME NEW a \in Attempts, NEW e \in inbox[a]
                 PROVE  /\ a \in Existing /\ e[1] \in Jobs /\ AttemptOf(e)' = a
                        /\ e[2] \in DOMAIN pods'[e[1]].log
    OBVIOUS
  <2>2. e[1] \in Jobs /\ jobs[e[1]].attempt = a /\ e[2] \in DOMAIN pods[e[1]].log
    BY StoredEvent DEF AttemptOf
  <2>3. a \in Existing
    BY <1>3, <2>2 DEF NoJob
  <2>4. jobs'[e[1]].attempt = a /\ e[2] \in DOMAIN pods'[e[1]].log
    BY <2>2, <2>3, JobKept, LineKept
  <2> QED
    BY <2>2, <2>3, <2>4 DEF AttemptOf
<1>7. \A a \in Attempts : \A e \in inbox'[a] : AttemptOf(e)' = a /\ e[2] \in DOMAIN pods'[e[1]].log
  <2>1. CASE inbox' = inbox
    BY <1>6, <2>1
  <2>2. ASSUME NEW g \in Jobs, ReadLine(g), NEW a \in Attempts, NEW e \in inbox'[a]
        PROVE  AttemptOf(e)' = a /\ e[2] \in DOMAIN pods'[e[1]].log
    <3>1. /\ jobs[g].attempt = current /\ UNCHANGED <<jobs, pods>>
      BY <2>2, ReadLineStep
    <3>2. PICK d \in WorkerEvents : /\ d[1] = g /\ d[2] \in DOMAIN pods[g].log
                                    /\ inbox' = [inbox EXCEPT ![current] = @ \cup {d}]
      BY <2>2, ReadLineStep
    <3>3. e \in inbox[a] \/ (e = d /\ a = current)
      BY <1>2, <2>2, <3>2
    <3> QED
      BY <1>6, <3>1, <3>2, <3>3 DEF AttemptOf
  <2> QED
    BY <2>1, <2>2, StoreWrites DEF StoreWriters
<1>8. \A a \in Attempts : processed'[a] \subseteq inbox'[a]
  <2>1. SUFFICES ASSUME NEW a \in Attempts PROVE processed'[a] \subseteq inbox'[a]
    OBVIOUS
  <2>2. processed[a] \subseteq inbox'[a]
    BY <1>2 DEF ControllerInv, EventsWerePrinted
  <2>3. ASSUME MarkProcessed PROVE processed'[a] \subseteq processed[a] \cup inbox[a]
    <3>1. PICK e \in acks : MarkWorkerEventProcessed(AttemptOf(e), e)
      BY <2>3 DEF MarkProcessed
    <3> QED
      BY <1>2, <3>1 DEF MarkWorkerEventProcessed
  <2> QED
    BY <1>2, <2>2, <2>3, StoreWrites DEF StoreWriters
<1>9. \A e \in acks' : AttemptOf(e)' \in Existing' /\ e \in inbox'[AttemptOf(e)']
  <2>1. ASSUME NEW e, NEW a \in Existing, e \in inbox[a]
        PROVE  AttemptOf(e)' \in Existing' /\ e \in inbox'[AttemptOf(e)']
    BY <1>1, <1>2, <1>6, <2>1, CurrentKept
  <2>2. \A e \in acks : AttemptOf(e) \in Existing /\ e \in inbox[AttemptOf(e)]
    BY DEF ControllerInv, EventsWerePrinted
  <2>3. op.call = "event" => op.attempt \in Existing /\ op.event \in inbox[op.attempt]
    BY <1>1 DEF ControllerInv, EventsWerePrinted, Idle
  <2>4. ASSUME NEW g \in Jobs, BeginEvent(g), NEW e \in acks'
        PROVE  e \in acks \/ e \in inbox[current]
    BY <2>4 DEF BeginEvent, NextOf, Pending
  <2>5. SUFFICES ASSUME NEW e \in acks' PROVE \E a \in Existing : e \in inbox[a]
    BY <2>1
  <2>6. CASE e \in acks
    BY <2>2, <2>6
  <2>7. CASE op.call = "event" /\ e = op.event
    BY <2>3, <2>7
  <2>8. CASE \E g \in Jobs : BeginEvent(g)
    BY <1>1, <2>2, <2>4, <2>8
  <2> QED
    BY <2>5, <2>6, <2>7, <2>8, Writers DEF ChangedBy
<1>10. op'.call = "event" => op'.event \in inbox'[op'.attempt]
  <2>1. CASE op' = op
    <3>1. op.attempt \in Attempts
      BY DEF ControllerInv, ControllerTypeOK
    <3> QED
      BY <1>2, <2>1, <3>1 DEF ControllerInv, EventsWerePrinted
  <2>2. CASE GoesOn
    <3>1. op.attempt \in Attempts
      BY DEF ControllerInv, ControllerTypeOK
    <3> QED
      BY <1>2, <2>2, <3>1 DEF ControllerInv, EventsWerePrinted, GoesOn
  <2>3. CASE op' # op /\ Begins /\ op'.call = "event"
    <3>1. PICK g \in Jobs : BeginEvent(g)
      BY <2>3, IdleRow, OperationStep DEF ControllerInv, Begins, Entered
    <3>2. PICK e \in inbox[current] : e \in WorkerEvents /\ Begin("event", "handle", e)
      BY <2>3, <3>1 DEF BeginEvent, NextOf, Pending
    <3>3. op'.event = e /\ op'.attempt = current
      BY <3>2, BeginStep DEF ControllerInv, Calls, Steps
    <3> QED
      BY <1>1, <1>2, <3>2, <3>3
  <2> QED
    BY <2>1, <2>2, <2>3, IdleRow, OperationStep DEF ControllerInv
<1>11. op'.pc \in {"handle", "verdict"} => op'.call = "event"
  <2>1. SUFFICES ASSUME op' # op, op'.pc \in {"handle", "verdict"} PROVE op'.call = "event"
    BY DEF ControllerInv, EventsWerePrinted
  <2>2. (\E g \in Jobs : BeginEvent(g)) \/ AgentStarted \/ ValidationFailed
    BY <2>1, OperationStep DEF ControllerInv, Entered
  <2>3. CASE AgentStarted \/ ValidationFailed
    <3>1. op.pc = "handle" /\ op.call = "event"
      BY <2>3, UnderWay DEF AgentStarted, ValidationFailed, Handling, At
    <3>2. GoesOn
      BY <2>1, <3>1, IdleRow, OperationStep DEF ControllerInv, Begins
    <3> QED
      BY <3>1, <3>2 DEF GoesOn
  <2>4. ASSUME NEW g \in Jobs, BeginEvent(g) PROVE op'.call = "event"
    <3>1. PICK e \in WorkerEvents : Begin("event", "handle", e)
      BY <2>1, <2>4 DEF BeginEvent
    <3> QED
      BY <3>1, BeginStep DEF ControllerInv, Calls, Steps
  <2> QED
    BY <2>2, <2>3, <2>4
<1>12. EventsWerePrinted'
  BY <1>7, <1>8, <1>9, <1>10, <1>11 DEF EventsWerePrinted
<1> QED
  BY <1>4, <1>5, <1>12

-----------------------------------------------------------------------------
(* The invariants hold initially ...                                        *)
LEMMA InvInit == ControllerInit => ControllerInv
<1> SUFFICES ASSUME ControllerInit PROVE ControllerInv
  OBVIOUS
<1> USE DEF ControllerInit, ClusterInit
<1>1. StoreTypeOK
  BY StoreTypeInit DEF ControllerInit
<1>2. ClusterTypeOK
  <2>1. NoJob \in JobRows
    <3>1. FALSE \in BOOLEAN
      OBVIOUS
    <3> QED
      BY <3>1 DEF NoJob, JobRows, JobStatuses
  <2>2. NoPod \in [phase : PodPhases, log : Seq(Events)]
    BY DEF NoPod, PodPhases
  <2>3. Len(NoPod.log) <= MaxLines
    BY MaxLogNat, ClusterAssumption DEF ClusterAssumption, NoPod
  <2> QED
    BY <2>1, <2>2, <2>3 DEF ClusterTypeOK
<1>3. Reading \in [at : {"reading", "eof", "ended", "waiting"}, job : JobStatuses]
  BY DEF Reading, NoJobStatus, JobStatuses
<1>4. ControllerTypeOK
  BY <1>1, <1>2, <1>3, IdleRow DEF ControllerTypeOK, Operations
<1>5. OperationIsCurrent /\ JobsBelong
  BY DEF OperationIsCurrent, JobsBelong, Reading
<1>6. EventsWerePrinted
  BY IdleRow DEF EventsWerePrinted, StoreInit
<1> QED
  BY <1>4, <1>5, <1>6 DEF ControllerInv

(* ... and after every step.                                                *)
LEMMA InvStep == ControllerInv /\ [Next]_vars => ControllerInv'
<1> SUFFICES ASSUME ControllerInv, [Next]_vars PROVE ControllerInv'
  OBVIOUS
<1>1. CASE Next
  BY <1>1, TypeStep, LinkStep DEF ControllerInv
<1>2. CASE UNCHANGED vars
  BY <1>2 DEF ControllerInv, ControllerTypeOK, OperationIsCurrent, JobsBelong, EventsWerePrinted, AttemptOf,
              StoreTypeOK, ClusterTypeOK, Existing, vars, storeVars, clusterVars, volatileVars
<1> QED
  BY <1>1, <1>2

(* Every operation stays on the current attempt, every Job belongs to an    *)
(* attempt that exists, and every stored, processed or handled event is a   *)
(* line its attempt's worker printed.                                       *)
THEOREM ControllerInvariant == Spec => []ControllerInv
BY InvInit, InvStep, PTL DEF Spec

(* Every variable keeps its type: an operation refers to rows, Jobs and     *)
(* events that exist, however steps, crashes and retries interleave.        *)
THEOREM ControllerTypeCorrect == Spec => []ControllerTypeOK
<1>1. ControllerInv => ControllerTypeOK
  BY DEF ControllerInv
<1> QED
  BY <1>1, ControllerInvariant, PTL

(* The controller, the readers, the cluster and every failure of theirs     *)
(* move the rows of the task only by transactions of the store.             *)
THEOREM ControllerRunsTransactions == Spec => StoreSpec
<1>1. ControllerInit => StoreInit
  BY DEF ControllerInit
<1>2. ControllerInv /\ [Next]_vars => [StoreNext]_storeVars
  BY StoreStep DEF OwnNext, StoreNext, vars
<1> QED
  BY <1>1, <1>2, ControllerInvariant, PTL DEF Spec, StoreSpec

(* So the contract of the task (TaskContract) is kept by the whole system.  *)
THEOREM ControllerKeepsContract == Spec => KeepsContract
BY ControllerRunsTransactions, StoreKeepsContract, PTL

(* And so is that of its feedback (FeedbackContract).                       *)
THEOREM ControllerKeepsFeedback == Spec => KeepsFeedback
BY ControllerRunsTransactions, StoreKeepsFeedback, PTL

(* What the store keeps, whoever calls it, is there in every state.         *)
StoreInv == /\ StoreTypeOK /\ PullRequestIsDurable /\ CancellationIsLive /\ FutureRows /\ FutureGit
            /\ FeedbackOwnsCurrentAttempt

(* The invariants of the store hold of the controller's states.             *)
LEMMA StoreInvariant == Spec => []StoreInv
<1>1. StoreTypeOK /\ PullRequestIsDurable /\ CancellationIsLive /\ FutureRows /\ FutureGit
        /\ FeedbackOwnsCurrentAttempt => StoreInv
  BY DEF StoreInv
<1> QED
  BY <1>1, ControllerRunsTransactions, StoreTypeCorrect, PullRequestDurable, CancellationLive,
     FutureRowsEmpty, FutureGitEmpty, FeedbackFollowsCurrent, PTL

-----------------------------------------------------------------------------
(* The outcome of a Job follows its log *)

(* A step that keeps an operation under way keeps its attempt the current   *)
(* one, and so what is durable about its log.                               *)
LEMMA LogKept ==
  ASSUME ControllerInv, Next, op' # Idle
  PROVE  /\ current' = current /\ op'.attempt = current
         /\ exhausted[current] =>
              exhausted'[current] /\ (Pending(current) = {} => Pending(current)' = {})
<1>1. current' = current
  BY CurrentKept
<1>2. op'.attempt = current
  <2>1. op'.attempt = current'
    BY LinkStep DEF OperationIsCurrent, Idle
  <2> QED
    BY <1>1, <2>1
<1> QED
  BY <1>1, <1>2, UnderWay, RowsGrow DEF Pending

(* What an operation that decides by a Job's status knows about the log.    *)
LEMMA LogWasReadStep == ControllerInv /\ LogWasRead /\ [Next]_vars => LogWasRead'
<1> SUFFICES ASSUME ControllerInv, LogWasRead, [Next]_vars PROVE LogWasRead'
  OBVIOUS
<1>1. CASE UNCHANGED vars
  BY <1>1 DEF LogWasRead, Pending, vars, storeVars, volatileVars
<1>2. CASE Next /\ op' = Idle
  BY <1>2, IdleRow DEF LogWasRead
<1>3. CASE Next /\ op' = op /\ op # Idle
  <2>1. op.attempt = current
    BY <1>3, LogKept
  <2> QED
    BY <1>3, <2>1, LogKept DEF LogWasRead
<1>4. CASE Next /\ op' # op /\ op' # Idle
  <2>1. /\ current' = current /\ op'.attempt = current /\ current \in Attempts
        /\ exhausted[current] =>
             exhausted'[current] /\ (Pending(current) = {} => Pending(current)' = {})
    BY <1>4, LogKept, UnderWay
  <2>2. Entered(op'.pc) /\ (GoesOn \/ Begins)
    BY <1>4, OperationStep DEF ControllerInv
  <2>3. exhausted \in [Attempts -> BOOLEAN]
    BY DEF ControllerInv, ControllerTypeOK, StoreTypeOK
  <2>4. op'.exhausted => exhausted'[current]
    <3>1. CASE Finish
      <4>1. /\ op.pc = "finish" /\ op.attempt = current
            /\ \/ MarkLogsExhausted(op.attempt)
               \/ op' = Idle \/ \E p \in Steps : Goto(p)
        BY <3>1, UnderWay DEF Finish, At, Return, Steps
      <4>2. CASE MarkLogsExhausted(op.attempt)
        BY <2>1, <2>3, <4>1, <4>2 DEF MarkLogsExhausted
      <4>3. ASSUME NEW p \in Steps, Goto(p), op'.exhausted PROVE exhausted'[current]
        <5>1. op.exhausted
          BY <4>1, <4>3, GotoStep, UnderWay
        <5> QED
          BY <2>1, <4>1, <5>1 DEF LogWasRead
      <4> QED
        BY <1>4, <4>1, <4>2, <4>3
    <3>2. CASE op.exhausted
      BY <2>1, <2>2, <3>2, UnderWay, IdleRow DEF LogWasRead, GoesOn, Begins
    <3> QED
      BY <2>1, <2>2, <3>1, <3>2 DEF Entered
  <2>5. op'.pc \in {"failedJob", "completedJob"} => exhausted'[current]
    <3>1. ASSUME Finish, op'.pc \in {"failedJob", "completedJob"} PROVE exhausted[current]
      <4>1. op.exhausted /\ op.pc = "finish"
        <5>1. op \in Operations
          BY UnderWay
        <5>2. /\ op.pc = "finish" => ([op EXCEPT !.exhausted = TRUE]).pc = "finish"
              /\ ([op EXCEPT !.pc = "recover"]).pc = "recover"
          BY <5>1 DEF Operations
        <5> QED
          BY <3>1, <5>2, IdleRow DEF Finish, At, Return, Goto
      <4> QED
        BY <4>1, UnderWay DEF LogWasRead
    <3>2. ASSUME NEW g \in Jobs, WorkerLogsExhausted(g), op' # op
          PROVE  exhausted'[current]
      BY <2>1, <2>3, <3>2 DEF WorkerLogsExhausted, MarkLogsExhausted, JobFinished
    <3> QED
      BY <1>4, <2>1, <2>2, <3>1, <3>2 DEF Entered
  <2>6. op'.pc = "fail" /\ op'.call # "event" => exhausted'[current] /\ Pending(current)' = {}
    <3>1. ASSUME FailedJob, op'.pc = "fail" PROVE exhausted[current] /\ Pending(current) = {}
      <4>1. op.pc = "failedJob" /\ Pending(op.attempt) = {}
        BY <3>1, IdleRow DEF FailedJob, At, TransitionLast, Return
      <4> QED
        BY <4>1, UnderWay DEF LogWasRead
    <3>2. ASSUME Verdict PROVE op'.call = "event" \/ op' = Idle
      <4>1. op.pc = "verdict" /\ op.call = "event"
        BY <3>2, UnderWay DEF Verdict, At
      <4> QED
        BY <2>2, <4>1, IdleRow DEF GoesOn, Begins
    <3> QED
      BY <1>4, <2>1, <2>2, <3>1, <3>2 DEF Entered
  <2> QED
    BY <2>1, <2>4, <2>5, <2>6 DEF LogWasRead
<1> QED
  BY <1>1, <1>2, <1>3, <1>4

(* A Job's status fails the task only after its log is read to the end and  *)
(* every worker event in it has been handled, in whatever order readers,    *)
(* passes and event handlers get the lock.                                  *)
THEOREM OutcomeAfterLog == Spec => OutcomeFollowsLog
<1> DEFINE Followed == op.call \in {"reconcile", "logs"} /\ op.pc # "surrender"
                          /\ state' = "failed" /\ state # "failed"
                         => exhausted[current] /\ Pending(current) = {}
<1>1. ControllerInit => LogWasRead
  BY IdleRow DEF ControllerInit, LogWasRead
<1>2. ControllerInv /\ LogWasRead /\ [Next]_vars => [Followed]_vars
  <2> SUFFICES ASSUME ControllerInv, LogWasRead, Next, op.call \in {"reconcile", "logs"},
                      op.pc # "surrender", state' = "failed", state # "failed"
               PROVE  exhausted[current] /\ Pending(current) = {}
    OBVIOUS
  <2>1. FailedJob \/ Fail \/ CompletedJob
    <3>1. op.pc \notin {"handle", "verdict", "surrender"}
      BY UnderWay
    <3> QED
      BY <3>1, StoreWrites DEF StoreWriters, Surrender, WorkerFailed, PullRequestPublished,
         PullRequestReady, Handling, At
  <2>2. CASE FailedJob
    BY <2>2, UnderWay, TransactionFrames DEF FailedJob, At, TransitionLast, LogWasRead, KeepStore, storeVars
  <2>3. CASE Fail
    BY <2>3, UnderWay DEF Fail, At, LogWasRead
  <2>4. CASE CompletedJob
    BY <2>4, UnderWay DEF CompletedJob, At, LogWasRead, KeepStore, storeVars
  <2> QED
    BY <2>1, <2>2, <2>3, <2>4
<1>3. Spec => []LogWasRead
  BY <1>1, LogWasReadStep, ControllerInvariant, PTL DEF Spec
<1> QED
  BY <1>2, <1>3, ControllerInvariant, PTL DEF Spec, OutcomeFollowsLog

-----------------------------------------------------------------------------
(* A confirmed cancellation *)

(* A requested cancellation stays requested until the task is CANCELLED.    *)
LEMMA RequestKept ==
  ASSUME ControllerInv, StoreInv, Next, cancelRequested
  PROVE  cancelRequested' \/ (state' = "cancelled" /\ CancelEvents /\ op' = Idle)
<1>1. \/ state' = state /\ cancelRequested'
      \/ state' = "cancelled" /\ ~cancelRequested'
  BY StoreStep, CancellationStep DEF OwnNext, StoreNext, StoreInv
<1>2. state # "cancelled"
  BY DEF StoreInv, CancellationIsLive, Settled
<1>3. state' = "cancelled" => CancelEvents
  BY <1>2, StoreWrites DEF StoreWriters
<1>4. ASSUME CancelEvents, state' = "cancelled" PROVE op' = Idle
  BY <1>2, <1>4, TransactionFrames DEF CancelEvents, TransitionLast, Return
<1> QED
  BY <1>1, <1>3, <1>4

(* Without a Job and a Pod, only the creation of a Job brings any back.     *)
LEMMA NothingReturns ==
  ASSUME ControllerInv, Next, NothingRuns, ~EnsureJob, current' = current
  PROVE  NothingRuns'
<1>1. ASSUME NEW g \in Jobs, jobs'[g].attempt = current
      PROVE  jobs'[g].status = "gone" /\ ~PodPresent(g)'
  <2>1. current # 0
    BY UnderWay
  <2>2. jobs[g] # NoJob /\ jobs[g].attempt = current /\ (jobs[g].status = "gone" => jobs'[g].status = "gone")
    BY <1>1, <2>1, ClusterMoves DEF JobMoves, NoJob
  <2>3. jobs[g].status = "gone" /\ ~PodPresent(g)
    BY <2>2 DEF NothingRuns, JobOf, PodsOf
  <2>4. jobs[g].status # "pending"
    BY <2>3
  <2> QED
    BY <2>2, <2>3, <2>4, ClusterMoves DEF PodMoves
<1>2. Jobs' = Jobs
  BY DEF Jobs
<1> QED
  BY <1>1, <1>2 DEF NothingRuns, JobOf, PodsOf

(* A Secret that is gone is created and registered only by a startup.       *)
LEMMA SecretStaysGone ==
  ASSUME ControllerInv, Next, SecretGone, op.pc \notin {"secret", "register"}, current' = current
  PROVE  SecretGone'
<1>1. registered' = registered
  BY Writers DEF ChangedBy, Register, At
<1>2. secrets' \subseteq secrets
  BY Writers DEF ChangedBy, EnsureSecret, CancelSecret, At
<1> QED
  BY <1>1, <1>2 DEF SecretGone

(* The calls that begin an operation.                                       *)
LEMMA Beginnings ==
  ASSUME Next, op = Idle, op' # op
  PROVE  \/ \E a \in Attempts : BeginStartup(a)
         \/ BeginReconcile \/ Cancel \/ RecoverFeedback
         \/ \E g \in Jobs : BeginEvent(g) \/ WorkerLogsExhausted(g)
<1>1. op.pc = "idle"
  BY IdleRow
<1>2. ASSUME StartupNext PROVE \E a \in Attempts : BeginStartup(a)
  BY <1>1, <1>2 DEF StartupNext, At, Snapshot, Advance, Intent, EnsureSecret, Register, EnsureJob,
                    Complete, GiveUp, Surrender
<1>3. ASSUME ReconcileNext PROVE BeginReconcile
  BY <1>1, <1>3 DEF ReconcileNext, At, Resume, Promote, Promoting, CompleteFeedback, Observe, Finish,
                    Recover, FailedJob, Fail, CompletedJob
<1>4. ASSUME CancellationNext PROVE Cancel
  BY <1>1, <1>4 DEF CancellationNext, At, CancelApi, CancelDelete, CancelConfirm, CancelSecret,
                    CancelLogs, CancelEvents
<1>5. ASSUME EventNext PROVE \E g \in Jobs : BeginEvent(g)
  BY <1>1, <1>5 DEF EventNext, At, Handling, AgentStarted, ValidationStarted, ValidationResult,
                    ValidationSucceeded, ValidationFailed, Verdict, WorkerFailed,
                    PullRequestPublished, PullRequestReady, MarkProcessed
<1>6. ASSUME ReaderNext PROVE \E g \in Jobs : WorkerLogsExhausted(g)
  BY <1>6 DEF ReaderNext, KeepButReader, ReadLine, StreamEnds, CheckTerminal, ReadBarrier, ReaderFails
<1>7. ASSUME CallerNext PROVE RecoverFeedback
  BY <1>7 DEF CallerNext, RetryWithKey, FollowUp, ProcessForgeEvents, volatileVars
<1>8. ~(Abandon \/ Crash \/ ClusterNext)
  BY DEF Abandon, Crash, ClusterNext, ClusterStep, volatileVars
<1> QED
  BY <1>2, <1>3, <1>4, <1>5, <1>6, <1>7, <1>8 DEF Next

(* Nothing begins on a cancelled task whose cancellation was confirmed.     *)
LEMMA CancelledStaysIdle ==
  ASSUME ControllerInv, Next, state = "cancelled", op = Idle, exhausted[current],
         RunningFeedback(current) = {}
  PROVE  op' = Idle
<1>1. state \in Settled
  BY DEF Settled
<1>2. ASSUME NEW a \in Attempts, BeginStartup(a) PROVE op' = op
  BY <1>1, <1>2 DEF BeginStartup
<1>3. ~BeginReconcile /\ ~Cancel /\ ~RecoverFeedback
  BY <1>1 DEF BeginReconcile, Cancel, RequestCancellation, RecoverFeedback
<1>4. ASSUME NEW g \in Jobs, BeginEvent(g) \/ WorkerLogsExhausted(g) PROVE op' = op
  <2>1. CASE BeginEvent(g)
    BY <1>1, <2>1 DEF BeginEvent
  <2>2. CASE WorkerLogsExhausted(g)
    BY <1>1, <2>2 DEF WorkerLogsExhausted
  <2> QED
    BY <1>4, <2>1, <2>2
<1> QED
  BY <1>2, <1>3, <1>4, Beginnings

(* A cancellation that goes on has found and done what its order says.      *)
LEMMA CancellingStep ==
  ASSUME ControllerInv, StoreInv, CancellationInOrder, Next, op' # Idle, op' # op
  PROVE  /\ op'.pc \in Cancelling => cancelRequested'
         /\ op'.pc \in Confirmed => NothingRuns'
         /\ op'.pc \in {"cancelLogs", "cancelEvents"} => SecretGone'
         /\ op'.pc = "cancelEvents" => exhausted'[current']
<1>1. /\ current' = current /\ current \in Attempts /\ Entered(op'.pc)
      /\ op.pc # "idle" => op.attempt = current
  BY LogKept, UnderWay, OperationStep DEF ControllerInv
<1>2. ASSUME op'.pc \in Cancelling PROVE cancelRequested'
  <2>1. CASE Cancel
    BY <2>1 DEF Cancel, RequestCancellation
  <2>2. CASE BeginReconcile
    <3>1. cancelRequested' = cancelRequested
      BY <2>2 DEF BeginReconcile, KeepStore, storeVars
    <3>2. op'.pc = IF cancelRequested THEN "cancelDelete" ELSE "advance"
      BY <2>2 DEF BeginReconcile, Begin, Idle
    <3> QED
      BY <1>2, <3>1, <3>2 DEF Cancelling
  <2>3. CASE CancelDelete \/ CancelConfirm \/ CancelSecret \/ CancelLogs
    <3>1. op.pc \in Cancelling
      BY <2>3 DEF CancelDelete, CancelConfirm, CancelSecret, CancelLogs, At, Cancelling
    <3> QED
      BY <1>2, <3>1, RequestKept, IdleRow DEF CancellationInOrder, Cancelling
  <2> QED
    BY <1>1, <1>2, <2>1, <2>2, <2>3 DEF Entered, Cancelling
<1>3. ASSUME op'.pc \in Confirmed PROVE NothingRuns'
  <2>1. CASE CancelConfirm
    <3>1. NothingRuns
      BY <1>1, <2>1, <1>3, IdleRow DEF CancelConfirm, At, Return, NothingRuns, Confirmed
    <3> QED
      BY <1>1, <2>1, <3>1, NothingReturns DEF CancelConfirm, EnsureJob, At
  <2>2. CASE CancelSecret \/ CancelLogs
    <3>1. op.pc \in Confirmed /\ ~EnsureJob
      BY <2>2 DEF CancelSecret, CancelLogs, EnsureJob, At, Confirmed
    <3> QED
      BY <1>1, <3>1, NothingReturns DEF CancellationInOrder
  <2> QED
    BY <1>1, <1>3, <2>1, <2>2 DEF Entered, Confirmed
<1>4. ASSUME op'.pc \in {"cancelLogs", "cancelEvents"} PROVE SecretGone'
  <2>1. CASE CancelSecret
    BY <1>1, <2>1 DEF CancelSecret, At, SecretGone
  <2>2. CASE CancelLogs
    BY <1>1, <2>2, SecretStaysGone DEF CancelLogs, At, CancellationInOrder
  <2> QED
    BY <1>1, <1>4, <2>1, <2>2 DEF Entered
<1>5. ASSUME op'.pc = "cancelEvents" PROVE exhausted'[current']
  <2>1. CancelLogs
    BY <1>1, <1>5 DEF Entered
  <2>2. exhausted \in [Attempts -> BOOLEAN]
    BY DEF ControllerInv, ControllerTypeOK, StoreTypeOK
  <2> QED
    BY <1>1, <2>1, <2>2 DEF CancelLogs, At, MarkLogsExhausted
<1> QED
  BY <1>2, <1>3, <1>4, <1>5

(* A cancelled task was found empty, and nothing fills it again.            *)
LEMMA CancelledStep ==
  ASSUME ControllerInv, CancellationInOrder, Next, state' = "cancelled"
  PROVE  /\ op' = Idle /\ NothingRuns' /\ SecretGone'
         /\ exhausted'[current'] /\ RunningFeedback(current)' = {}
<1>1. current \in Attempts /\ (op.pc # "idle" => op.attempt = current)
  BY UnderWay
<1>2. current' = current
  <2>1. CASE AttemptNext
    BY <2>1, AttemptStep DEF ControllerInv, ControllerTypeOK
  <2>2. CASE [OwnNext]_storeVars
    BY <2>2, LifecycleStep, OtherSteps, ForgeStep
    DEF OwnNext, storeVars, ControllerInv, ControllerTypeOK
  <2> QED
    BY <2>1, <2>2, StoreStep
<1>3. NothingRuns /\ SecretGone /\ exhausted[current] /\ RunningFeedback(current) = {}
      /\ op' = Idle /\ op.pc \in {"idle", "cancelEvents"}
  <2>1. CASE state = "cancelled"
    BY <2>1, CancelledStaysIdle, IdleRow DEF CancellationInOrder
  <2>2. CASE state # "cancelled"
    <3>1. CancelEvents
      BY <2>2, StoreWrites DEF StoreWriters
    <3>2. op.pc = "cancelEvents" /\ op' = Idle /\ RunningFeedback(op.attempt) = {}
      BY <2>2, <3>1, TransactionFrames DEF CancelEvents, At, TransitionLast, Return
    <3> QED
      BY <1>1, <3>2 DEF CancellationInOrder, Confirmed
  <2> QED
    BY <2>1, <2>2
<1>4. ~EnsureJob
  BY <1>3 DEF EnsureJob, At
<1>5. RunningFeedback(current)' = {}
  <2>1. CASE forge' = forge
    BY <1>2, <1>3, <2>1 DEF RunningFeedback
  <2>2. CASE ProcessForgeEvents
    <3>1. ASSUME NEW f \in Feedback, forge'[f].status = "running" PROVE forge'[f] = forge[f]
      <4>1. CASE FailRunningFeedback(current)
        BY <3>1, <4>1 DEF FailRunningFeedback, Outcome
      <4>2. ASSUME NEW batch \in SUBSET Feedback, FailPendingFeedback(batch)
            PROVE  forge'[f] = forge[f]
        BY <3>1, <4>2 DEF FailPendingFeedback, Outcome
      <4>3. ASSUME NEW h \in Feedback, MarkForgeEventHandled(h)
            PROVE  forge'[f] = forge[f]
        <5>1. forge \in [Feedback -> FeedbackRows]
          BY DEF ControllerInv, ControllerTypeOK, StoreTypeOK
        <5> QED
          BY <3>1, <4>3, <5>1 DEF MarkForgeEventHandled, Outcome
      <4> QED
        BY <2>2, <4>1, <4>2, <4>3 DEF ProcessForgeEvents
    <3> QED
      BY <1>2, <1>3, <3>1 DEF RunningFeedback
  <2>3. CASE CancelEvents
    <3>1. RunningFeedback(op.attempt) = {}
      BY <1>1, <1>3, <2>3 DEF CancelEvents, At
    <3> QED
      BY <1>1, <1>2, <1>3, <2>3, <3>1, TransactionFrames
      DEF CancelEvents, At, TransitionLast, KeepStore, storeVars, RunningFeedback
  <2>4. ~CompleteFeedback
    BY <1>3 DEF CompleteFeedback, At
  <2>5. ~(RetryWithKey \/ FollowUp)
    BY DEF RetryWithKey, FollowUp, RetryTaskOnce, StartForgeEventAttempt, InsertAttempt
  <2> QED
    BY <2>1, <2>2, <2>3, <2>4, <2>5, StoreWrites DEF StoreWriters
<1>6. NothingRuns' /\ SecretGone'
  BY <1>2, <1>3, <1>4, NothingReturns, SecretStaysGone
<1>7. exhausted'[current']
  BY <1>1, <1>2, <1>3, RowsGrow
<1> QED
  BY <1>3, <1>5, <1>6, <1>7

(* The order of a cancellation is kept by every step.                       *)
LEMMA CancellationInOrderStep ==
  ControllerInv /\ StoreInv /\ CancellationInOrder /\ [Next]_vars => CancellationInOrder'
<1> SUFFICES ASSUME ControllerInv, StoreInv, CancellationInOrder, [Next]_vars
             PROVE  CancellationInOrder'
  OBVIOUS
<1>1. CASE UNCHANGED vars
  BY <1>1 DEF CancellationInOrder, NothingRuns, SecretGone, JobOf, PodsOf, PodPresent, RunningFeedback,
              Jobs, vars, storeVars, clusterVars, volatileVars
<1>2. CASE Next
  <2>1. state' = "cancelled" =>
          /\ op' = Idle /\ NothingRuns' /\ SecretGone'
          /\ exhausted'[current'] /\ RunningFeedback(current)' = {}
    BY <1>2, CancelledStep
  <2>2. CASE op' = Idle
    BY <2>1, <2>2, IdleRow DEF CancellationInOrder, Cancelling, Confirmed
  <2>3. CASE op' # Idle /\ op' # op
    BY <1>2, <2>1, <2>3, CancellingStep DEF CancellationInOrder
  <2>4. CASE op' # Idle /\ op' = op
    <3>1. current' = current /\ current \in Attempts
      BY <1>2, <2>4, LogKept, UnderWay
    <3>2. op.pc \in Cancelling => cancelRequested'
      BY <1>2, <2>4, RequestKept DEF CancellationInOrder
    <3>3. op.pc \in Confirmed => NothingRuns'
      BY <1>2, <3>1, NothingReturns DEF CancellationInOrder, EnsureJob, At, Confirmed
    <3>4. op.pc \in {"cancelLogs", "cancelEvents"} => SecretGone'
      BY <1>2, <3>1, SecretStaysGone DEF CancellationInOrder
    <3>5. op.pc = "cancelEvents" => exhausted'[current']
      BY <1>2, <3>1, RowsGrow DEF CancellationInOrder
    <3> QED
      BY <2>1, <2>4, <3>2, <3>3, <3>4, <3>5 DEF CancellationInOrder
  <2> QED
    BY <2>2, <2>3, <2>4
<1> QED
  BY <1>1, <1>2

(* A cancellation confirms in this order: request durable, Job and Pods     *)
(* found gone, Secret deleted, log closed, forge events released.           *)
LEMMA CancellationOrdered == Spec => []CancellationInOrder
<1>1. ControllerInit => CancellationInOrder
  BY IdleRow DEF ControllerInit, StoreInit, CancellationInOrder, Cancelling, Confirmed
<1> QED
  BY <1>1, CancellationInOrderStep, ControllerInvariant, StoreInvariant, PTL DEF Spec

(* A CANCELLED task has no Job, Pod or registered Secret, now or later,     *)
(* wherever a startup, a pass or the process stopped before.                *)
THEOREM CancellationConfirmed == Spec => []ConfirmedCancellation
<1>1. CancellationInOrder => ConfirmedCancellation
  BY DEF CancellationInOrder, NothingRuns, SecretGone, ConfirmedCancellation
<1> QED
  BY <1>1, CancellationOrdered, PTL

(* A CANCELLED follow-up holds no running forge event back.                 *)
THEOREM CancellationReleases == Spec => []CancellationReleasesFeedback
<1>1. CancellationInOrder => CancellationReleasesFeedback
  BY DEF CancellationInOrder, CancellationReleasesFeedback
<1> QED
  BY <1>1, CancellationOrdered, PTL

-----------------------------------------------------------------------------
(* An acknowledged pull_request_ready is not lost *)

(* After PR_OPEN the machine only goes on or ends.                          *)
LEMMA AfterPullRequest ==
  ASSUME NEW from \in PullRequestStates \cup Settled, NEW to, LegalTransition(from, to)
  PROVE  to \in PullRequestStates \cup Settled
<1>1. CASE to \in {"failed", "cancelled"}
  BY <1>1 DEF Settled
<1>2. ASSUME NEW i \in 1..13, lifecycle[i] = from, lifecycle[i + 1] = to
      PROVE  to \in PullRequestStates
  <2>1. i \in {1, 2, 3, 4, 5, 6, 7, 8, 9, 10, 11, 12, 13}
    OBVIOUS
  <2>2. i \in {11, 12, 13}
    BY <1>2, <2>1 DEF lifecycle, PullRequestStates, Settled
  <2> QED
    BY <1>2, <2>2 DEF lifecycle, PullRequestStates
<1> QED
  BY <1>1, <1>2 DEF LegalTransition

(* On one attempt a decided task stays decided, and a CANCELLED task stays. *)
LEMMA DecidedKept ==
  ASSUME ControllerInv, StoreInv, Next
  PROVE  /\ Decided /\ current' = current => Decided'
         /\ state = "cancelled" => current' = current /\ state' = "cancelled"
<1>1. StoreTypeOK /\ current \in Attempts
  BY UnderWay DEF StoreInv
<1>2. CASE AttemptNext
  <2>1. current' # current /\ state # "cancelled"
    BY <1>1, <1>2, AttemptStep DEF PullRequestStates
  <2> QED
    BY <2>1
<1>3. CASE [OwnNext]_storeVars
  <2>1. current' = current
    BY <1>1, <1>3, LifecycleStep, OtherSteps, ForgeStep DEF OwnNext, storeVars
  <2>2. state' = state \/ LegalTransition(state, state')
    BY <1>1, <1>3, LifecycleStep, OtherSteps, ForgeStep DEF OwnNext, storeVars, CanTransition, MoveTo
  <2>3. state = "cancelled" => state' = "cancelled"
    BY <2>2 DEF LegalTransition, Settled
  <2>4. CASE cancelRequested
    <3>1. cancelRequested' \/ state' = "cancelled"
      BY <2>4, RequestKept
    <3> QED
      BY <2>1, <2>3, <3>1 DEF Decided, Settled
  <2>5. CASE state \in PullRequestStates \cup Settled
    <3>1. state' \in PullRequestStates \cup Settled
      BY <2>2, <2>5, AfterPullRequest
    <3> QED
      BY <2>1, <2>3, <3>1 DEF Decided
  <2> QED
    BY <2>1, <2>3, <2>4, <2>5 DEF Decided
<1> QED
  BY <1>2, <1>3, StoreStep

(* A new attempt has no worker event yet.                                   *)
LEMMA NewAttemptEmpty ==
  ASSUME ControllerInv, Next, current' # current
  PROVE  /\ inbox'[current'] = {} /\ processed'[current'] = {}
         /\ op' = Idle /\ UNCHANGED <<jobs, pods, acks>>
<1>1. /\ AttemptNext /\ UNCHANGED <<jobs, pods, acks, op>> /\ op = Idle
  <2>1. ~[OwnNext]_storeVars
    BY LifecycleStep, OtherSteps, ForgeStep DEF OwnNext, storeVars, ControllerInv, ControllerTypeOK
  <2> QED
    BY <2>1, StoreStep DEF clusterVars
<1>2. current' = current + 1 /\ current' \in Attempts /\ UNCHANGED <<inbox, processed>>
  BY <1>1, AttemptStep DEF ControllerInv, ControllerTypeOK
<1>3. ASSUME NEW e \in inbox[current'] PROVE FALSE
  <2>1. e[1] \in Jobs /\ jobs[e[1]].attempt = current'
    BY <1>2, StoredEvent DEF AttemptOf
  <2>2. jobs[e[1]].attempt \in Existing
    <3>1. jobs[e[1]] # NoJob
      BY <1>2, <2>1, UnderWay DEF NoJob
    <3> QED
      BY <2>1, <3>1 DEF ControllerInv, JobsBelong
  <2> QED
    BY <1>2, <2>1, <2>2, UnderWay DEF Existing
<1>4. processed[current'] \subseteq inbox[current']
  BY <1>2 DEF ControllerInv, EventsWerePrinted
<1> QED
  BY <1>1, <1>2, <1>3, <1>4

(* What a worker printed stays what it is.                                  *)
LEMMA EventKept ==
  ASSUME ControllerInv, Next, NEW a \in Existing, NEW e \in inbox[a]
  PROVE  /\ AttemptOf(e) = a /\ AttemptOf(e)' = a /\ Content(e)' = Content(e)
<1>1. a \in Attempts
  BY UnderWay, ExistingRows DEF ControllerInv, ControllerTypeOK
<1>2. e[1] \in Jobs /\ jobs[e[1]].attempt = a /\ e[2] \in DOMAIN pods[e[1]].log
  BY <1>1, StoredEvent DEF AttemptOf
<1> QED
  BY <1>2, JobKept, LineKept DEF AttemptOf, Content

(* A pull_request_ready is acknowledged only when it can do nothing more.   *)
LEMMA ReadyAcknowledged ==
  ASSUME ControllerInv, ReadyIsDone, Next, op.call = "event",
         Content(op.event).type = "pull_request_ready",
         acks' = acks \cup {op.event}, op.event \notin acks
  PROVE  Decided \/ state' = "failed"
<1> USE DEF Keep, KeepButAcks, KeepButReader, volatileVars, At, Refuse, Reject, TransitionAck
<1>0. acks' # acks /\ ~(acks' \subseteq acks)
  OBVIOUS
<1>1. ~StartupNext
  BY <1>0 DEF StartupNext, BeginStartup, Snapshot, Advance, Intent, EnsureSecret, Register,
              EnsureJob, Complete, GiveUp, Surrender
<1>2. ASSUME ReconcileNext PROVE Decided \/ state' = "failed"
  <2>1. CASE Fail
    BY <1>0, <2>1, TransactionFrames DEF Fail
  <2>2. CASE Promote
    BY <1>0, <2>2 DEF Promote, Decided
  <2>3. CASE CompleteFeedback
    BY <2>3 DEF CompleteFeedback, ReadyIsDone
  <2>4. ~(BeginReconcile \/ Resume \/ Promoting \/ Observe \/ Finish \/ Recover \/ FailedJob \/ CompletedJob)
    BY <1>0 DEF BeginReconcile, Resume, Promoting, Observe, Finish, Recover, FailedJob, CompletedJob
  <2> QED
    BY <1>2, <2>1, <2>2, <2>3, <2>4 DEF ReconcileNext
<1>3. ~CancellationNext
  BY <1>0 DEF CancellationNext, Cancel, CancelApi, CancelDelete, CancelConfirm, CancelSecret,
              CancelLogs, CancelEvents
<1>4. ASSUME EventNext PROVE Decided \/ state' = "failed"
  <2>1. ASSUME NEW g \in Jobs, BeginEvent(g) PROVE Decided
    BY <1>0, <2>1 DEF BeginEvent, Decided
  <2>2. ~(AgentStarted \/ ValidationStarted \/ ValidationResult \/ ValidationSucceeded)
    BY DEF AgentStarted, ValidationStarted, ValidationResult, ValidationSucceeded, Handling
  <2>3. ~(ValidationFailed \/ Verdict \/ WorkerFailed \/ PullRequestPublished)
    BY <1>0 DEF ValidationFailed, Verdict, WorkerFailed, PullRequestPublished, Handling
  <2>4. ~PullRequestReady
    BY <1>0 DEF PullRequestReady
  <2>5. ~MarkProcessed
    BY <1>0 DEF MarkProcessed
  <2> QED
    BY <1>4, <2>1, <2>2, <2>3, <2>4, <2>5 DEF EventNext
<1>5. ~ReaderNext
  BY <1>0 DEF ReaderNext, ReadLine, StreamEnds, CheckTerminal, ReadBarrier, WorkerLogsExhausted,
              ReaderFails
<1>6. ~CallerNext
  BY <1>0 DEF CallerNext, RetryWithKey, FollowUp, RecoverFeedback, ProcessForgeEvents
<1>7. ~(Abandon \/ Crash \/ ClusterNext)
  BY <1>0 DEF Abandon, Crash, ClusterNext, ClusterStep
<1> QED
  BY <1>1, <1>2, <1>3, <1>4, <1>5, <1>6, <1>7 DEF Next

(* A handled pull_request_ready has nothing left to do after every step.    *)
LEMMA ReadyIsDoneStep ==
  ControllerInv /\ StoreInv /\ ReadyIsDone /\ [Next]_vars => ReadyIsDone'
<1> SUFFICES ASSUME ControllerInv, StoreInv, ReadyIsDone, [Next]_vars PROVE ReadyIsDone'
  OBVIOUS
<1>1. CASE UNCHANGED vars
  BY <1>1 DEF ReadyIsDone, Decided, AttemptOf, Content, vars, storeVars, clusterVars, volatileVars
<1>2. CASE Next /\ current' # current
  <2>1. /\ processed'[current'] = {} /\ op' = Idle /\ UNCHANGED <<jobs, acks>>
        /\ current' = current + 1 /\ current \in Attempts
    BY <1>2, NewAttemptEmpty, CurrentKept, UnderWay
  <2>2. \A e \in acks' : AttemptOf(e)' # current'
    BY <2>1 DEF ControllerInv, EventsWerePrinted, AttemptOf, Existing
  <2> QED
    BY <2>1, <2>2, IdleRow DEF ReadyIsDone
<1>3. CASE Next /\ current' = current
  <2>1. Decided => Decided'
    BY <1>3, DecidedKept
  <2>2. state' = "failed" => Decided'
    BY DEF Decided, Settled
  <2>3. current \in Existing /\ current \in Attempts
    BY UnderWay
  <2>4. ASSUME NEW e \in acks' \cup processed'[current'],
               AttemptOf(e)' = current', Content(e)'.type = "pull_request_ready"
        PROVE  Decided'
    <3>1. \/ e \in acks \cup processed[current]
          \/ op.call = "event" /\ e = op.event /\ acks' = acks \cup {op.event}
          \/ \E g \in Jobs : BeginEvent(g) /\ e \in acks'
      <4>1. e \in acks' \/ e \in processed'[current]
        BY <1>3, <2>4
      <4>2. processed' = processed \/ processed'[current] \subseteq processed[current] \cup acks
        <5>1. processed \in [Attempts -> SUBSET WorkerEvents]
          BY DEF ControllerInv, ControllerTypeOK, StoreTypeOK
        <5>2. ASSUME NEW d \in acks, MarkWorkerEventProcessed(AttemptOf(d), d)
              PROVE  processed'[current] \subseteq processed[current] \cup acks
          BY <2>3, <5>1, <5>2 DEF MarkWorkerEventProcessed
        <5> QED
          BY <1>3, <5>2, StoreWrites DEF StoreWriters, MarkProcessed
      <4> QED
        BY <1>3, <4>1, <4>2, Writers DEF ChangedBy
    <3>2. CASE e \in acks \cup processed[current]
      <4>1. PICK a \in Existing : e \in inbox[a]
        BY <2>3, <3>2 DEF ControllerInv, EventsWerePrinted
      <4>2. AttemptOf(e) = current /\ Content(e).type = "pull_request_ready"
        BY <1>3, <2>4, <4>1, EventKept
      <4> QED
        BY <2>1, <3>2, <4>2 DEF ReadyIsDone
    <3>3. CASE op.call = "event" /\ e = op.event /\ acks' = acks \cup {op.event} /\ e \notin acks
      <4>1. e \in inbox[op.attempt] /\ op.attempt = current
        BY <3>3, IdleRow DEF ControllerInv, EventsWerePrinted, OperationIsCurrent
      <4>2. Content(e).type = "pull_request_ready"
        BY <1>3, <2>3, <2>4, <4>1, EventKept
      <4> QED
        BY <1>3, <2>1, <2>2, <3>3, <4>2, ReadyAcknowledged
    <3>4. ASSUME NEW g \in Jobs, BeginEvent(g), e \in acks' PROVE Decided \/ e \in acks
      BY <3>4 DEF BeginEvent, Decided
    <3> QED
      BY <2>1, <3>1, <3>2, <3>3, <3>4
  <2>5. ASSUME op'.pc = "feedback", op'.call = "event" PROVE Decided'
    <3>1. CASE op' = op
      BY <2>1, <2>5, <3>1 DEF ReadyIsDone
    <3>2. CASE op' # op
      <4>1. Promoting \/ RecoverFeedback
        BY <1>3, <2>5, <3>2, OperationStep DEF ControllerInv, Entered
      <4>2. CASE Promoting
        BY <1>3, <2>1, <2>5, <4>2, IdleRow, GotoStep, UnderWay
        DEF Promoting, At, TransitionThen, Return, Steps, Decided
      <4>3. ASSUME RecoverFeedback PROVE FALSE
        <5>1. Begin("recover", "feedback", NoEvent)
          BY <3>2, <4>3 DEF RecoverFeedback
        <5> QED
          BY <2>5, <5>1, BeginStep DEF ControllerInv, Calls, Steps
      <4> QED
        BY <4>1, <4>2, <4>3
    <3> QED
      BY <3>1, <3>2
  <2> QED
    BY <2>4, <2>5 DEF ReadyIsDone
<1> QED
  BY <1>1, <1>2, <1>3

(* However often an event is read, refused, handled or interrupted by a     *)
(* crash, a pull_request_ready that counts as processed had its effect: the *)
(* task is at PR_OPEN or later, over, or being cancelled.                   *)
THEOREM ReadyKept == Spec => []ReadyIsNotDropped
<1>1. ControllerInit => ReadyIsDone
  <2> SUFFICES ASSUME ControllerInit PROVE ReadyIsDone
    OBVIOUS
  <2>1. 1 \in Attempts
    OBVIOUS
  <2>2. acks = {} /\ processed[current] = {} /\ op.pc = "idle"
    BY <2>1, IdleRow DEF ControllerInit, StoreInit
  <2> QED
    BY <2>2 DEF ReadyIsDone
<1>2. Spec => []ReadyIsDone
  BY <1>1, ReadyIsDoneStep, ControllerInvariant, StoreInvariant, PTL DEF Spec
<1>3. ControllerInv /\ ReadyIsDone => ReadyIsNotDropped
  <2> SUFFICES ASSUME ControllerInv, ReadyIsDone, NEW e \in processed[current],
                      Content(e).type = "pull_request_ready"
               PROVE  Decided
    BY DEF ReadyIsNotDropped, Decided
  <2>1. AttemptOf(e) = current
    BY UnderWay DEF ControllerInv, EventsWerePrinted
  <2> QED
    BY <2>1 DEF ReadyIsDone
<1> QED
  BY <1>2, <1>3, ControllerInvariant, PTL

-----------------------------------------------------------------------------
(* A handled review or CI event is answered *)

(* No transaction takes a pushed commit back.                               *)
LEMMA PushedKept ==
  ASSUME ControllerInv, Next, NEW a \in Attempts, git[a].state = "pushed"
  PROVE  git'[a] = git[a]
BY StoreStep, LifecycleStep, AttemptStep, ResultStep, ForgeStep
DEF OwnNext, ValidationNext, LogNext, RecordValidationResultOnce, RecordValidationStartedOnce,
    MarkValidationComplete, AppendWorkerEvent, MarkWorkerEventProcessed, SaveAttemptSnapshot,
    MarkLogsExhausted, resultVars, storeVars, ControllerInv, ControllerTypeOK

(* An event becomes handled only when it is in the batch a completion or a  *)
(* cancellation works on, or while no attempt works on it.                  *)
LEMMA FeedbackMoves ==
  ASSUME ControllerInv, Next, NEW f \in Feedback, forge'[f] # forge[f]
  PROVE  \/ forge'[f].status \in {"running", "failed"}
         \/ /\ forge'[f] = Outcome(f, "handled")
            /\ \/ CompleteFeedback /\ f \in RunningFeedback(op.attempt)
               \/ CancelEvents /\ f \in RunningFeedback(op.attempt)
               \/ ProcessForgeEvents /\ forge[f].status = "pending"
               \/ forge[f].status = "handled"
<1>1. forge \in [Feedback -> FeedbackRows]
  BY DEF ControllerInv, ControllerTypeOK, StoreTypeOK
<1>2. \A a : FailRunningFeedback(a) => forge'[f].status \in {"running", "failed"}
  BY DEF FailRunningFeedback, Outcome
<1>3. \A batch : FailPendingFeedback(batch) => forge'[f].status \in {"running", "failed"}
  BY DEF FailPendingFeedback, Outcome
<1>4. \A h \in Feedback : MarkForgeEventHandled(h) => h = f /\ forge'[f] = Outcome(f, "handled")
  BY <1>1 DEF MarkForgeEventHandled
<1>5. CASE CompleteFeedback
  <2>1. \/ FailRunningFeedback(op.attempt)
        \/ \E h \in RunningFeedback(op.attempt) : MarkForgeEventHandled(h)
    BY <1>5 DEF CompleteFeedback, KeepStore, storeVars
  <2> QED
    BY <1>2, <1>4, <1>5, <2>1 DEF RunningFeedback
<1>6. CASE CancelEvents
  <2>1. \E h \in RunningFeedback(op.attempt) : MarkForgeEventHandled(h)
    BY <1>6, TransactionFrames DEF CancelEvents, TransitionLast, KeepStore, storeVars
  <2> QED
    BY <1>4, <1>6, <2>1 DEF RunningFeedback
<1>7. CASE ProcessForgeEvents
  BY <1>2, <1>3, <1>4, <1>7 DEF ProcessForgeEvents
<1>8. CASE RetryWithKey \/ FollowUp
  BY <1>8 DEF RetryWithKey, FollowUp, RetryTaskOnce, StartForgeEventAttempt
<1> QED
  BY <1>5, <1>6, <1>7, <1>8, StoreWrites DEF StoreWriters

(* Feedback is completed in order after every step.                         *)
LEMMA FeedbackInOrderStep ==
  ControllerInv /\ StoreInv /\ CancellationInOrder /\ FeedbackInOrder /\ [Next]_vars
    => FeedbackInOrder'
<1> SUFFICES ASSUME ControllerInv, StoreInv, CancellationInOrder, FeedbackInOrder, [Next]_vars
             PROVE  FeedbackInOrder'
  OBVIOUS
<1>1. CASE UNCHANGED vars
  BY <1>1 DEF FeedbackInOrder, FeedbackIsAnswered, vars, storeVars, volatileVars
<1>2. CASE Next
  <2>1. /\ current \in Attempts /\ (op.pc # "idle" => op.attempt = current)
        /\ forge \in [Feedback -> FeedbackRows]
    BY UnderWay DEF ControllerInv, ControllerTypeOK, StoreTypeOK
  <2>2. ASSUME op'.pc = "feedback" PROVE git'[op'.attempt].state = "pushed"
    <3>1. op' # Idle
      BY <2>2, IdleRow
    <3>2. op'.attempt = current
      BY <1>2, <3>1, LogKept
    <3>3. git[current].state = "pushed"
      <4>1. CASE op' = op
        BY <2>2, <3>2, <4>1 DEF FeedbackInOrder
      <4>2. CASE op' # op /\ Promoting
        BY <2>2, <4>2, <2>1, IdleRow, GotoStep, UnderWay
        DEF Promoting, At, TransitionThen, Return, Steps, StoreInv, PullRequestIsDurable,
            DurablePullRequest
      <4>3. CASE op' # op /\ RecoverFeedback
        BY <4>3 DEF RecoverFeedback
      <4> QED
        BY <1>2, <2>2, <4>1, <4>2, <4>3, OperationStep DEF ControllerInv, Entered
    <3> QED
      BY <1>2, <2>1, <3>2, <3>3, PushedKept
  <2>3. ASSUME NEW f \in Feedback, forge'[f].status = "pending" PROVE forge'[f].attempt = 0
    <3>1. CASE forge'[f] # forge[f]
      <4>1. forge'[f].status \in {"running", "failed", "handled"}
        <5>1. forge'[f].status \in {"running", "failed"} \/ forge'[f] = Outcome(f, "handled")
          BY <1>2, <3>1, FeedbackMoves
        <5>2. Outcome(f, "handled").status = "handled"
          BY DEF Outcome
        <5> QED
          BY <5>1, <5>2
      <4> QED
        BY <2>3, <4>1
    <3> QED
      BY <2>3, <3>1 DEF FeedbackInOrder
  <2>4. ASSUME NEW f \in Feedback, forge'[f].status = "handled", forge'[f].attempt # 0
        PROVE  \/ git'[forge'[f].attempt].state = "pushed"
               \/ forge'[f].attempt = current' /\ (cancelRequested' \/ state' = "cancelled")
    <3> DEFINE a == forge[f].attempt
    <3>1. forge'[f].attempt = a /\ a \in Attempts
      <4>1. CASE forge'[f] # forge[f]
        <5>1. forge'[f] = Outcome(f, "handled")
          BY <1>2, <2>4, <4>1, FeedbackMoves
        <5> QED
          BY <2>1, <2>4, <5>1 DEF Outcome, FeedbackRows
      <4>2. CASE forge'[f] = forge[f]
        BY <2>1, <2>4, <4>2 DEF FeedbackRows
      <4> QED
        BY <4>1, <4>2
    <3>2. \/ git[a].state = "pushed"
          \/ a = current /\ (cancelRequested \/ state = "cancelled")
      <4>1. CASE forge[f].status = "handled"
        BY <2>4, <3>1, <4>1 DEF FeedbackInOrder, FeedbackIsAnswered
      <4>2. CASE CompleteFeedback /\ f \in RunningFeedback(op.attempt)
        BY <2>1, <4>2 DEF CompleteFeedback, At, FeedbackInOrder, RunningFeedback
      <4>3. CASE CancelEvents /\ f \in RunningFeedback(op.attempt)
        BY <2>1, <4>3 DEF CancelEvents, At, CancellationInOrder, Cancelling, RunningFeedback
      <4>4. CASE forge[f].status = "pending"
        BY <2>4, <3>1, <4>4 DEF FeedbackInOrder
      <4> QED
        BY <1>2, <2>4, <4>1, <4>2, <4>3, <4>4, FeedbackMoves
    <3>3. CASE git[a].state = "pushed"
      BY <1>2, <3>1, <3>3, PushedKept
    <3>4. CASE a = current /\ cancelRequested
      <4>1. current' = current
        BY <1>2, <3>4, StoreStep, CancellationStep DEF OwnNext, StoreNext, StoreInv
      <4> QED
        BY <1>2, <3>1, <3>4, <4>1, RequestKept
    <3>5. CASE a = current /\ state = "cancelled"
      BY <1>2, <3>1, <3>5, DecidedKept
    <3> QED
      BY <3>2, <3>3, <3>4, <3>5
  <2> QED
    BY <2>2, <2>3, <2>4 DEF FeedbackInOrder, FeedbackIsAnswered
<1> QED
  BY <1>1, <1>2

(* Every handled review or CI event has its answer: the attempt it was      *)
(* bound to pushed a verified commit, or its task is or was being cancelled.*)
THEOREM FeedbackAnswered == Spec => []FeedbackIsAnswered
<1>1. ControllerInit => FeedbackInOrder
  <2> SUFFICES ASSUME ControllerInit PROVE FeedbackInOrder
    OBVIOUS
  <2>1. op.pc = "idle" /\ \A f \in Feedback : forge[f].status = "pending" /\ forge[f].attempt = 0
    BY IdleRow DEF ControllerInit, StoreInit
  <2> QED
    BY <2>1 DEF FeedbackInOrder, FeedbackIsAnswered
<1>2. FeedbackInOrder => FeedbackIsAnswered
  BY DEF FeedbackInOrder
<1> QED
  BY <1>1, <1>2, FeedbackInOrderStep, CancellationOrdered, ControllerInvariant, StoreInvariant,
     PTL DEF Spec

-----------------------------------------------------------------------------
(* A pushed commit passed validation *)

(* What a printed event adds to a log.                                      *)
LEMMA AppendEvent ==
  ASSUME NEW log \in Seq(Events), NEW e \in Events
  PROVE  /\ Append(log, e) \in Seq(Events) /\ Append(log, e) # <<>>
         /\ Len(Append(log, e)) = Len(log) + 1 /\ Append(log, e)[Len(log) + 1] = e
         /\ \A i \in DOMAIN log : Append(log, e)[i] = log[i]
         /\ DOMAIN Append(log, e) = DOMAIN log \cup {Len(log) + 1}
         /\ Len(log) \in Nat /\ DOMAIN log = 1..Len(log)
OBVIOUS

(* Every event is a record of the same fields.                              *)
LEMMA EventDomain ==
  ASSUME NEW e \in Events
  PROVE  "type" \in DOMAIN e /\ "sha" \in DOMAIN e
<1>1. CASE e \in {Signal(type) : type \in Signals}
  <2>1. PICK type \in Signals : e = Signal(type)
    BY <1>1
  <2> QED
    BY <2>1 DEF Signal
<1>2. CASE e \in {Result(v) : v \in {"succeeded", "failed"}}
  BY <1>2 DEF Result, Signal
<1>3. CASE e \in {Identity(type, c, n) : type \in Identities, c \in Commits, n \in Numbers}
  <2>1. PICK type \in Identities, c \in Commits, n \in Numbers : e = Identity(type, c, n)
    BY <1>3
  <2> QED
    BY <2>1 DEF Identity
<1> QED
  BY <1>1, <1>2, <1>3 DEF Events

(* Only a publish changes which commit is the candidate.                    *)
LEMMA CandidateKept ==
  ASSUME NEW log \in Seq(Events), NEW e \in Events, LogInOrder(log),
         e.type # "pull_request_published"
  PROVE  /\ Published(Append(log, e)) = Published(log)
         /\ Published(log) # {} => Candidate(Append(log, e)) = Candidate(log)
<1>1. Published(Append(log, e)) = Published(log)
  BY AppendEvent DEF Published, Printed
<1>2. ASSUME Published(log) # {} PROVE Candidate(Append(log, e)) = Candidate(log)
  <2> DEFINE last == CHOOSE i \in Published(log) : \A k \in Published(log) : k <= i
  <2>1. last \in Published(log)
    BY <1>2 DEF LogInOrder
  <2>2. last \in DOMAIN log
    BY <2>1 DEF Published, Printed
  <2>3. Append(log, e)[last] = log[last]
    BY <2>2, AppendEvent
  <2> QED
    BY <1>1, <2>3 DEF Candidate
<1> QED
  BY <1>1, <1>2

(* Only a publish or a result changes what is known of the round.           *)
LEMMA RoundKept ==
  ASSUME NEW log \in Seq(Events), NEW e \in Events, LogInOrder(log),
         e.type \notin {"pull_request_published", "validation_result"}, Passed(log)
  PROVE  Passed(Append(log, e))
<1>1. Published(Append(log, e)) = Published(log)
  BY CandidateKept
<1>2. Printed(Append(log, e), "validation_result") = Printed(log, "validation_result")
  BY AppendEvent DEF Printed
<1>3. RoundResults(Append(log, e)) = RoundResults(log)
  BY <1>1, <1>2 DEF RoundResults
<1>4. \A i \in RoundResults(log) : i \in DOMAIN log
  BY DEF RoundResults, Printed
<1> QED
  BY <1>1, <1>3, <1>4, AppendEvent DEF Passed, RoundOver, RoundFailed

(* Whatever a worker may print keeps its log in order: a round is validated *)
(* after a publish, and only a round that passed is reported ready, at the  *)
(* end and with its commit.                                                 *)
LEMMA PrintKeepsOrder ==
  ASSUME NEW log \in Seq(Events), NEW e \in Events, NEW origin,
         LogInOrder(log), MayPrint(log, e, origin)
  PROVE  LogInOrder(Append(log, e))
<1> DEFINE longer == Append(log, e)
<1> DEFINE type == log[Len(log)].type
<1>1. /\ longer # <<>> /\ Len(longer) = Len(log) + 1 /\ longer[Len(longer)] = e
      /\ \A i \in DOMAIN log : longer[i] = log[i]
      /\ DOMAIN longer = DOMAIN log \cup {Len(longer)}
      /\ Len(log) \in Nat /\ DOMAIN log = 1..Len(log)
  BY AppendEvent
<1> HIDE DEF longer
<1>2. /\ log = <<>> => e.type = "agent_started"
      /\ log # <<>> =>
           \/ type = "agent_started" /\ e.type \in {"worker_failed", "pull_request_published"}
           \/ type = "pull_request_published" /\ e.type = "validation_started"
           \/ type = "validation_started" /\ e.type = "validation_result"
           \/ type = "validation_result" /\ MayValidate(log, e)
           \/ type = "validation_succeeded" /\ e = [Candidate(log) EXCEPT !.type = "pull_request_ready"]
  <2>1. CASE log = <<>>
    <3>1. e = Signal("agent_started")
      BY <2>1 DEF MayPrint
    <3>2. e.type = "agent_started"
      BY <3>1 DEF Signal
    <3> QED
      BY <2>1, <3>2
  <2>2. CASE log # <<>>
    BY <2>2 DEF MayPrint, MayPublish
  <2> QED
    BY <2>1, <2>2
<1>3. log # <<>> => /\ type # "pull_request_ready"
                    /\ Len(log) \in DOMAIN log
  BY <1>1, <1>2
<1>4. \A i \in DOMAIN longer : longer[i].type = "pull_request_ready" => i = Len(longer)
  BY <1>1, <1>3 DEF LogInOrder
<1>5. Published(longer) # {} => \E i \in Published(longer) : \A k \in Published(longer) : k <= i
  <2>1. CASE e.type = "pull_request_published"
    <3>1. Len(longer) \in Published(longer)
      BY <1>1, <2>1 DEF Published, Printed
    <3>2. \A k \in Published(longer) : k <= Len(longer)
      BY <1>1 DEF Published, Printed
    <3> QED
      BY <3>1, <3>2
  <2>2. CASE e.type # "pull_request_published"
    BY <2>2, CandidateKept DEF LogInOrder, longer
  <2> QED
    BY <2>1, <2>2
<1>6. e.type \in {"validation_started", "validation_result"} => Published(longer) # {}
  <2>1. SUFFICES ASSUME e.type \in {"validation_started", "validation_result"}
                 PROVE  Published(log) # {}
    BY CandidateKept DEF longer
  <2>2. log # <<>>
    BY <1>2, <2>1
  <2>3. CASE type = "pull_request_published"
    BY <1>3, <2>2, <2>3 DEF Published, Printed
  <2>4. CASE type \in {"validation_started", "validation_result"}
    BY <2>2, <2>4 DEF LogInOrder
  <2>5. e.type # "pull_request_ready"
    BY <2>1
  <2>6. type = "validation_succeeded" => e.type = "pull_request_ready"
    <3>1. ASSUME type = "validation_succeeded"
          PROVE  e = [Candidate(log) EXCEPT !.type = "pull_request_ready"]
      BY <1>2, <2>2, <3>1
    <3>2. "type" \in DOMAIN e
      BY EventDomain
    <3> QED
      BY <3>1, <3>2
  <2> QED
    BY <1>2, <2>1, <2>2, <2>3, <2>4, <2>5, <2>6
<1>7. e.type = "validation_succeeded" => Passed(longer)
  <2>1. SUFFICES ASSUME e.type = "validation_succeeded" PROVE Passed(log)
    BY RoundKept DEF longer
  <2>2. log # <<>>
    BY <1>2, <2>1
  <2>3. type # "validation_succeeded"
    <3>1. ASSUME type = "validation_succeeded"
          PROVE  e = [Candidate(log) EXCEPT !.type = "pull_request_ready"]
      BY <1>2, <2>2, <3>1
    <3>2. "type" \in DOMAIN e
      BY EventDomain
    <3> QED
      BY <2>1, <3>1, <3>2
  <2>4. type = "validation_result" /\ MayValidate(log, e)
    BY <1>2, <2>1, <2>2, <2>3
  <2> QED
    BY <2>1, <2>2, <2>4 DEF LogInOrder, MayValidate, Passed
<1>8. e.type = "pull_request_ready" => Passed(longer) /\ Candidate(longer).sha = e.sha
  <2>1. SUFFICES ASSUME e.type = "pull_request_ready"
                 PROVE  Passed(log) /\ Candidate(log).sha = e.sha
    BY RoundKept, CandidateKept DEF longer, Passed
  <2>2. log # <<>>
    BY <1>2, <2>1
  <2>3. type = "validation_succeeded" /\ e = [Candidate(log) EXCEPT !.type = "pull_request_ready"]
    BY <1>2, <2>1, <2>2 DEF MayValidate
  <2>4. Passed(log)
    BY <2>2, <2>3 DEF LogInOrder
  <2>5. "sha" \in DOMAIN e
    BY EventDomain
  <2>6. Candidate(log).sha = e.sha
    BY <2>3, <2>5
  <2> QED
    BY <2>4, <2>6
<1> QED
  BY <1>1, <1>4, <1>5, <1>6, <1>7, <1>8 DEF LogInOrder, longer

LogsInOrder == \A g \in Jobs : LogInOrder(pods[g].log)

(* Every Pod's log stays in order.                                          *)
LEMMA LogsInOrderStep == ControllerInv /\ LogsInOrder /\ [Next]_vars => LogsInOrder'
<1> SUFFICES ASSUME ControllerInv, LogsInOrder, [Next]_vars, NEW g \in Jobs
             PROVE  LogInOrder(pods'[g].log)
  BY DEF LogsInOrder, Jobs
<1>1. pods[g].log \in Seq(Events) /\ LogInOrder(pods[g].log)
  BY DEF ControllerInv, ControllerTypeOK, ClusterTypeOK, LogsInOrder
<1>2. CASE pods'[g].log = pods[g].log
  BY <1>1, <1>2
<1>3. ASSUME NEW e \in Events, MayPrint(pods[g].log, e, Origin(jobs[g].attempt)),
             pods'[g].log = Append(pods[g].log, e)
      PROVE  LogInOrder(pods'[g].log)
  BY <1>1, <1>3, PrintKeepsOrder
<1>4. CASE UNCHANGED vars
  BY <1>2, <1>4 DEF vars, clusterVars
<1> QED
  BY <1>2, <1>3, <1>4, ClusterMoves DEF PodMoves

(* A commit is pushed with the event that a worker printed last for it.     *)
LEMMA PushedByReady ==
  ASSUME ControllerInv, LogsInOrder, Next, NEW a \in Existing,
         git'[a].state = "pushed", git[a].state # "pushed"
  PROVE  /\ \E g \in Jobs : ReadyLog(g, a, git'[a].sha)
         /\ a = current /\ op.pc = "handle" /\ op.event \in inbox[current]
         /\ Content(op.event).type = "pull_request_ready"
<1>1. git \in [Attempts -> GitRows] /\ a \in Attempts
  BY UnderWay, ExistingRows DEF ControllerInv, ControllerTypeOK, StoreTypeOK
<1>2. ~PullRequestPublished
  <2>1. ASSUME NEW b, NEW c, NEW n, RecordPullRequestCandidate(b, c, n) PROVE FALSE
    BY <1>1, <2>1 DEF RecordPullRequestCandidate
  <2> QED
    BY <2>1, TransactionFrames DEF PullRequestPublished, Refuse, Reject, TransitionLast, KeepStore, storeVars
<1> DEFINE e == op.event
<1>3. PullRequestReady
  BY <1>2, StoreWrites DEF StoreWriters
<1>4. RecordVerifiedPullRequest(op.attempt, Content(e).sha, Content(e).number)
  BY <1>3, TransactionFrames DEF PullRequestReady, Reject, TransitionLast, KeepStore, storeVars
<1>5. /\ op.attempt = current /\ current \in Attempts /\ e \in inbox[current]
      /\ Content(e).type = "pull_request_ready" /\ op.pc = "handle"
  BY <1>3, UnderWay DEF PullRequestReady, Handling, At
<1>6. a = current /\ git'[a].sha = Content(e).sha
  BY <1>1, <1>4, <1>5 DEF RecordVerifiedPullRequest
<1>7. e[1] \in Jobs /\ jobs[e[1]].attempt = a /\ e[2] \in DOMAIN pods[e[1]].log
  BY <1>5, <1>6, StoredEvent DEF AttemptOf
<1>8. e[2] = Len(pods[e[1]].log)
  BY <1>5, <1>7 DEF LogsInOrder, LogInOrder, Content
<1>9. ReadyLog(e[1], a, git'[a].sha)
  <2>1. pods[e[1]].log # <<>>
    BY <1>7
  <2> QED
    BY <1>5, <1>6, <1>7, <1>8, <2>1 DEF ReadyLog, Succeeded, Content
<1> QED
  BY <1>5, <1>6, <1>7, <1>9

(* An attempt without a row has pushed nothing.                             *)
LEMMA PushedExists ==
  ASSUME ControllerInv, StoreInv, Next, NEW a \in Existing', git'[a].state = "pushed"
  PROVE  a \in Existing
<1>1. CASE current' = current
  BY <1>1 DEF Existing
<1>2. CASE current' # current
  <2>1. AttemptNext
    BY <1>2, StoreStep, LifecycleStep, OtherSteps, ForgeStep
    DEF OwnNext, storeVars, ControllerInv, ControllerTypeOK
  <2>2. git' = git
    BY <2>1, AttemptStep DEF StoreInv
  <2>3. a \in Attempts
    BY CurrentKept DEF Existing
  <2> QED
    BY <2>2, <2>3, UnderWay DEF StoreInv, FutureGit, NoGit, Existing
<1> QED
  BY <1>1, <1>2

(* Every pushed commit keeps the log that reported it.                      *)
LEMMA PushedWasReadyStep ==
  ControllerInv /\ StoreInv /\ LogsInOrder /\ PushedWasReady /\ [Next]_vars => PushedWasReady'
<1> SUFFICES ASSUME ControllerInv, StoreInv, LogsInOrder, PushedWasReady, [Next]_vars
             PROVE  PushedWasReady'
  OBVIOUS
<1>1. CASE UNCHANGED vars
  BY <1>1 DEF PushedWasReady, ReadyLog, Existing, Jobs, vars, storeVars, clusterVars
<1>2. CASE Next
  <2>1. SUFFICES ASSUME NEW a \in Existing', git'[a].state = "pushed"
                 PROVE  \E g \in Jobs : ReadyLog(g, a, git[a].sha)'
    BY DEF PushedWasReady, Jobs
  <2>2. a \in Existing
    BY <1>2, <2>1, PushedExists
  <2>3. PICK g \in Jobs : ReadyLog(g, a, git'[a].sha)
    <3>1. a \in Attempts
      BY <2>2, ExistingRows DEF StoreInv
    <3>2. CASE git[a].state = "pushed"
      BY <1>2, <2>2, <3>1, <3>2, PushedKept DEF PushedWasReady
    <3>3. CASE git[a].state # "pushed"
      BY <1>2, <2>1, <2>2, <3>3, PushedByReady
    <3> QED
      BY <3>2, <3>3
  <2>4. ReadyLog(g, a, git[a].sha)'
    <3>1. jobs'[g].attempt = a /\ pods'[g].log = pods[g].log
      <4>1. jobs'[g].attempt = a
        BY <1>2, <2>2, <2>3, JobKept DEF ReadyLog
      <4>2. ASSUME NEW e, NEW origin, MayPrint(pods[g].log, e, origin) PROVE FALSE
        BY <2>3, <4>2 DEF MayPrint, ReadyLog, Succeeded
      <4> QED
        BY <1>2, <4>1, <4>2, ClusterMoves DEF PodMoves
    <3> QED
      BY <2>3, <3>1 DEF ReadyLog, Succeeded
  <2> QED
    BY <2>4
<1> QED
  BY <1>1, <1>2

(* Logs stay in order, and a pushed commit has the log that reported it.    *)
LEMMA LogsKept == Spec => [](LogsInOrder /\ PushedWasReady)
<1>1. ControllerInit => LogsInOrder /\ PushedWasReady
  <2> SUFFICES ASSUME ControllerInit PROVE LogsInOrder /\ PushedWasReady
    OBVIOUS
  <2>1. \A g \in Jobs : pods[g].log = <<>>
    BY DEF ControllerInit, ClusterInit, NoPod
  <2>2. LogInOrder(<<>>)
    BY DEF LogInOrder, Published, Printed
  <2>3. Existing = {1} /\ 1 \in Attempts
    <3>1. current = 1
      BY DEF ControllerInit, StoreInit
    <3>2. 1 \in Attempts
      OBVIOUS
    <3> QED
      BY <3>1, <3>2 DEF Existing
  <2>4. git[1].state # "pushed"
    BY <2>3 DEF ControllerInit, StoreInit, NoGit
  <2> QED
    BY <2>1, <2>2, <2>3, <2>4 DEF LogsInOrder, PushedWasReady
<1> QED
  BY <1>1, LogsInOrderStep, PushedWasReadyStep, ControllerInvariant, StoreInvariant, PTL DEF Spec

(* Through replayed, lost and repeated events, retries and crashes, a pull  *)
(* request is verified only for a commit whose validation a Pod of that     *)
(* attempt ran to the end with success.                                     *)
THEOREM PushedPassed == Spec => []PushedHeadPassedValidation
<1>1. LogsInOrder /\ PushedWasReady => PushedHeadPassedValidation
  <2> SUFFICES ASSUME LogsInOrder, PushedWasReady, NEW a \in Existing, git[a].state = "pushed"
               PROVE  \E g \in Jobs : jobs[g].attempt = a /\ HeadPassed(g, git[a].sha)
    BY DEF PushedHeadPassedValidation
  <2>1. PICK g \in Jobs : ReadyLog(g, a, git[a].sha)
    BY DEF PushedWasReady
  <2>2. HeadPassed(g, git[a].sha)
    BY <2>1 DEF ReadyLog, Succeeded, LogsInOrder, LogInOrder, Passed, HeadPassed
  <2> QED
    BY <2>1, <2>2 DEF ReadyLog
<1> QED
  BY <1>1, LogsKept, PTL

-----------------------------------------------------------------------------
(* What is known of an attempt before its agent runs *)

(* Only a handled agent_started takes a task past RUNNING.                  *)
BeforeAgent == {"received", "queued", "creating_job", "job_pending", "running"}

(* A worker first says that its agent starts.                               *)
FirstLines == \A g \in Jobs : pods[g].log # <<>> => pods[g].log[1].type = "agent_started"

(* The event under way is neither done nor acknowledged; agent_started is   *)
(* handled in place.                                                        *)
EventInHand ==
  /\ op.call = "event" => op.event \in Pending(current) /\ op.event \notin acks
  /\ op.call = "event" /\ op.pc # "handle" => Content(op.event).type # "agent_started"

(* A commit is pushed for a stored pull_request_ready.                      *)
PushedByEvent ==
  \A a \in Existing : git[a].state = "pushed" =>
    \E e \in inbox[a] : Content(e).type = "pull_request_ready"

(* Before the agent runs only first lines are stored, and none is handled.  *)
NothingHandled ==
  state \in BeforeAgent /\ ~cancelRequested =>
    /\ git[current].state # "pushed"
    /\ \A e \in inbox[current] : e[2] = 1 /\ e \notin processed[current] /\ e \notin acks

EventsInOrder == FirstLines /\ EventInHand /\ PushedByEvent /\ NothingHandled

(* Every log begins with agent_started.                                     *)
LEMMA FirstLinesStep ==
  ASSUME ControllerInv, FirstLines, Next
  PROVE  FirstLines'
<1> SUFFICES ASSUME NEW g \in Jobs, pods'[g].log # <<>>
             PROVE  pods'[g].log[1].type = "agent_started"
  BY DEF FirstLines, Jobs
<1>1. pods[g].log \in Seq(Events)
  BY DEF ControllerInv, ControllerTypeOK, ClusterTypeOK
<1>2. CASE pods[g].log # <<>>
  <2>1. 1 \in DOMAIN pods[g].log
    BY <1>1, <1>2
  <2>2. pods'[g].log[1] = pods[g].log[1]
    BY <2>1, LineKept
  <2> QED
    BY <1>2, <2>2 DEF FirstLines
<1>3. CASE pods[g].log = <<>>
  <2>1. PICK e \in Events : /\ MayPrint(<<>>, e, Origin(jobs[g].attempt))
                            /\ pods'[g].log = Append(<<>>, e)
    BY <1>3, ClusterMoves DEF PodMoves
  <2>2. e = Signal("agent_started") /\ Append(<<>>, e)[1] = e
    BY <2>1 DEF MayPrint
  <2>3. pods'[g].log[1] = e
    BY <2>1, <2>2
  <2>4. e.type = "agent_started"
    BY <2>2 DEF Signal
  <2> QED
    BY <2>3, <2>4
<1> QED
  BY <1>2, <1>3

(* The first line of a log is agent_started.                                *)
LEMMA FirstEvent ==
  ASSUME ControllerInv, FirstLines, NEW e \in inbox[current], e[2] = 1
  PROVE  Content(e).type = "agent_started"
<1>1. e[1] \in Jobs /\ e[2] \in DOMAIN pods[e[1]].log
  BY UnderWay, StoredEvent
<1> QED
  BY <1>1 DEF FirstLines, Content

(* An event is acknowledged only where its operation ends.                  *)
LEMMA AcknowledgedAtLast ==
  ASSUME ControllerInv, Next, ~(acks' \subseteq acks)
  PROVE  op' = Idle
<1> USE DEF Keep, KeepButAcks, KeepButReader, volatileVars, Return, Ack, Refuse, Reject, TransitionAck
<1>1. ~StartupNext
  BY DEF StartupNext, BeginStartup, Snapshot, Advance, Intent, EnsureSecret, Register,
         EnsureJob, Complete, GiveUp, Surrender
<1>2. ReconcileNext => op' = Idle
  BY DEF ReconcileNext, BeginReconcile, Resume, Promote, Promoting, CompleteFeedback, Promoted,
         Observe, Finish, Recover, FailedJob, Fail, CompletedJob
<1>3. ~CancellationNext
  BY DEF CancellationNext, Cancel, CancelApi, CancelDelete, CancelConfirm, CancelSecret,
         CancelLogs, CancelEvents
<1>4. EventNext => op' = Idle
  BY DEF EventNext, BeginEvent, AgentStarted, ValidationStarted, ValidationResult,
         ValidationSucceeded, ValidationFailed, Verdict, WorkerFailed, PullRequestPublished,
         PullRequestReady, MarkProcessed
<1>5. ~ReaderNext
  BY DEF ReaderNext, ReadLine, StreamEnds, CheckTerminal, ReadBarrier, WorkerLogsExhausted,
         ReaderFails
<1>6. ~CallerNext
  BY DEF CallerNext, RetryWithKey, FollowUp, RecoverFeedback, ProcessForgeEvents
<1>7. ~(Abandon \/ Crash \/ ClusterNext)
  BY DEF Abandon, Crash, ClusterNext, ClusterStep
<1> QED
  BY <1>1, <1>2, <1>3, <1>4, <1>5, <1>6, <1>7 DEF Next

(* Where a handled event can lead its operation.                            *)
LEMMA HandledOn ==
  ASSUME ControllerInv, Next, op.pc = "handle", op' # op, op' # Idle
  PROVE  \/ AgentStarted /\ op'.pc = "handle"
         \/ ValidationFailed \/ PullRequestReady
<1> USE IdleRow DEF Keep, KeepButReader, volatileVars, Return, Ack, Refuse, Reject,
                    TransitionAck, TransitionLast, At, Handling
<1>1. ~StartupNext
  BY DEF StartupNext, BeginStartup, Snapshot, Advance, Intent, EnsureSecret, Register,
         EnsureJob, Complete, GiveUp, Surrender
<1>2. ~ReconcileNext
  BY DEF ReconcileNext, BeginReconcile, Begin, Resume, Promote, Promoting, CompleteFeedback,
         Observe, Finish, Recover, FailedJob, Fail, CompletedJob
<1>3. ~CancellationNext
  BY DEF CancellationNext, Cancel, Begin, CancelApi, CancelDelete, CancelConfirm, CancelSecret,
         CancelLogs, CancelEvents
<1>4. EventNext => AgentStarted \/ ValidationFailed \/ PullRequestReady
  BY DEF EventNext, BeginEvent, Begin, ValidationStarted, ValidationResult,
         ValidationSucceeded, Verdict, WorkerFailed, PullRequestPublished, MarkProcessed
<1>5. ~ReaderNext
  BY DEF ReaderNext, ReadLine, StreamEnds, CheckTerminal, ReadBarrier, WorkerLogsExhausted,
         ReaderFails
<1>6. ~CallerNext
  BY DEF CallerNext, RetryWithKey, FollowUp, RecoverFeedback, Begin, ProcessForgeEvents
<1>7. ~(Abandon \/ Crash \/ ClusterNext)
  BY DEF Abandon, Crash, ClusterNext, ClusterStep
<1>8. ASSUME AgentStarted PROVE op'.pc = "handle"
  <2>1. Goto("handle")
    BY <1>8 DEF AgentStarted, TransitionThen
  <2> QED
    BY <2>1, UnderWay, GotoStep DEF Steps
<1> QED
  BY <1>1, <1>2, <1>3, <1>4, <1>5, <1>6, <1>7, <1>8 DEF Next

(* The event under way stays in hand until its operation ends.              *)
LEMMA EventInHandStep ==
  ASSUME ControllerInv, EventInHand, Next
  PROVE  EventInHand'
<1>1. CASE op' = Idle
  BY <1>1, IdleRow DEF EventInHand
<1>2. CASE op' # Idle /\ (op' = op \/ GoesOn)
  <2> SUFFICES ASSUME op'.call = "event" PROVE EventInHand'
    BY DEF EventInHand
  <2>1. op.call = "event" /\ op'.event = op.event /\ op # Idle
    BY <1>2, IdleRow DEF GoesOn
  <2>2. current' = current /\ acks' \subseteq acks /\ current \in Attempts /\ current \in Existing
    BY <1>2, LogKept, AcknowledgedAtLast, UnderWay
  <2>3. op.event \in inbox[current] /\ op.event \notin processed[current] /\ op.event \notin acks
    BY <2>1 DEF EventInHand, Pending
  <2>4. processed'[current] \subseteq processed[current] \cup acks
    <3>1. CASE processed' = processed
      BY <3>1
    <3>2. CASE MarkProcessed
      <4>1. processed \in [Attempts -> SUBSET WorkerEvents]
        BY DEF ControllerInv, ControllerTypeOK, StoreTypeOK
      <4>2. PICK e \in acks : processed' = [processed EXCEPT ![AttemptOf(e)] = @ \cup {e}]
        BY <3>2 DEF MarkProcessed, MarkWorkerEventProcessed
      <4> QED
        BY <2>2, <4>1, <4>2
    <3> QED
      BY <3>1, <3>2, StoreWrites DEF StoreWriters
  <2>5. op.event \in Pending(current)' /\ op.event \notin acks'
    BY <2>2, <2>3, <2>4, RowsGrow DEF Pending
  <2>6. ASSUME NEW e, e = op.event PROVE Content(e)' = Content(e) /\ Content(op.event)' = Content(e)'
    BY <2>1, <2>2, <2>3, <2>6, EventKept DEF Content
  <2>7. op'.pc # "handle" => Content(op.event).type # "agent_started"
    <3>1. CASE op.pc # "handle"
      BY <2>1, <3>1 DEF EventInHand
    <3>2. CASE op.pc = "handle" /\ op'.pc # "handle"
      BY <1>2, <3>2, HandledOn DEF ValidationFailed, PullRequestReady, Handling
    <3> QED
      BY <3>1, <3>2
  <2>8. Content(op.event)' = Content(op.event)
    BY <2>6
  <2> QED
    BY <2>1, <2>2, <2>5, <2>7, <2>8 DEF EventInHand
<1>3. CASE op' # Idle /\ op' # op /\ Begins
  <2> SUFFICES ASSUME op'.call = "event" PROVE EventInHand'
    BY DEF EventInHand
  <2>1. PICK g \in Jobs : BeginEvent(g)
    BY <1>3, IdleRow, OperationStep DEF Entered, Begins, ControllerInv
  <2>2. jobs[g].attempt = current /\ KeepStore /\ KeepButAcks /\ acks' = acks
    BY <1>3, <2>1 DEF BeginEvent
  <2>3. PICK e \in WorkerEvents : NextOf(g, e) /\ Begin("event", "handle", e)
    BY <1>3, <2>1 DEF BeginEvent
  <2>4. op'.event = e /\ op'.pc = "handle"
    BY <2>3, BeginStep DEF ControllerInv, Calls, Steps
  <2>5. e \in Pending(current) /\ e \notin acks
    BY <2>2, <2>3 DEF NextOf
  <2> QED
    BY <2>2, <2>4, <2>5 DEF EventInHand, Pending, KeepStore, storeVars, taskVars, eventVars
<1> QED
  BY <1>1, <1>2, <1>3, OperationStep DEF ControllerInv

(* A pushed commit keeps the event that reported it.                        *)
LEMMA PushedByEventStep ==
  ASSUME ControllerInv, StoreInv, LogsInOrder, PushedByEvent, Next
  PROVE  PushedByEvent'
<1> SUFFICES ASSUME NEW a \in Existing', git'[a].state = "pushed"
             PROVE  \E e \in inbox'[a] : Content(e)'.type = "pull_request_ready"
  BY DEF PushedByEvent
<1>1. a \in Existing /\ a \in Attempts
  BY PushedExists, ExistingRows DEF StoreInv
<1>2. PICK e \in inbox[a] : Content(e).type = "pull_request_ready"
  <2>1. CASE git[a].state = "pushed"
    BY <1>1, <2>1 DEF PushedByEvent
  <2>2. CASE git[a].state # "pushed"
    BY <1>1, <2>2, PushedByReady, UnderWay
  <2> QED
    BY <2>1, <2>2
<1>3. e \in inbox'[a] /\ Content(e)' = Content(e)
  BY <1>1, <1>2, RowsGrow, EventKept
<1> QED
  BY <1>2, <1>3

(* A task past RUNNING does not come back on the same attempt.              *)
LEMMA AgentRanStays ==
  ASSUME ControllerInv, Next, current' = current, state \notin BeforeAgent
  PROVE  state' \notin BeforeAgent
<1>1. StoreTypeOK /\ current \in Attempts
  BY UnderWay DEF ControllerInv, ControllerTypeOK
<1>2. ASSUME AttemptNext PROVE FALSE
  <2>1. current' = current + 1 /\ current \in Int
    BY <1>1, <1>2, AttemptStep
  <2> QED
    BY <2>1
<1>3. state' = state \/ LegalTransition(state, state')
  BY <1>1, <1>2, StoreStep, LifecycleStep, OtherSteps, ForgeStep
  DEF OwnNext, storeVars, CanTransition, MoveTo
<1>4. ASSUME NEW i \in 1..13, lifecycle[i] = state, lifecycle[i + 1] = state'
      PROVE  state' \notin BeforeAgent
  <2>1. i \in {1, 2, 3, 4, 5, 6, 7, 8, 9, 10, 11, 12, 13}
    OBVIOUS
  <2> QED
    BY <1>4, <2>1 DEF lifecycle, BeforeAgent
<1> QED
  BY <1>3, <1>4 DEF LegalTransition, BeforeAgent

(* An acknowledged agent_started has taken the task past RUNNING.           *)
LEMMA StartAcknowledged ==
  ASSUME ControllerInv, FirstLines, EventInHand, NothingHandled, Next,
         state \in BeforeAgent, ~cancelRequested, ~(acks' \subseteq acks)
  PROVE  state' \notin BeforeAgent
<1>1. ~ \E g \in Jobs : BeginEvent(g)
  BY DEF BeginEvent, BeforeAgent, Settled
<1>2. op.call = "event" /\ acks' # acks
  BY <1>1, Writers DEF ChangedBy
<1>3. op.event \in inbox[current] /\ Content(op.event).type = "agent_started"
  BY <1>2, FirstEvent DEF EventInHand, NothingHandled, Pending
<1>4. op.pc = "handle"
  BY <1>2, <1>3 DEF EventInHand
<1>5. AgentStarted
  <2> USE IdleRow DEF Keep, KeepButReader, volatileVars, At, Handling
  <2>1. ~StartupNext
    BY <1>4 DEF StartupNext, BeginStartup, Snapshot, Advance, Intent, EnsureSecret, Register,
                EnsureJob, Complete, GiveUp, Surrender
  <2>2. ~ReconcileNext
    BY <1>4 DEF ReconcileNext, BeginReconcile, Begin, Resume, Promote, Promoting,
                CompleteFeedback, Observe, Finish, Recover, FailedJob, Fail, CompletedJob
  <2>3. ~CancellationNext
    BY <1>4 DEF CancellationNext, Cancel, Begin, CancelApi, CancelDelete, CancelConfirm,
                CancelSecret, CancelLogs, CancelEvents
  <2>4. ~MarkProcessed
    BY DEF MarkProcessed
  <2>5. EventNext => AgentStarted
    BY <1>1, <1>3, <1>4, <2>4
    DEF EventNext, ValidationStarted, ValidationResult, ValidationSucceeded, ValidationFailed,
        Verdict, WorkerFailed, PullRequestPublished, PullRequestReady
  <2>6. ~ReaderNext
    BY <1>2 DEF ReaderNext, ReadLine, StreamEnds, CheckTerminal, ReadBarrier,
                WorkerLogsExhausted, ReaderFails
  <2>7. ~CallerNext
    BY <1>2 DEF CallerNext, RetryWithKey, FollowUp, RecoverFeedback, ProcessForgeEvents
  <2>8. ~(Abandon \/ Crash \/ ClusterNext)
    BY <1>2 DEF Abandon, Crash, ClusterNext, ClusterStep
  <2> QED
    BY <2>1, <2>2, <2>3, <2>5, <2>6, <2>7, <2>8 DEF Next
<1>6. CASE state = "running" /\ TransitionAck("agent_running")
  BY <1>2, <1>6, TransactionFrames DEF TransitionAck, Refuse, BeforeAgent
<1>7. ~AtOrAfter(state, "agent_running")
  <2>1. ASSUME NEW i \in 1..14, lifecycle[i] = state PROVE i < 6
    <3>1. i \in {1, 2, 3, 4, 5, 6, 7, 8, 9, 10, 11, 12, 13, 14}
      OBVIOUS
    <3> QED
      BY <2>1, <3>1 DEF lifecycle, BeforeAgent
  <2>2. \E i \in 1..14 : lifecycle[i] = state
    BY DEF lifecycle, BeforeAgent
  <2>3. StateIndex(state) < 6 /\ StateIndex(state) \in Int
    BY <2>1, <2>2 DEF StateIndex
  <2>4. StateIndex("agent_running") = 6
    <3>1. lifecycle[6] = "agent_running" /\ 6 \in 1..14
      BY DEF lifecycle
    <3>2. ASSUME NEW i \in 1..14, lifecycle[i] = "agent_running" PROVE i = 6
      <4>1. i \in {1, 2, 3, 4, 5, 6, 7, 8, 9, 10, 11, 12, 13, 14}
        OBVIOUS
      <4> QED
        BY <3>2, <4>1 DEF lifecycle
    <3> QED
      BY <3>1, <3>2 DEF StateIndex
  <2> QED
    BY <2>3, <2>4 DEF AtOrAfter
<1> QED
  BY <1>2, <1>5, <1>6, <1>7 DEF AgentStarted, TransitionThen, Refuse

(* The first line of a Pod is stored by a reader that had stored none.      *)
LEMMA FirstStored ==
  ASSUME ControllerInv, NothingHandled, NEW g \in Jobs, ReadLine(g),
         state \in BeforeAgent, ~cancelRequested
  PROVE  \A e \in inbox'[current] :
           \/ e \in inbox[current]
           \/ e[2] = 1 /\ e \notin processed[current] /\ e \notin acks
<1>1. /\ jobs[g].attempt = current /\ current \in Attempts
      /\ inbox \in [Attempts -> SUBSET WorkerEvents]
  BY ReadLineStep, UnderWay DEF ControllerInv, ControllerTypeOK, StoreTypeOK
<1>2. inbox[current] \cap processed[current] = {}
  BY DEF NothingHandled
<1>3. Stored(g) = {}
  BY <1>1, <1>2 DEF ReadLine, Pending, Stored
<1>4. Cardinality(Stored(g)) = 0
  BY <1>3, FS_EmptySet
<1>5. inbox' = [inbox EXCEPT ![current] = @ \cup {<<g, 1>>}]
  BY <1>1, <1>4 DEF ReadLine, AppendWorkerEvent
<1>6. <<g, 1>> \in EventsOf(g)
  <2>1. jobs[g].attempt \in Attempts /\ 0 < Lines(g)
    BY <1>1, <1>4 DEF ReadLine
  <2>2. <<g, 0 + 1>> \in WorkerEvents
    BY <1>4, <2>1, StoredCount
  <2>3. <<g, 1>> \in WorkerEvents /\ <<g, 1>>[1] = g
    BY <2>2
  <2> QED
    BY <2>3 DEF EventsOf
<1>7. <<g, 1>> \notin inbox[current]
  BY <1>1, <1>3, <1>6 DEF Stored
<1>8. <<g, 1>> \notin processed[current] /\ <<g, 1>> \notin acks
  <2>1. processed[current] \subseteq inbox[current]
    BY <1>1 DEF ControllerInv, EventsWerePrinted
  <2>2. <<g, 1>> \in acks => <<g, 1>> \in inbox[AttemptOf(<<g, 1>>)]
    BY DEF ControllerInv, EventsWerePrinted
  <2>3. AttemptOf(<<g, 1>>) = current
    BY <1>1 DEF AttemptOf
  <2> QED
    BY <1>7, <2>1, <2>2, <2>3
<1> QED
  BY <1>1, <1>5, <1>8

(* Nothing is handled until the agent runs.                                 *)
LEMMA NothingHandledStep ==
  ASSUME ControllerInv, StoreInv, LogsInOrder, FirstLines, EventInHand, NothingHandled, Next
  PROVE  NothingHandled'
<1> SUFFICES ASSUME state' \in BeforeAgent, ~cancelRequested'
             PROVE  /\ git'[current'].state # "pushed"
                    /\ \A e \in inbox'[current'] :
                         e[2] = 1 /\ e \notin processed'[current'] /\ e \notin acks'
  BY DEF NothingHandled
<1>1. CASE current' # current
  <2>1. inbox'[current'] = {}
    BY <1>1, NewAttemptEmpty
  <2>2. git'[current'].state # "pushed"
    <3>1. current' \notin Existing /\ current' \in Existing'
      BY <1>1, CurrentKept, UnderWay DEF Existing
    <3> QED
      BY <3>1, PushedExists
  <2> QED
    BY <2>1, <2>2
<1>2. CASE current' = current
  <2>1. state \in BeforeAgent /\ ~cancelRequested
    BY <1>2, AgentRanStays, RequestKept DEF BeforeAgent
  <2>2. /\ git[current].state # "pushed" /\ current \in Attempts /\ current \in Existing
        /\ \A e \in inbox[current] : e[2] = 1 /\ e \notin processed[current] /\ e \notin acks
    BY <2>1, UnderWay DEF NothingHandled
  <2>3. git'[current].state # "pushed"
    <3>1. ASSUME git'[current].state = "pushed" PROVE FALSE
      <4>1. /\ op.event \in inbox[current] /\ op.pc = "handle"
            /\ Content(op.event).type = "pull_request_ready"
        BY <2>2, <3>1, PushedByReady
      <4>2. Content(op.event).type = "agent_started"
        BY <2>2, <4>1, FirstEvent
      <4> QED
        BY <4>1, <4>2
    <3> QED
      BY <3>1
  <2>4. acks' \subseteq acks
    BY <2>1, StartAcknowledged
  <2>5. processed'[current] = processed[current]
    <3>1. CASE processed' = processed
      BY <3>1
    <3>2. CASE MarkProcessed
      <4>1. processed \in [Attempts -> SUBSET WorkerEvents]
        BY DEF ControllerInv, ControllerTypeOK, StoreTypeOK
      <4>2. PICK e \in acks : /\ e \in inbox[AttemptOf(e)]
                              /\ processed' = [processed EXCEPT ![AttemptOf(e)] = @ \cup {e}]
        BY <3>2 DEF MarkProcessed, MarkWorkerEventProcessed
      <4>3. AttemptOf(e) # current
        BY <2>2, <4>2
      <4> QED
        BY <2>2, <4>1, <4>2, <4>3
    <3> QED
      BY <3>1, <3>2, StoreWrites DEF StoreWriters
  <2>6. \A e \in inbox'[current] : e[2] = 1 /\ e \notin processed[current] /\ e \notin acks
    <3>1. CASE inbox' = inbox
      BY <2>2, <3>1
    <3>2. ASSUME NEW g \in Jobs, ReadLine(g)
          PROVE  \A e \in inbox'[current] : e[2] = 1 /\ e \notin processed[current] /\ e \notin acks
      BY <2>1, <2>2, <3>2, FirstStored
    <3> QED
      BY <3>1, <3>2, StoreWrites DEF StoreWriters
  <2> QED
    BY <1>2, <2>3, <2>4, <2>5, <2>6
<1> QED
  BY <1>1, <1>2

(* What is known of the events of an attempt, step by step.                 *)
LEMMA EventsInOrderStep ==
  ControllerInv /\ StoreInv /\ LogsInOrder /\ EventsInOrder /\ [Next]_vars => EventsInOrder'
<1> SUFFICES ASSUME ControllerInv, StoreInv, LogsInOrder, EventsInOrder, [Next]_vars
             PROVE  EventsInOrder'
  OBVIOUS
<1>1. CASE UNCHANGED vars
  <2>1. UNCHANGED <<pods, op, acks, state, current, cancelRequested, inbox, processed, git>>
    BY <1>1 DEF vars, storeVars, clusterVars, volatileVars, taskVars, eventVars, resultVars
  <2> QED
    BY <2>1 DEF EventsInOrder, FirstLines, EventInHand, PushedByEvent, NothingHandled, Pending,
                Content, Existing, Jobs
<1>2. CASE Next
  BY <1>2, FirstLinesStep, EventInHandStep, PushedByEventStep, NothingHandledStep DEF EventsInOrder
<1> QED
  BY <1>1, <1>2

(* Events of attempts are in order in every state.                          *)
LEMMA EventsOrdered == Spec => []EventsInOrder
<1>1. ControllerInit => EventsInOrder
  <2> SUFFICES ASSUME ControllerInit PROVE EventsInOrder
    OBVIOUS
  <2>1. /\ \A g \in Jobs : pods[g].log = <<>>
        /\ op = Idle /\ current = 1 /\ 1 \in Attempts
    <3>1. 1 \in Attempts
      OBVIOUS
    <3> QED
      BY <3>1 DEF ControllerInit, StoreInit, ClusterInit, NoPod
  <2>2. inbox[1] = {} /\ git[1].state # "pushed"
    BY <2>1 DEF ControllerInit, StoreInit, NoGit
  <2>3. Existing = {1}
    BY <2>1 DEF Existing
  <2> QED
    BY <2>1, <2>2, <2>3, IdleRow DEF EventsInOrder, FirstLines, EventInHand, PushedByEvent, NothingHandled
<1> QED
  BY <1>1, EventsInOrderStep, LogsKept, ControllerInvariant, StoreInvariant, PTL DEF Spec

-----------------------------------------------------------------------------
(* An attempt that has a successor has no worker *)

(* The Pod of a Job will never run again: a Job starts one Pod.             *)
Quiet(g) == pods[g].phase # "running" /\ jobs[g].status # "pending"
Over(g) == jobs[g].status \in {"complete", "failed", "gone"}

(* A Pod runs only under an active Job.                                     *)
PodsFollowJobs == \A g \in Jobs :
  /\ jobs[g].status \in {"none", "pending"} => pods[g].phase = "none"
  /\ Over(g) => pods[g].phase # "running"

(* Jobs are created one after the other, and the Job of an attempt again    *)
(* only when the earlier one is gone.                                       *)
OneJobAtATime == \A g, h \in Jobs : g < h =>
  /\ jobs[g] = NoJob => jobs[h] = NoJob
  /\ jobs[g].attempt # 0 /\ jobs[g].attempt = jobs[h].attempt => jobs[g].status = "gone"

(* A reader that saw the end of its stream saw the end of its worker.       *)
EndedReaders == \A g \in Jobs : reader[g].at \in {"ended", "waiting"} => Quiet(g)

(* The workers of attempt a have ended for good: that of its first Job, or  *)
(* of every Job it had.                                                     *)
WorkersQuiet(all, a) == \A g \in Jobs : jobs[g].attempt = a /\ (all \/ FirstJob(g)) => Quiet(g)

(* The two steps that can close a log beside a worker: the API refuses the  *)
(* next creation for good, or the collector of a deleted Job writes the     *)
(* barrier after the Job was created again.                                 *)
RefusedBesideWorker ==
  op.pc \in {"secret", "job"} /\ op'.pc = "giveup" /\ ~WorkersQuiet(TRUE, op.attempt)
BarrierBesideWorker ==
  \E g \in Jobs : WorkerLogsExhausted(g) /\ ~WorkersQuiet(TRUE, jobs[g].attempt)
LeavesWorker(all) == RefusedBesideWorker \/ (all /\ BarrierBesideWorker)

(* What an operation knows about workers at each of its points.             *)
Creating == {"intent", "secret", "register", "job"}
Deciding == {"failedJob", "completedJob", "fail"}
MayCreate == /\ state \in WorkerResourceStates
             /\ state = "creating_job" \/ (exhausted[current] => Pending(current) = {})
PlaceInOrder(all) ==
  /\ op.pc \in Creating => MayCreate
  /\ \/ op.pc \in {"giveup", "surrender"}
     \/ op.pc = "finish" /\ JobFinished(op.job)
     \/ op.pc \in Deciding /\ op.call # "event"
     => WorkersQuiet(all, current)

(* A Job may be created beside a closed log, but only while the task is     *)
(* being cancelled or nothing but first lines is stored for it: such a task *)
(* neither fails nor reaches a pull request before its worker has ended.    *)
Undecided ==
  /\ state \notin {"failed"} \cup PullRequestStates
  /\ \/ cancelRequested
     \/ git[current].state # "pushed" /\ \A e \in Pending(current) : e[2] = 1

ClosedLogs(all) ==
  /\ \A a \in Attempts : a > current => ~exhausted[a]
  /\ \A a \in 1..(current - 1) : WorkersQuiet(all, a)
  /\ exhausted[current] => WorkersQuiet(all, current) \/ Undecided

JobsInOrder == PodsFollowJobs /\ OneJobAtATime /\ EndedReaders
WorkersInOrder(all) == JobsInOrder /\ PlaceInOrder(all) /\ ClosedLogs(all)

(* A Job and its Pod move together.                                         *)
JobAndPod(g) ==
  LET from == jobs[g].status  to == jobs'[g].status
      was == pods[g].phase    is == pods'[g].phase
  IN \/ to = from /\ is = was
     \/ jobs[g] = NoJob /\ to = "pending" /\ is = was
     \/ from = "pending" /\ to = "active" /\ is = "running"
     \/ to = from /\ was = "running" /\ is \in {"succeeded", "failed"}
     \/ to = from /\ was \in {"running", "succeeded", "failed"} /\ is = "gone"
     \/ from = "active" /\ to \in {"complete", "failed"} /\ is = was /\ was # "running"
     \/ from \in {"pending", "active"} /\ to = "failed" /\ is # "running"
     \/ jobs[g] # NoJob /\ to = "gone" /\ is = was /\ was # "running"

(* Job and Pod as each writer moves them.                                   *)
LEMMA JobAndPodMoves ==
  ASSUME ControllerInv, Next
  PROVE  \A g \in Jobs : JobAndPod(g)
<1>1. /\ jobs \in [Jobs -> JobRows] /\ \A g \in Jobs : DOMAIN jobs[g] = {"attempt", "status", "deleting"}
      /\ pods \in [Jobs -> [phase : PodPhases, log : Seq(Events)]]
  BY DEF ControllerInv, ControllerTypeOK, ClusterTypeOK, JobRows
<1>2. CASE UNCHANGED <<jobs, pods>>
  BY <1>2 DEF JobAndPod
<1>3. CASE EnsureJob
  <2>1. pods' = pods
    BY <1>3 DEF EnsureJob
  <2>2. \A g \in Jobs : jobs'[g] = jobs[g] \/ (jobs[g] = NoJob /\ jobs'[g].status = "pending")
    BY <1>1, <1>3 DEF EnsureJob, CreateJob
  <2> QED
    BY <2>1, <2>2 DEF JobAndPod
<1>4. CASE CancelApi \/ CancelDelete
  <2>1. pods' = pods /\ DeleteAttemptJob
    BY <1>4 DEF CancelApi, CancelDelete
  <2>2. jobs' = jobs \/ \E k \in Jobs : jobs' = [jobs EXCEPT ![k].deleting = TRUE]
    BY <2>1 DEF DeleteAttemptJob, DeleteJob, JobOf
  <2>3. ASSUME NEW k \in Jobs, jobs' = [jobs EXCEPT ![k].deleting = TRUE]
        PROVE  \A g \in Jobs : jobs'[g].status = jobs[g].status
    BY <1>1, <2>3 DEF JobRows
  <2> QED
    BY <2>1, <2>2, <2>3 DEF JobAndPod
<1>5. CASE ClusterNext
  <2>1. PICK g \in Jobs :
          \/ PodStarts(g) \/ WorkerExits(g) \/ PodRemoved(g) \/ JobFinishes(g)
          \/ DeadlinePasses(g) \/ JobExpires(g) \/ JobRemoved(g)
          \/ WorkerPrints(g, Origin(jobs[g].attempt))
    BY <1>5 DEF ClusterNext, ClusterStep
  <2>2. ASSUME NEW s, jobs' = [jobs EXCEPT ![g].status = s]
        PROVE  \A h \in Jobs : jobs'[h].status = IF h = g THEN s ELSE jobs[h].status
    BY <1>1, <2>2 DEF JobRows
  <2>3. ASSUME NEW p, pods' = [pods EXCEPT ![g].phase = p]
        PROVE  \A h \in Jobs : pods'[h].phase = IF h = g THEN p ELSE pods[h].phase
    BY <1>1, <2>3
  <2>4. CASE PodStarts(g)
    <3>1. /\ jobs[g].status = "pending" /\ jobs' = [jobs EXCEPT ![g].status = "active"]
          /\ pods' = [pods EXCEPT ![g].phase = "running"]
      BY <2>4 DEF PodStarts
    <3>2. \A h \in Jobs :
            /\ jobs'[h].status = IF h = g THEN "active" ELSE jobs[h].status
            /\ pods'[h].phase = IF h = g THEN "running" ELSE pods[h].phase
      BY <2>2, <2>3, <3>1
    <3> QED
      BY <3>1, <3>2 DEF JobAndPod
  <2>5. CASE WorkerExits(g)
    <3>1. PICK p \in {"failed", "succeeded"} : pods' = [pods EXCEPT ![g].phase = p]
      BY <2>5 DEF WorkerExits
    <3>2. pods[g].phase = "running" /\ jobs' = jobs
      BY <2>5 DEF WorkerExits
    <3> QED
      BY <2>3, <3>1, <3>2 DEF JobAndPod
  <2>6. CASE PodRemoved(g)
    BY <2>3, <2>6 DEF PodRemoved, PodPresent, JobAndPod
  <2>7. CASE JobFinishes(g)
    <3>1. PICK s \in {"complete", "failed"} : jobs' = [jobs EXCEPT ![g].status = s]
      BY <2>7 DEF JobFinishes
    <3>2. jobs[g].status = "active" /\ pods[g].phase # "running" /\ pods' = pods
      BY <2>7 DEF JobFinishes
    <3> QED
      BY <2>2, <3>1, <3>2 DEF JobAndPod
  <2>8. CASE DeadlinePasses(g)
    <3> DEFINE p == IF PodPresent(g) THEN "gone" ELSE pods[g].phase
    <3>1. /\ jobs[g].status \in {"pending", "active"} /\ jobs' = [jobs EXCEPT ![g].status = "failed"]
          /\ pods' = [pods EXCEPT ![g].phase = p]
      BY <2>8 DEF DeadlinePasses
    <3>2. p # "running"
      BY DEF PodPresent
    <3> HIDE DEF p
    <3>3. \A h \in Jobs :
            /\ jobs'[h].status = IF h = g THEN "failed" ELSE jobs[h].status
            /\ pods'[h].phase = IF h = g THEN p ELSE pods[h].phase
      BY <2>2, <2>3, <3>1
    <3> QED
      BY <3>1, <3>2, <3>3 DEF JobAndPod
  <2>9. CASE JobExpires(g)
    <3>1. jobs' = [jobs EXCEPT ![g].deleting = TRUE] /\ pods' = pods
      BY <2>9 DEF JobExpires, DeleteJob
    <3>2. \A h \in Jobs : jobs'[h].status = jobs[h].status
      BY <1>1, <3>1 DEF JobRows
    <3> QED
      BY <3>1, <3>2 DEF JobAndPod
  <2>10. CASE JobRemoved(g)
    <3>1. /\ jobs[g].deleting /\ ~PodPresent(g)
          /\ jobs' = [jobs EXCEPT ![g].status = "gone"] /\ pods' = pods
      BY <2>10 DEF JobRemoved
    <3>2. jobs[g] # NoJob /\ pods[g].phase # "running"
      BY <3>1 DEF NoJob, PodPresent
    <3> QED
      BY <2>2, <3>1, <3>2 DEF JobAndPod
  <2>11. CASE WorkerPrints(g, Origin(jobs[g].attempt))
    <3>1. PICK e \in Events : pods' = [pods EXCEPT ![g].log = Append(@, e)]
      BY <2>11 DEF WorkerPrints
    <3>2. jobs' = jobs
      BY <2>11 DEF WorkerPrints
    <3>3. \A h \in Jobs : pods'[h].phase = pods[h].phase
      BY <1>1, <3>1
    <3> QED
      BY <3>2, <3>3 DEF JobAndPod
  <2> QED
    BY <2>1, <2>4, <2>5, <2>6, <2>7, <2>8, <2>9, <2>10, <2>11
<1> QED
  BY <1>2, <1>3, <1>4, <1>5, Writers DEF ChangedBy

(* A new Job is the next generation, for the current attempt, and the only  *)
(* one that attempt has.                                                    *)
LEMMA Creation ==
  ASSUME ControllerInv, Next, NEW g \in Jobs, jobs[g] = NoJob, jobs'[g] # NoJob
  PROVE  /\ op.pc = "job" /\ JobOf(current) = {} /\ jobs'[g] = NewJob
         /\ \A h \in 1..(g - 1) : jobs[h] # NoJob
<1>1. EnsureJob
  BY ClusterMoves DEF JobMoves
<1>2. op.pc = "job" /\ op.attempt = current
  BY <1>1, UnderWay DEF EnsureJob, At
<1>3. CreateJob(current)
  BY <1>1, <1>2 DEF EnsureJob
<1>4. jobs \in [Jobs -> JobRows]
  BY DEF ControllerInv, ControllerTypeOK, ClusterTypeOK
<1>5. PICK k \in Jobs : /\ jobs[k] = NoJob /\ \A h \in 1..(k - 1) : jobs[h] # NoJob
                        /\ jobs' = [jobs EXCEPT ![k] = NewJob]
  BY <1>3 DEF CreateJob, NewJob
<1>6. k = g
  BY <1>4, <1>5
<1> QED
  BY <1>2, <1>3, <1>4, <1>5, <1>6 DEF CreateJob

(* A Job that exists keeps its attempt, and stays over and quiet.           *)
LEMMA UsedJobs ==
  ASSUME ControllerInv, Next, NEW g \in Jobs
  PROVE  /\ jobs[g] = NoJob \/ jobs[g].attempt \in Existing
         /\ jobs[g] = NoJob <=> jobs[g].attempt = 0
         /\ jobs[g] # NoJob => jobs'[g].attempt = jobs[g].attempt
         /\ Over(g) => Over(g)' /\ jobs[g] # NoJob
         /\ jobs[g] # NoJob /\ Quiet(g) => Quiet(g)'
         /\ jobs[g].status = "gone" => jobs'[g].status = "gone"
<1>1. jobs[g] = NoJob \/ jobs[g].attempt \in Existing
  BY DEF ControllerInv, JobsBelong
<1>2. 0 \notin Existing /\ NoJob.attempt = 0 /\ NoJob.status = "none"
  BY DEF Existing, NoJob
<1>3. jobs[g] # NoJob => jobs'[g].attempt = jobs[g].attempt
  BY ClusterMoves DEF JobMoves
<1>4. Over(g) => Over(g)' /\ jobs[g] # NoJob
  BY <1>2, JobAndPodMoves DEF JobAndPod, Over
<1>5. jobs[g] # NoJob /\ Quiet(g) => Quiet(g)'
  BY JobAndPodMoves DEF JobAndPod, Quiet
<1>6. jobs[g].status = "gone" => jobs'[g].status = "gone"
  BY <1>2, JobAndPodMoves DEF JobAndPod
<1> QED
  BY <1>1, <1>2, <1>3, <1>4, <1>5, <1>6

(* Which Job is the first of its attempt never changes.                     *)
LEMMA FirstJobKept ==
  ASSUME ControllerInv, OneJobAtATime, Next, NEW g \in Jobs, FirstJob(g)', jobs[g] # NoJob
  PROVE  FirstJob(g)
<1>1. MaxJobs \in Nat /\ Jobs = 1..MaxJobs
  BY ClusterAssumption DEF ClusterAssumption, Jobs
<1>2. \A h \in 1..(g - 1) : h \in Jobs /\ h < g /\ jobs'[h].attempt # jobs'[g].attempt
  BY <1>1 DEF FirstJob
<1>3. ASSUME NEW h \in 1..(g - 1)
      PROVE  jobs[h].attempt # jobs[g].attempt
  <2>1. h \in Jobs /\ h < g
    BY <1>2
  <2>2. jobs[h] # NoJob
    BY <2>1 DEF OneJobAtATime
  <2> QED
    BY <1>2, <2>1, <2>2, UsedJobs
<1> QED
  BY <1>3 DEF FirstJob

(* Jobs and Pods keep their order.                                          *)
LEMMA JobsInOrderStep ==
  ASSUME ControllerInv, PodsFollowJobs, OneJobAtATime, Next
  PROVE  PodsFollowJobs' /\ OneJobAtATime'
<1>1. PodsFollowJobs'
  <2>1. ASSUME NEW g \in Jobs
        PROVE  /\ jobs'[g].status \in {"none", "pending"} => pods'[g].phase = "none"
               /\ Over(g)' => pods'[g].phase # "running"
    <3>1. JobAndPod(g) /\ NoJob.status = "none"
      BY JobAndPodMoves DEF NoJob
    <3>2. /\ jobs[g].status \in {"none", "pending"} => pods[g].phase = "none"
          /\ Over(g) => pods[g].phase # "running"
      BY DEF PodsFollowJobs
    <3>3. jobs[g] # NoJob /\ jobs'[g].status = "gone" /\ pods'[g].phase = pods[g].phase
            /\ pods[g].phase # "running"
          => pods'[g].phase # "running"
      OBVIOUS
    <3> QED
      BY <3>1, <3>2 DEF JobAndPod, Over
  <2> QED
    BY <2>1 DEF PodsFollowJobs, Jobs
<1>2. ASSUME NEW g \in Jobs, NEW h \in Jobs, g < h
      PROVE  /\ jobs'[g] = NoJob => jobs'[h] = NoJob
             /\ jobs'[g].attempt # 0 /\ jobs'[g].attempt = jobs'[h].attempt => jobs'[g].status = "gone"
  <2>1. MaxJobs \in Nat /\ Jobs = 1..MaxJobs /\ g \in 1..(h - 1)
    BY <1>2, ClusterAssumption DEF ClusterAssumption, Jobs
  <2>2. jobs[h] = NoJob /\ jobs'[h] # NoJob => jobs[g] # NoJob
    BY <2>1, Creation
  <2>3. jobs'[g] = NoJob => jobs[g] = NoJob
    BY UsedJobs DEF NoJob
  <2>4. jobs[g] = NoJob => jobs[h] = NoJob
    BY <1>2 DEF OneJobAtATime
  <2>5. jobs'[g] = NoJob => jobs'[h] = NoJob
    BY <2>2, <2>3, <2>4
  <2>6. ASSUME jobs'[g].attempt # 0, jobs'[g].attempt = jobs'[h].attempt
        PROVE  jobs'[g].status = "gone"
    <3>1. jobs'[h] # NoJob
      BY <2>6 DEF NoJob
    <3>2. jobs[g] # NoJob
      BY <2>2, <2>4, <3>1
    <3>3. jobs'[g].attempt = jobs[g].attempt
      BY <3>2, UsedJobs
    <3>4. CASE jobs[h] = NoJob
      <4>1. JobOf(current) = {} /\ jobs'[h].attempt = current
        BY <3>1, <3>4, Creation DEF NewJob
      <4>2. jobs[g].status = "gone"
        BY <2>6, <3>3, <4>1 DEF JobOf
      <4> QED
        BY <4>2, UsedJobs
    <3>5. CASE jobs[h] # NoJob
      <4>1. jobs'[h].attempt = jobs[h].attempt
        BY <3>5, UsedJobs
      <4>2. jobs[g].status = "gone"
        BY <1>2, <2>6, <3>3, <4>1 DEF OneJobAtATime
      <4> QED
        BY <4>2, UsedJobs
    <3> QED
      BY <3>4, <3>5
  <2> QED
    BY <2>5, <2>6
<1>3. OneJobAtATime'
  BY <1>2 DEF OneJobAtATime, Jobs
<1> QED
  BY <1>1, <1>3

(* A reader moves to the end of its stream only after its worker ended.     *)
LEMMA EndedReadersStep ==
  ASSUME ControllerInv, PodsFollowJobs, EndedReaders, Next
  PROVE  EndedReaders'
<1> SUFFICES ASSUME NEW g \in Jobs, reader'[g].at \in {"ended", "waiting"}
             PROVE  Quiet(g)'
  BY DEF EndedReaders, Jobs
<1>1. reader \in [Jobs -> [at : {"reading", "eof", "ended", "waiting"}, job : JobStatuses]]
  BY DEF ControllerInv, ControllerTypeOK
<1>2. CASE reader[g].at \in {"ended", "waiting"}
  <2>1. Quiet(g) /\ reader[g].at # "reading"
    BY <1>2 DEF EndedReaders
  <2>2. jobs[g].attempt \in Existing
    BY <2>1 DEF ControllerInv, JobsBelong
  <2>3. jobs[g] # NoJob
    BY <2>2 DEF Existing, NoJob
  <2> QED
    BY <2>1, <2>3, UsedJobs
<1>3. CASE reader[g].at \notin {"ended", "waiting"}
  <2>1. ~Crash /\ reader' # reader
    BY <1>3 DEF Crash, Reading
  <2>2. PICK k \in Jobs : \/ ReadLine(k) \/ StreamEnds(k) \/ CheckTerminal(k) \/ ReadBarrier(k)
                          \/ WorkerLogsExhausted(k) \/ ReaderFails(k)
    BY <2>1, Writers DEF ChangedBy, ReaderNext
  <2>3. ~ReadLine(k)
    BY <2>1 DEF ReadLine
  <2>4. ~WorkerLogsExhausted(k) /\ ~ReaderFails(k)
    BY <1>1, <1>3 DEF WorkerLogsExhausted, ReaderFails, Reading
  <2>5. ~StreamEnds(k)
    BY <1>1, <1>3 DEF StreamEnds, MoveReader
  <2>6. ~ReadBarrier(k)
    <3>1. ASSUME ReadBarrier(k) PROVE FALSE
      <4>1. reader[k].at = "ended" /\ \A h \in Jobs : h # k => reader'[h] = reader[h]
        BY <1>1, <3>1 DEF ReadBarrier, ReaderAt
      <4> QED
        BY <1>3, <4>1
    <3> QED
      BY <3>1
  <2>7. CASE CheckTerminal(k)
    <3>1. k = g
      BY <1>1, <1>3, <2>7 DEF CheckTerminal, MoveReader
    <3>2. UNCHANGED <<jobs, pods>> /\ jobs[g].status \notin {"none", "gone"}
      BY <2>7, <3>1 DEF CheckTerminal, KeepButReader, clusterVars, ReaderAt
    <3>3. PodTerminal(g) \/ JobFinished(jobs[g].status)
      BY <1>1, <2>7, <3>1 DEF CheckTerminal, MoveReader
    <3>4. Quiet(g)
      BY <3>3 DEF PodsFollowJobs, PodTerminal, JobFinished, Over, Quiet
    <3> QED
      BY <3>2, <3>4 DEF Quiet
  <2> QED
    BY <2>2, <2>3, <2>4, <2>5, <2>6, <2>7
<1> QED
  BY <1>2, <1>3

(* Quiet workers stay quiet, unless the attempt gets a Job.                 *)
LEMMA QuietKept ==
  ASSUME ControllerInv, OneJobAtATime, Next, NEW all \in BOOLEAN, NEW a \in Existing,
         WorkersQuiet(all, a), ~(EnsureJob /\ a = current)
  PROVE  WorkersQuiet(all, a)'
<1> SUFFICES ASSUME NEW g \in Jobs, jobs'[g].attempt = a, all \/ FirstJob(g)'
             PROVE  Quiet(g)'
  BY DEF WorkersQuiet, Jobs
<1>1. a # 0
  BY DEF Existing
<1>2. CASE jobs[g] # NoJob
  <2>1. jobs[g].attempt = a /\ (all \/ FirstJob(g))
    BY <1>2, UsedJobs, FirstJobKept
  <2> QED
    BY <1>2, <2>1, UsedJobs DEF WorkersQuiet
<1>3. CASE jobs[g] = NoJob
  <2>1. jobs'[g] # NoJob
    BY <1>1 DEF NoJob
  <2>2. EnsureJob /\ jobs'[g] = NewJob
    BY <1>3, <2>1, ClusterMoves DEF JobMoves
  <2> QED
    BY <2>2 DEF NewJob
<1> QED
  BY <1>2, <1>3

(* Without a Job there is no worker.                                        *)
LEMMA GoneQuiet ==
  ASSUME PodsFollowJobs, NEW all \in BOOLEAN, NEW a, JobOf(a) = {}
  PROVE  WorkersQuiet(all, a)
BY DEF PodsFollowJobs, JobOf, WorkersQuiet, Quiet, Over

(* With a finished Job there is none either: earlier ones are gone.         *)
LEMMA FinishedQuiet ==
  ASSUME JobsInOrder, NEW all \in BOOLEAN, NEW a, a # 0, NEW k \in JobOf(a),
         JobFinished(jobs[k].status)
  PROVE  WorkersQuiet(all, a)
<1> SUFFICES ASSUME NEW g \in Jobs, jobs[g].attempt = a PROVE Quiet(g)
  BY DEF WorkersQuiet
<1>1. MaxJobs \in Nat /\ Jobs = 1..MaxJobs
  BY ClusterAssumption DEF ClusterAssumption, Jobs
<1>2. k \in Jobs /\ jobs[k].attempt = a /\ jobs[k].status # "gone"
  BY DEF JobOf
<1>3. k = g \/ g < k \/ k < g
  BY <1>1, <1>2
<1>4. Over(g)
  BY <1>2, <1>3 DEF JobsInOrder, OneJobAtATime, JobFinished, Over
<1> QED
  BY <1>4 DEF JobsInOrder, PodsFollowJobs, Over, Quiet

(* A collector that writes the barrier has seen the worker of its Job end.  *)
LEMMA BarrierQuiet ==
  ASSUME ControllerInv, JobsInOrder, NEW all \in BOOLEAN, ~LeavesWorker(all),
         NEW k \in Jobs, WorkerLogsExhausted(k)
  PROVE  jobs[k].attempt \in Existing /\ WorkersQuiet(all, jobs[k].attempt)
<1>1. jobs[k].attempt \in Existing /\ jobs[k].attempt # 0 /\ Quiet(k)
  BY DEF WorkerLogsExhausted, ControllerInv, JobsBelong, JobsInOrder, EndedReaders, Existing
<1>2. CASE all
  BY <1>1, <1>2 DEF LeavesWorker, BarrierBesideWorker
<1>3. CASE ~all
  <2>1. MaxJobs \in Nat /\ Jobs = 1..MaxJobs
    BY ClusterAssumption DEF ClusterAssumption, Jobs
  <2>2. ASSUME NEW g \in Jobs, jobs[g].attempt = jobs[k].attempt, FirstJob(g) PROVE Quiet(g)
    <3>1. ~(k < g)
      BY <2>1, <2>2 DEF FirstJob
    <3>2. CASE g < k
      BY <1>1, <2>2, <3>2 DEF JobsInOrder, PodsFollowJobs, OneJobAtATime, Over, Quiet
    <3> QED
      BY <1>1, <2>1, <3>1, <3>2
  <2> QED
    BY <1>1, <1>3, <2>2 DEF WorkersQuiet
<1> QED
  BY <1>2, <1>3

(* An operation that is about to create a Job goes on in the same states.   *)
LEMMA MayCreateKept ==
  ASSUME ControllerInv, Next, op' # Idle, op.pc \in Creating, MayCreate
  PROVE  MayCreate'
<1>1. state' = state /\ exhausted' = exhausted
  <2>1. ~ClosesLog
    BY IdleRow
    DEF Creating, ClosesLog, GiveUp, Observe, Finish, CancelLogs, WorkerLogsExhausted, At
  <2> QED
    BY <2>1, StoreWrites DEF StoreWriters, Creating, MovingSteps
<1> QED
  BY <1>1, LogKept DEF MayCreate

(* The step to the points before a creation.                                *)
LEMMA CreatingArrival ==
  ASSUME ControllerInv, Next, op' # op, op' # Idle, op'.pc \in Creating,
         op.pc \in Creating => MayCreate
  PROVE  MayCreate'
<1>1. Entered(op'.pc) /\ current' = current
  BY LogKept, OperationStep DEF ControllerInv
<1>2. CASE Intent \/ EnsureSecret \/ Register
  <2>1. op.pc \in Creating
    BY <1>2 DEF Intent, EnsureSecret, Register, At, Creating
  <2> QED
    BY <2>1, MayCreateKept
<1>3. CASE Advance /\ op'.pc = "intent"
  <2>1. op.pc = "advance" /\ op.attempt = current /\ op \in Operations
    BY <1>3, UnderWay DEF Advance, At
  <2>2. ~Goto("advance") /\ ~Goto("resume")
    BY <1>3, <2>1, GotoStep DEF Steps
  <2>3. /\ KeepStore
        /\ \/ state = "creating_job"
           \/ state \in WorkerResourceStates /\ Pending(current) = {}
    BY <1>3, <2>1, <2>2 DEF Advance, TransitionThen, Return
  <2>4. UNCHANGED <<state, current, exhausted, inbox, processed>>
    BY <2>3 DEF KeepStore, storeVars, taskVars, attemptVars, eventVars
  <2> QED
    BY <2>3, <2>4 DEF MayCreate, Pending, WorkerResourceStates
<1> QED
  BY <1>1, <1>2, <1>3 DEF Entered, Creating

(* The step to the points that need quiet workers.                          *)
LEMMA QuietArrival ==
  ASSUME ControllerInv, JobsInOrder, NEW all \in BOOLEAN, PlaceInOrder(all), Next,
         ~LeavesWorker(all), op' # op, op' # Idle,
         \/ op'.pc \in {"giveup", "surrender"}
         \/ op'.pc = "finish" /\ JobFinished(op'.job)
         \/ op'.pc \in Deciding /\ op'.call # "event"
  PROVE  WorkersQuiet(all, current)
<1>1. /\ Entered(op'.pc) /\ (GoesOn \/ Begins) /\ op \in Operations
      /\ op.pc # "idle" => op.attempt = current
      /\ current # 0
  BY UnderWay, OperationStep DEF ControllerInv, Existing
<1>2. CASE op'.pc = "giveup"
  <2>1. op.pc \in {"secret", "job"}
    BY <1>1, <1>2 DEF Entered, EnsureSecret, EnsureJob, At
  <2>2. WorkersQuiet(TRUE, op.attempt)
    BY <1>2, <2>1 DEF LeavesWorker, RefusedBesideWorker
  <2> QED
    BY <1>1, <2>1, <2>2 DEF WorkersQuiet
<1>3. CASE op'.pc = "surrender"
  BY <1>1, <1>3 DEF Entered, GiveUp, At, PlaceInOrder
<1>4. CASE Observe /\ op'.pc = "finish" /\ JobFinished(op'.job)
  <2>1. op.attempt = current
    BY <1>1, <1>4 DEF Observe, At
  <2>2. PICK k \in JobOf(current) : op' = [op EXCEPT !.pc = "finish", !.job = jobs[k].status]
    BY <1>4, <2>1 DEF Observe, Return
  <2>3. op'.job = jobs[k].status
    BY <1>1, <2>2 DEF Operations
  <2> QED
    BY <1>1, <1>4, <2>3, FinishedQuiet
<1>5. CASE Finish
  <2>1. op.pc = "finish"
    BY <1>5 DEF Finish, At
  <2>2. op' = [op EXCEPT !.exhausted = TRUE] => op'.job = op.job /\ op'.pc = op.pc
    BY <1>1 DEF Operations
  <2>3. op' = [op EXCEPT !.pc = "recover"] => op'.pc = "recover"
    BY <1>1 DEF Operations
  <2>4. JobFinished(op.job)
    BY <1>5, <2>2, <2>3 DEF Finish, Return, Goto, JobFinished, Deciding
  <2> QED
    BY <2>1, <2>4 DEF PlaceInOrder
<1>6. ASSUME NEW k \in Jobs, WorkerLogsExhausted(k) PROVE WorkersQuiet(all, current)
  <2>1. op = Idle
    BY <1>6 DEF WorkerLogsExhausted
  <2>2. op' = [Idle EXCEPT !.call = "logs", !.pc = "failedJob", !.attempt = jobs[k].attempt]
        \/ op' = [Idle EXCEPT !.call = "logs", !.pc = "completedJob", !.attempt = jobs[k].attempt]
    BY <1>6, <2>1 DEF WorkerLogsExhausted
  <2>3. op'.attempt = jobs[k].attempt
    BY <2>2 DEF Idle
  <2>4. op'.attempt = current
    BY LogKept
  <2> QED
    BY <1>6, <2>3, <2>4, BarrierQuiet
<1>7. CASE FailedJob /\ op'.call # "event"
  <2>1. op.pc = "failedJob" /\ GoesOn
    BY <1>1, <1>7, IdleRow DEF FailedJob, At, Begins
  <2> QED
    BY <1>7, <2>1 DEF GoesOn, PlaceInOrder, Deciding
<1>8. ~(Verdict /\ op'.call # "event")
  <2>1. ASSUME Verdict PROVE op'.call = "event"
    <3>1. op.pc = "verdict" /\ op.call = "event"
      BY <2>1, UnderWay DEF Verdict, At
    <3> QED
      BY <1>1, <3>1, IdleRow DEF GoesOn, Begins
  <2> QED
    BY <2>1
<1> QED
  BY <1>1, <1>2, <1>3, <1>4, <1>5, <1>6, <1>7, <1>8 DEF Entered, Deciding

(* Every step keeps what is known at the points of an operation.            *)
LEMMA PlaceInOrderStep ==
  ASSUME ControllerInv, JobsInOrder, NEW all \in BOOLEAN, PlaceInOrder(all), Next,
         ~LeavesWorker(all)
  PROVE  PlaceInOrder(all)'
<1>1. CASE op' = Idle
  BY <1>1, IdleRow DEF PlaceInOrder, Creating, Deciding
<1>2. CASE op' # Idle
  <2>1. current' = current /\ current \in Existing
    BY <1>2, LogKept, UnderWay
  <2>2. op'.pc \in Creating => MayCreate'
    <3>1. CASE op' = op
      BY <1>2, <3>1, MayCreateKept DEF PlaceInOrder
    <3>2. CASE op' # op
      BY <1>2, <3>2, CreatingArrival DEF PlaceInOrder
    <3> QED
      BY <3>1, <3>2
  <2>3. ASSUME \/ op'.pc \in {"giveup", "surrender"}
               \/ op'.pc = "finish" /\ JobFinished(op'.job)
               \/ op'.pc \in Deciding /\ op'.call # "event"
        PROVE  WorkersQuiet(all, current)'
    <3>1. WorkersQuiet(all, current)
      <4>1. CASE op' = op
        BY <2>3, <4>1 DEF PlaceInOrder
      <4>2. CASE op' # op
        BY <1>2, <2>3, <4>2, QuietArrival
      <4> QED
        BY <4>1, <4>2
    <3>2. ~EnsureJob \/ op'.pc = "giveup"
      <4>1. ASSUME EnsureJob PROVE op'.pc \in {"complete", "resume", "giveup"}
        <5>1. op.pc = "job" /\ op \in Operations
          BY <4>1, UnderWay DEF EnsureJob, At
        <5>2. Goto("complete") \/ Goto("resume") \/ Goto("giveup")
          BY <1>2, <4>1 DEF EnsureJob, Refused, Return
        <5> QED
          BY <5>1, <5>2, GotoStep DEF Steps
      <4> QED
        BY <2>3, <4>1 DEF Deciding
    <3>3. CASE ~EnsureJob
      BY <2>1, <3>1, <3>3, QuietKept DEF JobsInOrder, WorkersQuiet
    <3>4. CASE EnsureJob /\ op'.pc = "giveup"
      <4>1. op.pc = "job" /\ op \in Operations
        BY <3>4, UnderWay DEF EnsureJob, At
      <4>2. ~Goto("complete") /\ ~Goto("resume") /\ ~Return
        BY <1>2, <3>4, <4>1, GotoStep DEF Steps, Return
      <4>3. jobs' = jobs /\ pods' = pods
        BY <3>4, <4>2 DEF EnsureJob
      <4> QED
        BY <2>1, <3>1, <4>3 DEF WorkersQuiet, Quiet, FirstJob
    <3> QED
      BY <3>2, <3>3, <3>4
  <2> QED
    BY <2>2, <2>3 DEF PlaceInOrder
<1> QED
  BY <1>1, <1>2

(* Whoever closes the log of an attempt finds its workers ended.            *)
LEMMA ClosingStep ==
  ASSUME ControllerInv, CancellationInOrder, NEW all \in BOOLEAN, WorkersInOrder(all), Next,
         ~LeavesWorker(all), NEW a \in Attempts, ~exhausted[a], exhausted'[a]
  PROVE  a \in Existing /\ WorkersQuiet(all, a) /\ ~EnsureJob
<1>1. /\ op.pc # "idle" => op.attempt = current
      /\ current \in Existing /\ current \in Attempts /\ current # 0 /\ op \in Operations
  BY UnderWay DEF Existing
<1>2. exhausted \in [Attempts -> BOOLEAN]
  BY DEF ControllerInv, ControllerTypeOK, StoreTypeOK
<1>3. \A b : MarkLogsExhausted(b) => a = b
  BY <1>2 DEF MarkLogsExhausted
<1>4. ClosesLog /\ exhausted' # exhausted
  BY StoreWrites DEF StoreWriters
<1>5. ~EnsureJob
  BY <1>4 DEF EnsureJob, KeepStore, storeVars, attemptVars
<1>6. CASE GiveUp
  <2>1. op.pc = "giveup" /\ MarkLogsExhausted(current)
    BY <1>1, <1>4, <1>6 DEF GiveUp, At, KeepStore, storeVars, attemptVars
  <2> QED
    BY <1>1, <1>3, <1>5, <2>1 DEF WorkersInOrder, PlaceInOrder
<1>7. CASE Observe
  <2>1. JobOf(current) = {} /\ MarkLogsExhausted(current)
    BY <1>1, <1>4, <1>7 DEF Observe, At, KeepStore, storeVars, attemptVars
  <2> QED
    BY <1>1, <1>3, <1>5, <2>1, GoneQuiet DEF WorkersInOrder, JobsInOrder
<1>8. CASE Finish
  <2>1. op.pc = "finish" /\ JobFinished(op.job) /\ MarkLogsExhausted(current)
    BY <1>1, <1>4, <1>8 DEF Finish, At, KeepStore, storeVars, attemptVars
  <2> QED
    BY <1>1, <1>3, <1>5, <2>1 DEF WorkersInOrder, PlaceInOrder
<1>9. CASE CancelLogs
  <2>1. op.pc = "cancelLogs" /\ MarkLogsExhausted(current)
    BY <1>1, <1>9 DEF CancelLogs, At
  <2>2. JobOf(current) = {}
    BY <2>1 DEF CancellationInOrder, Confirmed, NothingRuns
  <2> QED
    BY <1>1, <1>3, <1>5, <2>1, <2>2, GoneQuiet DEF WorkersInOrder, JobsInOrder
<1>10. ASSUME NEW k \in Jobs, WorkerLogsExhausted(k)
       PROVE  a \in Existing /\ WorkersQuiet(all, a)
  <2>1. MarkLogsExhausted(jobs[k].attempt)
    BY <1>10 DEF WorkerLogsExhausted
  <2> QED
    BY <1>3, <1>10, <2>1, BarrierQuiet DEF WorkersInOrder
<1> QED
  BY <1>4, <1>5, <1>6, <1>7, <1>8, <1>9, <1>10 DEF ClosesLog

(* The event under way of an undecided task is none that decides.           *)
LEMMA FirstInHand ==
  ASSUME ControllerInv, EventsInOrder, \A e \in Pending(current) : e[2] = 1, op.call = "event"
  PROVE  op.pc = "handle" /\ Content(op.event).type = "agent_started"
<1>1. op.event \in inbox[current] /\ op.event[2] = 1
  BY DEF EventsInOrder, EventInHand, Pending
<1>2. Content(op.event).type = "agent_started"
  BY <1>1, FirstEvent DEF EventsInOrder
<1> QED
  BY <1>2 DEF EventsInOrder, EventInHand

(* A Job created beside a closed log belongs to an undecided task.          *)
LEMMA CreatedUndecided ==
  ASSUME ControllerInv, EventsInOrder, ReadyIsNotDropped, NEW all \in BOOLEAN, PlaceInOrder(all),
         EnsureJob, exhausted[current]
  PROVE  Undecided'
<1>1. op.pc = "job" /\ KeepStore
  BY DEF EnsureJob, At
<1>2. MayCreate /\ current \in Existing
  BY <1>1, UnderWay DEF PlaceInOrder, Creating
<1>3. state \notin {"failed"} \cup PullRequestStates /\ state \notin Settled
  BY <1>2 DEF MayCreate, WorkerResourceStates, PullRequestStates, Settled
<1>4. ASSUME ~cancelRequested
      PROVE  git[current].state # "pushed" /\ \A e \in Pending(current) : e[2] = 1
  <2>1. CASE state = "creating_job"
    BY <1>4, <2>1 DEF EventsInOrder, NothingHandled, BeforeAgent, Pending
  <2>2. CASE Pending(current) = {}
    <3>1. ASSUME git[current].state = "pushed" PROVE FALSE
      <4>1. PICK e \in inbox[current] : Content(e).type = "pull_request_ready"
        BY <1>2, <3>1 DEF EventsInOrder, PushedByEvent
      <4>2. e \in processed[current]
        BY <2>2, <4>1 DEF Pending
      <4> QED
        BY <1>3, <1>4, <4>1, <4>2 DEF ReadyIsNotDropped
    <3> QED
      BY <2>2, <3>1
  <2> QED
    BY <1>2, <2>1, <2>2 DEF MayCreate
<1>5. Undecided
  BY <1>3, <1>4 DEF Undecided
<1>6. UNCHANGED <<state, current, cancelRequested, git, inbox, processed>>
  BY <1>1 DEF KeepStore, storeVars, taskVars, eventVars, resultVars
<1> QED
  BY <1>5, <1>6 DEF Undecided, Pending

(* How the state of a task moves while its attempt stays.                   *)
LEMMA StateStep ==
  ASSUME ControllerInv, Next, current' = current
  PROVE  state' = state \/ CanTransition(state, state')
<1>1. StoreTypeOK /\ current \in Attempts
  BY UnderWay DEF ControllerInv, ControllerTypeOK
<1>2. ASSUME AttemptNext PROVE FALSE
  <2>1. current' = current + 1 /\ current \in Int
    BY <1>1, <1>2, AttemptStep
  <2> QED
    BY <2>1
<1> QED
  BY <1>1, <1>2, StoreStep, LifecycleStep, OtherSteps, ForgeStep
  DEF OwnNext, storeVars, taskVars, MoveTo

(* An undecided task is decided only after its workers have ended.          *)
LEMMA UndecidedStep ==
  ASSUME ControllerInv, StoreInv, LogsInOrder, EventsInOrder, CancellationInOrder,
         NEW all \in BOOLEAN, WorkersInOrder(all), Next, current' = current,
         exhausted[current], Undecided
  PROVE  Undecided' \/ (WorkersQuiet(all, current) /\ ~EnsureJob)
<1>1. current \in Attempts /\ current \in Existing
  BY UnderWay
<1>2. ASSUME state' = "failed", ~cancelRequested PROVE WorkersQuiet(all, current) /\ ~EnsureJob
  <2>1. \A e \in Pending(current) : e[2] = 1
    BY <1>2 DEF Undecided
  <2>2. \/ Surrender \/ FailedJob \/ Fail \/ CompletedJob \/ WorkerFailed
        \/ PullRequestPublished \/ PullRequestReady
    BY <1>2, StoreWrites DEF StoreWriters, Undecided
  <2>3. op.pc \in {"surrender"} \cup Deciding \cup {"handle"}
    BY <2>2 DEF Surrender, FailedJob, Fail, CompletedJob, WorkerFailed, PullRequestPublished,
                PullRequestReady, Handling, At, Deciding
  <2>4. op.pc # "handle"
    <3>1. ASSUME op.pc = "handle" PROVE FALSE
      <4>1. Content(op.event).type = "agent_started"
        BY <2>1, <3>1, UnderWay, FirstInHand
      <4> QED
        BY <2>2, <3>1, <4>1 DEF Surrender, FailedJob, Fail, CompletedJob, WorkerFailed,
           PullRequestPublished, PullRequestReady, Handling, At
    <3> QED
      BY <3>1
  <2>5. op.call # "event"
    BY <2>1, <2>4, FirstInHand
  <2>6. ~EnsureJob
    BY <2>3 DEF EnsureJob, At, Deciding
  <2> QED
    BY <2>3, <2>4, <2>5, <2>6 DEF WorkersInOrder, PlaceInOrder
<1>3. CASE cancelRequested
  <2>1. state' = state \/ state' = "cancelled"
    BY <1>3, StateStep DEF CanTransition
  <2>2. state' \notin {"failed"} \cup PullRequestStates
    BY <2>1 DEF Undecided, PullRequestStates
  <2>3. CASE cancelRequested'
    BY <2>2, <2>3 DEF Undecided
  <2>4. CASE CancelEvents
    <3>1. op.pc = "cancelEvents"
      BY <2>4 DEF CancelEvents, At
    <3>2. JobOf(current) = {}
      BY <3>1 DEF CancellationInOrder, Confirmed, NothingRuns
    <3> QED
      BY <3>1, <3>2, GoneQuiet DEF WorkersInOrder, JobsInOrder, EnsureJob, At
  <2> QED
    BY <1>3, <2>3, <2>4, RequestKept
<1>4. CASE ~cancelRequested /\ state' # "failed"
  <2>1. git[current].state # "pushed" /\ \A e \in Pending(current) : e[2] = 1
    BY <1>4 DEF Undecided
  <2>2. state' \notin PullRequestStates
    <3>1. ASSUME state' \in PullRequestStates PROVE FALSE
      <4>1. LegalTransition(state, state') /\ state \notin PullRequestStates
            /\ (state' \in {"pr_open", "ready"} => DurablePullRequest(current))
        BY <3>1, StateStep DEF CanTransition, Undecided
      <4>2. state' # "pr_open" /\ state' # "ready"
        BY <2>1, <4>1 DEF DurablePullRequest
      <4>3. PICK i \in 1..13 : lifecycle[i] = state /\ lifecycle[i + 1] = state'
        BY <3>1, <4>1 DEF LegalTransition, PullRequestStates
      <4>4. i \in {1, 2, 3, 4, 5, 6, 7, 8, 9, 10, 11, 12, 13}
        OBVIOUS
      <4> QED
        BY <3>1, <4>1, <4>2, <4>3, <4>4 DEF lifecycle, PullRequestStates
    <3> QED
      BY <3>1
  <2>3. git'[current].state # "pushed"
    <3>1. ASSUME git'[current].state = "pushed" PROVE FALSE
      <4>1. op.pc = "handle" /\ Content(op.event).type = "pull_request_ready"
        BY <1>1, <2>1, <3>1, PushedByReady
      <4>2. Content(op.event).type = "agent_started"
        BY <2>1, <4>1, UnderWay, FirstInHand
      <4> QED
        BY <4>1, <4>2
    <3> QED
      BY <3>1
  <2>4. Pending(current)' \subseteq Pending(current)
    BY <1>1, RowsGrow DEF Pending
  <2> QED
    BY <1>4, <2>1, <2>2, <2>3, <2>4 DEF Undecided
<1> QED
  BY <1>2, <1>3, <1>4

(* A log stays closed over quiet workers or an undecided task.              *)
LEMMA ClosedLogsStep ==
  ASSUME ControllerInv, StoreInv, LogsInOrder, EventsInOrder, ReadyIsNotDropped,
         CancellationInOrder, NEW all \in BOOLEAN, WorkersInOrder(all), Next, ~LeavesWorker(all)
  PROVE  ClosedLogs(all)'
<1>1. /\ current \in Existing /\ current \in Attempts /\ MaxAttempts \in Nat
      /\ current' \in Attempts /\ current' \in {current, current + 1}
      /\ Existing = 1..current
  BY UnderWay, CurrentKept DEF Existing
<1>2. OneJobAtATime /\ PlaceInOrder(all) /\ ClosedLogs(all)
  BY DEF WorkersInOrder, JobsInOrder
<1>3. ASSUME NEW a \in Attempts, a > current, exhausted'[a] PROVE FALSE
  <2>1. ~exhausted[a] /\ a \notin Existing
    BY <1>1, <1>2, <1>3 DEF ClosedLogs
  <2> QED
    BY <1>3, <2>1, ClosingStep
<1>4. \A a \in Attempts : a > current' => ~exhausted'[a]
  BY <1>1, <1>3
<1>5. CASE current' = current
  <2>1. ASSUME NEW a \in 1..(current' - 1) PROVE WorkersQuiet(all, a)'
    <3>1. a \in Existing /\ a # current /\ WorkersQuiet(all, a)
      BY <1>1, <1>2, <1>5, <2>1 DEF ClosedLogs
    <3> QED
      BY <1>2, <3>1, QuietKept
  <2>2. ASSUME exhausted'[current'], ~WorkersQuiet(all, current)'
        PROVE  Undecided'
    <3>1. ~(WorkersQuiet(all, current) /\ ~EnsureJob)
      BY <1>1, <1>2, <1>5, <2>2, QuietKept DEF WorkersQuiet
    <3>2. exhausted[current]
      BY <1>1, <1>5, <2>2, <3>1, ClosingStep
    <3>3. CASE Undecided
      BY <1>5, <3>1, <3>2, <3>3, UndecidedStep
    <3>4. CASE WorkersQuiet(all, current)
      BY <1>2, <3>1, <3>2, <3>4, CreatedUndecided
    <3> QED
      BY <1>2, <3>2, <3>3, <3>4 DEF ClosedLogs
  <2> QED
    BY <1>4, <1>5, <2>1, <2>2 DEF ClosedLogs
<1>6. CASE current' = current + 1
  <2>1. current' # current /\ current' > current
    BY <1>1, <1>6
  <2>2. AttemptNext
    BY <2>1, StoreStep, LifecycleStep, OtherSteps, ForgeStep
    DEF OwnNext, storeVars, ControllerInv, ControllerTypeOK
  <2>3. state \in PullRequestStates \cup {"failed"} /\ exhausted[current]
    BY <2>2, AttemptStep DEF StoreInv
  <2>4. WorkersQuiet(all, current)
    BY <1>2, <2>3 DEF ClosedLogs, Undecided
  <2>5. UNCHANGED <<jobs, pods>>
    BY <2>1, NewAttemptEmpty
  <2>6. ASSUME NEW a \in 1..(current' - 1) PROVE WorkersQuiet(all, a)'
    <3>1. a \in 1..(current - 1) \/ a = current
      BY <1>1, <1>6, <2>6
    <3>2. WorkersQuiet(all, a)
      BY <1>2, <2>4, <3>1 DEF ClosedLogs
    <3> QED
      BY <2>5, <3>2 DEF WorkersQuiet, Quiet, FirstJob, Jobs
  <2>7. ~exhausted'[current']
    BY <1>1, <1>3, <2>1
  <2> QED
    BY <1>4, <2>6, <2>7 DEF ClosedLogs
<1> QED
  BY <1>1, <1>5, <1>6

(* The order of Jobs, Pods, readers and operations, step by step.           *)
LEMMA WorkersInOrderStep ==
  ASSUME ControllerInv, StoreInv, LogsInOrder, EventsInOrder, ReadyIsNotDropped,
         CancellationInOrder, NEW all \in BOOLEAN, WorkersInOrder(all), [Next]_vars,
         [~LeavesWorker(all)]_vars
  PROVE  WorkersInOrder(all)'
<1>1. CASE UNCHANGED vars
  <2>1. UNCHANGED <<jobs, pods, reader, op, state, current, cancelRequested, exhausted, inbox,
                    processed, git>>
    BY <1>1 DEF vars, storeVars, clusterVars, volatileVars, taskVars, attemptVars, eventVars,
                resultVars
  <2>2. JobsInOrder'
    BY <2>1 DEF WorkersInOrder, JobsInOrder, PodsFollowJobs, OneJobAtATime, EndedReaders, Quiet,
                Over, Jobs
  <2>3. PlaceInOrder(all)'
    BY <2>1 DEF WorkersInOrder, PlaceInOrder, MayCreate, Pending, WorkersQuiet, FirstJob, Quiet,
                Jobs
  <2>4. ClosedLogs(all)'
    BY <2>1 DEF WorkersInOrder, ClosedLogs, Undecided, Pending, WorkersQuiet, FirstJob, Quiet, Jobs
  <2> QED
    BY <2>2, <2>3, <2>4 DEF WorkersInOrder
<1>2. CASE Next /\ ~UNCHANGED vars
  <2>1. ~LeavesWorker(all)
    BY <1>2
  <2>2. JobsInOrder'
    BY <1>2, JobsInOrderStep, EndedReadersStep DEF WorkersInOrder, JobsInOrder
  <2>3. PlaceInOrder(all)'
    BY <1>2, <2>1, PlaceInOrderStep DEF WorkersInOrder
  <2>4. ClosedLogs(all)'
    BY <1>2, <2>1, ClosedLogsStep
  <2> QED
    BY <2>2, <2>3, <2>4 DEF WorkersInOrder
<1> QED
  BY <1>1, <1>2

(* No Job, no closed log.                                                   *)
LEMMA WorkersInOrderInit ==
  ASSUME ControllerInit, NEW all \in BOOLEAN
  PROVE  WorkersInOrder(all)
<1>1. /\ jobs = [g \in Jobs |-> NoJob] /\ pods = [g \in Jobs |-> NoPod] /\ op = Idle
      /\ reader = [g \in Jobs |-> Reading] /\ \A a \in Attempts : ~exhausted[a]
      /\ current = 1 /\ 1 \in Attempts
  <2>1. 1 \in Attempts
    OBVIOUS
  <2>2. current = 1 /\ \A a \in Attempts : ~exhausted[a]
    BY DEF ControllerInit, StoreInit
  <2> QED
    BY <2>1, <2>2 DEF ControllerInit, ClusterInit
<1>2. JobsInOrder
  BY <1>1 DEF JobsInOrder, PodsFollowJobs, OneJobAtATime, EndedReaders, Over, NoJob, NoPod, Reading
<1>3. PlaceInOrder(all)
  BY <1>1, IdleRow DEF PlaceInOrder, Creating, Deciding
<1>4. ClosedLogs(all)
  BY <1>1 DEF ClosedLogs
<1> QED
  BY <1>2, <1>3, <1>4 DEF WorkersInOrder

(* The order of first Jobs, and of all Jobs, as state predicates.           *)
FirstWorkersInOrder == WorkersInOrder(FALSE)
AllWorkersInOrder == WorkersInOrder(TRUE)

(* What every state of the controller keeps that the order of workers rests *)
(* on.                                                                      *)
Surroundings == /\ ControllerInv /\ StoreInv /\ LogsInOrder /\ EventsInOrder
                /\ ReadyIsNotDropped /\ CancellationInOrder

(* Those invariants together.                                               *)
LEMMA SurroundingsKept == Spec => []Surroundings
<1>1. ControllerInv /\ StoreInv /\ (LogsInOrder /\ PushedWasReady) /\ EventsInOrder
        /\ ReadyIsNotDropped /\ CancellationInOrder => Surroundings
  BY DEF Surroundings
<1> QED
  BY <1>1, ControllerInvariant, StoreInvariant, LogsKept, EventsOrdered, ReadyKept,
     CancellationOrdered, PTL

(* If the API never refuses a creation for good while a worker of the       *)
(* attempt runs, the first Job of an attempt that has a successor has       *)
(* ended, whatever is deleted, created again, lost, refused before the      *)
(* worker or after it, retried or cancelled.  So every state in which two   *)
(* first workers share a task has such a refusal in its past.               *)
THEOREM PredecessorsHaveStopped ==
  Spec /\ [][~RefusedBesideWorker]_vars => []PredecessorsStopped
<1>1. Surroundings /\ FirstWorkersInOrder /\ [Next]_vars /\ [~RefusedBesideWorker]_vars
        => FirstWorkersInOrder'
  BY WorkersInOrderStep DEF Surroundings, FirstWorkersInOrder, LeavesWorker
<1>2. ControllerInit => FirstWorkersInOrder
  BY WorkersInOrderInit DEF FirstWorkersInOrder
<1>3. FirstWorkersInOrder => PredecessorsStopped
  BY DEF FirstWorkersInOrder, WorkersInOrder, ClosedLogs, PredecessorsStopped, WorkersQuiet, Quiet
<1> QED
  BY <1>1, <1>2, <1>3, SurroundingsKept, PTL DEF Spec

(* No worker of any Job runs for an attempt that has a successor, also not  *)
(* of one that was deleted and created again.  The code breaks this in two  *)
(* ways: failAfterPermanentKubernetesCreation closes the log beside a       *)
(* running worker, and WorkerLogsExhausted asks for the attempt and not for *)
(* the Pod.                                                                 *)
AllPredecessorsStopped ==
  \A g \in Jobs : jobs[g].attempt \in 1..(current - 1) => pods[g].phase # "running"

(* A run without those two steps never shows a running worker of an attempt *)
(* that has a successor; so a run with two workers on one task contains one *)
(* of them.                                                                 *)
THEOREM OnlyTwoStepsLeaveWorkers ==
  Spec /\ [][~RefusedBesideWorker /\ ~BarrierBesideWorker]_vars => []AllPredecessorsStopped
<1>1. Surroundings /\ AllWorkersInOrder /\ [Next]_vars
        /\ [~RefusedBesideWorker /\ ~BarrierBesideWorker]_vars => AllWorkersInOrder'
  BY WorkersInOrderStep DEF Surroundings, AllWorkersInOrder, LeavesWorker
<1>2. ControllerInit => AllWorkersInOrder
  BY WorkersInOrderInit DEF AllWorkersInOrder
<1>3. AllWorkersInOrder => AllPredecessorsStopped
  BY DEF AllWorkersInOrder, WorkersInOrder, ClosedLogs, AllPredecessorsStopped, WorkersQuiet, Quiet
<1> QED
  BY <1>1, <1>2, <1>3, SurroundingsKept, PTL DEF Spec

=============================================================================
