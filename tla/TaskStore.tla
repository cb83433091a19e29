----------------------------- MODULE TaskStore -----------------------------
(***************************************************************************)
(* The SQLite tables of one task (internal/store) and every transaction    *)
(* that changes them.  A transaction is atomic (SetMaxOpenConns(1), BEGIN  *)
(* IMMEDIATE); a transaction that returns an error rolls back, so it is    *)
(* not an action here: the guard of an action is the conjunction of the    *)
(* checks that transaction makes.  Callers are arbitrary: any transaction  *)
(* may run at any time with any argument, the store alone keeps the        *)
(* invariants.  Module Controller restricts who calls what.                *)
(*                                                                         *)
(* Attempts are numbered 1, 2, ... in creation order (task_attempts.number *)
(* is MAX(number)+1); a number above `current` is a row not yet inserted.  *)
(* Webhook times (next_attempt_at) are left out: whether an event is due   *)
(* is the caller's choice.  Titles, prompts, URLs and task_events text are *)
(* data no property here reads.                                            *)
(***************************************************************************)
EXTENDS Domain, Lifecycle, FiniteSets

CONSTANTS
  WorkerEvents,  \* worker log event identities of one attempt
  Keys,          \* retry idempotency keys
  Versions,      \* complete resource snapshots (configuration digests)
  Feedback,      \* accepted forge events that concern this task
  NoEvent, NoVersion, NoKey

ASSUME StoreAssumption ==
  /\ NoEvent \notin WorkerEvents
  /\ NoVersion \notin Versions
  /\ NoKey \notin Keys

VARIABLES
  state, current, cancelRequested,            \* tasks
  attemptState, exhausted, validation,        \* task_attempts, by number
  snapshot, branch,
  inbox, processed,                           \* worker_log_events
  runs,                                       \* validation_runs
  git, pr,                                    \* git_results, pull_requests
  intents,                                    \* retry_intents
  forge                                       \* forge_events

taskVars == <<state, current, cancelRequested>>
attemptVars == <<attemptState, exhausted, validation, snapshot, branch>>
eventVars == <<inbox, processed>>
resultVars == <<git, pr>>
storeVars == <<state, current, cancelRequested, attemptState, exhausted, validation,
               snapshot, branch, inbox, processed, runs, git, pr, intents, forge>>

(* A validation_runs row: the events that started and completed one command. *)
RunRows == [start : WorkerEvents, result : WorkerEvents \cup {NoEvent},
            state : {"running", "succeeded", "failed"}]
GitRows == [state : {"none", "candidate", "pushed"}, sha : Commits \cup {NoCommit}]
PullRequestRows == [state : {"none", "reported", "open"}, number : Numbers \cup {0}]
FeedbackRows == [status : {"pending", "running", "handled", "failed"},
                 attempt : Attempts \cup {0}]

NoGit == [state |-> "none", sha |-> NoCommit]
NoPullRequest == [state |-> "none", number |-> 0]

StoreTypeOK ==
  /\ state \in States
  /\ current \in Attempts
  /\ cancelRequested \in BOOLEAN
  /\ attemptState \in [Attempts -> States]
  /\ exhausted \in [Attempts -> BOOLEAN]
  /\ validation \in [Attempts -> {"", "succeeded", "failed"}]
  /\ snapshot \in [Attempts -> Versions \cup {NoVersion}]
  /\ branch \in [Attempts -> Attempts]
  /\ inbox \in [Attempts -> SUBSET WorkerEvents]
  /\ processed \in [Attempts -> SUBSET WorkerEvents]
  /\ runs \in [Attempts -> SUBSET RunRows]
  /\ git \in [Attempts -> GitRows]
  /\ pr \in [Attempts -> PullRequestRows]
  /\ intents \in [Keys -> Attempts \cup {0}]
  /\ forge \in [Feedback -> FeedbackRows]

(* CreateTaskOnce: the task and its first attempt, inserted together.  The  *)
(* branch of an attempt is the number of the attempt that created it:       *)
(* "<prefix><task>-a<number>"; follow-ups copy it.                          *)
StoreInit ==
  /\ state = "received"
  /\ current = 1
  /\ cancelRequested = FALSE
  /\ attemptState = [a \in Attempts |-> "received"]
  /\ exhausted = [a \in Attempts |-> FALSE]
  /\ validation = [a \in Attempts |-> ""]
  /\ snapshot = [a \in Attempts |-> NoVersion]
  /\ branch = [a \in Attempts |-> a]
  /\ inbox = [a \in Attempts |-> {}]
  /\ processed = [a \in Attempts |-> {}]
  /\ runs = [a \in Attempts |-> {}]
  /\ git = [a \in Attempts |-> NoGit]
  /\ pr = [a \in Attempts |-> NoPullRequest]
  /\ intents = [k \in Keys |-> 0]
  /\ forge = [f \in Feedback |-> [status |-> "pending", attempt |-> 0]]

-----------------------------------------------------------------------------
(* Queries *)

Existing == 1..current

(* HasPendingWorkerEvents: durable worker events not yet marked processed. *)
Pending(a) == inbox[a] \ processed[a]

RunningRows(a) == {r \in runs[a] : r.state = "running"}

(* The forge events of the batch attempt a works on. *)
RunningFeedback(a) == {f \in Feedback : forge[f].status = "running" /\ forge[f].attempt = a}

ActiveFeedback == {f \in Feedback : forge[f].status = "running"}

(* The join Transition makes before PR_OPEN and READY. *)
DurablePullRequest(a) == git[a].state = "pushed" /\ pr[a].state = "open" /\ pr[a].number > 0

(* priorPullRequestNumberTx: numbers of other attempts' open pull requests  *)
(* on the branch of attempt a.                                              *)
PriorNumbers(a) == {pr[b].number : b \in {c \in Existing \ {a} :
                                            pr[c].state = "open" /\ branch[c] = branch[a]}}

-----------------------------------------------------------------------------
(* Lifecycle transactions *)

(* Mutants: the gate reads the pull-request row alone, which a follow-up    *)
(* attempt copies; a pending cancellation is not asked about.               *)
CanTransitionOnRow(from, to) ==
  /\ LegalTransition(from, to)
  /\ state = from
  /\ cancelRequested => to = "cancelled"
  /\ to \in {"pr_open", "ready"} => pr[current].state = "open" /\ pr[current].number > 0

CanTransitionCancelling(from, to) ==
  /\ LegalTransition(from, to)
  /\ state = from
  /\ to \in {"pr_open", "ready"} => DurablePullRequest(current)

CanTransition(from, to) ==
  /\ LegalTransition(from, to)
  /\ state = from
  /\ cancelRequested => to = "cancelled"
  /\ to \in {"pr_open", "ready"} => DurablePullRequest(current)

MoveTo(to) ==
  /\ state' = to
  /\ cancelRequested' = (cancelRequested /\ to # "cancelled")
  /\ attemptState' = [attemptState EXCEPT ![current] = to]

(* Transition without a validation row. *)
Transition(from, to) ==
  /\ CanTransition(from, to)
  /\ MoveTo(to)
  /\ UNCHANGED <<current, exhausted, validation, snapshot, branch, eventVars,
                 runs, resultVars, intents, forge>>

(* validation_runs_start_event and _result_event are unique indexes. *)
StartedEvents(a) == {r.start : r \in runs[a]}
ResultEvents(a) == {r.result : r \in runs[a]}

(* Mutant: no unique index on the start event.                              *)
CanRestartRun(a, e) == e \in WorkerEvents /\ RunningRows(a) = {}

(* applyValidationTransition, "running": one command at a time. *)
CanStartRun(a, e) == RunningRows(a) = {} /\ e \notin StartedEvents(a)

Opened(e) == [start |-> e, result |-> NoEvent, state |-> "running"]

StartRun(a, e) ==
  runs' = [runs EXCEPT ![a] = @ \cup {Opened(e)}]

(* Transition with Validation{State: "running"}: both or neither. *)
TransitionValidating(from, e) ==
  /\ CanTransition(from, "validating")
  /\ CanStartRun(current, e)
  /\ MoveTo("validating")
  /\ StartRun(current, e)
  /\ UNCHANGED <<current, exhausted, validation, snapshot, branch, eventVars,
                 resultVars, intents, forge>>

(* A running row completed by result event e. *)
Closed(r, e, verdict) == [start |-> r.start, result |-> e, state |-> verdict]

(* Mutant: the terminal states are not excluded.                            *)
RequestCancellationLate ==
  /\ cancelRequested' = TRUE
  /\ UNCHANGED <<state, current, attemptVars, eventVars, runs, resultVars, intents, forge>>

(* RequestCancellation *)
RequestCancellation ==
  /\ state \notin Settled
  /\ cancelRequested' = TRUE
  /\ UNCHANGED <<state, current, attemptVars, eventVars, runs, resultVars, intents, forge>>

-----------------------------------------------------------------------------
(* Validation transactions *)

(* RecordValidationStartedOnce, after its replay check. *)
RecordValidationStartedOnce(a, e) ==
  /\ a = current /\ state = "validating"
  /\ CanStartRun(a, e)
  /\ StartRun(a, e)
  /\ UNCHANGED <<taskVars, attemptVars, eventVars, resultVars, intents, forge>>

(* RecordValidationResultOnce, after its replay check: the running command  *)
(* takes the exit code of its result.                                       *)
RecordValidationResultOnce(a, e, verdict) ==
  /\ a = current /\ state = "validating"
  /\ e \notin ResultEvents(a)
  /\ \E r \in RunningRows(a) :
       runs' = [runs EXCEPT ![a] = (@ \ {r}) \cup {Closed(r, e, verdict)}]
  /\ UNCHANGED <<taskVars, attemptVars, eventVars, resultVars, intents, forge>>

CanMarkValidationComplete(a) == RunningRows(a) = {} /\ runs[a] # {}

(* MarkValidationComplete does not ask whether a is the current attempt. *)
MarkValidationComplete(a, verdict) ==
  /\ CanMarkValidationComplete(a)
  /\ validation' = [validation EXCEPT ![a] = verdict]
  /\ UNCHANGED <<taskVars, attemptState, exhausted, snapshot, branch, eventVars,
                 runs, resultVars, intents, forge>>

(* Transition with Validation{State: "failed"}: the running rows and the    *)
(* aggregate verdict close with the task (nobody passes "succeeded").       *)
TransitionClosingRuns(from, to) ==
  /\ CanTransition(from, to)
  /\ RunningRows(current) # {}
  /\ MoveTo(to)
  /\ runs' = [runs EXCEPT ![current] =
                 (@ \ RunningRows(current))
                   \cup {Closed(r, NoEvent, "failed") : r \in RunningRows(current)}]
  /\ validation' = [validation EXCEPT ![current] = "failed"]
  /\ UNCHANGED <<current, exhausted, snapshot, branch, eventVars, resultVars, intents, forge>>

-----------------------------------------------------------------------------
(* Snapshot, log and worker event transactions *)

(* SaveAttemptSnapshot: WHERE resource_snapshot = ''. *)
SaveAttemptSnapshot(a, v) ==
  /\ snapshot[a] = NoVersion
  /\ snapshot' = [snapshot EXCEPT ![a] = v]
  /\ UNCHANGED <<taskVars, attemptState, exhausted, validation, branch, eventVars,
                 runs, resultVars, intents, forge>>

MarkLogsExhausted(a) ==
  /\ exhausted' = [exhausted EXCEPT ![a] = TRUE]
  /\ UNCHANGED <<taskVars, attemptState, validation, snapshot, branch, eventVars,
                 runs, resultVars, intents, forge>>

(* Mutant: a late log reader is not refused.                                *)
AppendableLate(a) == a \in Existing

(* requireAppendableAttemptTx *)
Appendable(a) == a = current /\ ~exhausted[a]

(* AppendPodLog of a line that carries a worker event; ON CONFLICT(id) DO   *)
(* NOTHING keeps the row of an event read twice.                            *)
AppendWorkerEvent(a, e) ==
  /\ Appendable(a)
  /\ inbox' = [inbox EXCEPT ![a] = @ \cup {e}]
  /\ UNCHANGED <<taskVars, attemptVars, processed, runs, resultVars, intents, forge>>

MarkWorkerEventProcessed(a, e) ==
  /\ e \in inbox[a]
  /\ processed' = [processed EXCEPT ![a] = @ \cup {e}]
  /\ UNCHANGED <<taskVars, attemptVars, inbox, runs, resultVars, intents, forge>>

-----------------------------------------------------------------------------
(* Pull request transactions *)

(* recordPullRequestCandidateTx: a candidate may replace only the SHA of an *)
(* unverified one, and must name the pull request the branch already has.   *)
CanRecordCandidate(a, c, n) ==
  /\ snapshot[a] # NoVersion
  /\ \/ git[a] = [state |-> "pushed", sha |-> c] /\ pr[a] = [state |-> "open", number |-> n]
     \/ /\ git[a].state # "pushed"
        /\ \/ PriorNumbers(a) = {} /\ pr[a] \in {NoPullRequest, [state |-> "reported", number |-> n]}
           \/ PriorNumbers(a) = {n} /\ pr[a] = [state |-> "open", number |-> n]

RecordPullRequestCandidate(a, c, n) ==
  /\ CanRecordCandidate(a, c, n)
  /\ git' = [git EXCEPT ![a] = IF @.state = "pushed" THEN @
                               ELSE [state |-> "candidate", sha |-> c]]
  /\ pr' = [pr EXCEPT ![a] = IF @ = NoPullRequest
                             THEN [state |-> "reported", number |-> n] ELSE @]
  /\ UNCHANGED <<taskVars, attemptVars, eventVars, runs, intents, forge>>

(* Mutants: any reported number is promoted; any recorded commit is.        *)
CanRecordVerifiedNumber(a, c, n) ==
  /\ snapshot[a] # NoVersion /\ n \in Numbers
  /\ \/ git[a] = [state |-> "pushed", sha |-> c] /\ pr[a].number = n
     \/ git[a] = [state |-> "candidate", sha |-> c] /\ pr[a].state \in {"reported", "open"}

CanRecordVerifiedCommit(a, c, n) ==
  /\ snapshot[a] # NoVersion /\ c \in Commits
  /\ git[a].state \in {"candidate", "pushed"}
  /\ pr[a].state \in {"reported", "open"} /\ pr[a].number = n

(* recordVerifiedPullRequestTx: only the exact latest candidate is promoted. *)
CanRecordVerified(a, c, n) ==
  /\ snapshot[a] # NoVersion
  /\ \/ git[a] = [state |-> "pushed", sha |-> c] /\ pr[a] = [state |-> "open", number |-> n]
     \/ /\ git[a] = [state |-> "candidate", sha |-> c]
        /\ pr[a].state \in {"reported", "open"} /\ pr[a].number = n

RecordVerifiedPullRequest(a, c, n) ==
  /\ CanRecordVerified(a, c, n)
  /\ git' = [git EXCEPT ![a] = [state |-> "pushed", sha |-> c]]
  /\ pr' = [pr EXCEPT ![a] = [state |-> "open", number |-> n]]
  /\ UNCHANGED <<taskVars, attemptVars, eventVars, runs, intents, forge>>

-----------------------------------------------------------------------------
(* New attempts *)

(* Mutant: a follow-up copies the Git result too. *)
InsertAttemptCopyingGit(n, version, lineage, pullRequest) ==
  /\ state' = "queued" /\ current' = n
  /\ attemptState' = [attemptState EXCEPT ![n] = "queued"]
  /\ snapshot' = [snapshot EXCEPT ![n] = version]
  /\ branch' = [branch EXCEPT ![n] = lineage]
  /\ pr' = [pr EXCEPT ![n] = pullRequest]
  /\ git' = [git EXCEPT ![n] = git[current]]
  /\ UNCHANGED <<exhausted, validation, eventVars, runs>>

(* The row, task columns and optional copied pull request of attempt n. *)
InsertAttempt(n, version, lineage, pullRequest) ==
  /\ state' = "queued"
  /\ current' = n
  /\ attemptState' = [attemptState EXCEPT ![n] = "queued"]
  /\ snapshot' = [snapshot EXCEPT ![n] = version]
  /\ branch' = [branch EXCEPT ![n] = lineage]
  /\ pr' = [pr EXCEPT ![n] = pullRequest]
  /\ UNCHANGED <<exhausted, validation, eventVars, runs, git>>

(* Mutant: the unprocessed worker events are not counted.                   *)
CanRetryPending(key) ==
  /\ key \in Keys => intents[key] = 0
  /\ LegalRetry(state, "queued")
  /\ exhausted[current]
  /\ RunningFeedback(current) # {} => pr[current].state = "open"

(* Mutant: the log barrier of the failed attempt is not asked about. *)
CanRetryLoud(key) ==
  /\ key \in Keys => intents[key] = 0
  /\ LegalRetry(state, "queued")
  /\ Pending(current) = {}
  /\ RunningFeedback(current) # {} => pr[current].state = "open"

CanRetry(key) ==
  /\ key \in Keys => intents[key] = 0
  /\ LegalRetry(state, "queued")
  /\ Pending(current) = {}
  /\ exhausted[current]
  /\ RunningFeedback(current) # {} => pr[current].state = "open"

(* Mutant: the running forge events stay with the failed attempt.           *)
RetryTaskAlone(key, version) ==
  LET next == current + 1
  IN /\ next \in Attempts
     /\ CanRetry(key)
     /\ IF RunningFeedback(current) = {}
        THEN InsertAttempt(next, version, next, NoPullRequest)
        ELSE InsertAttempt(next, version, branch[current], pr[current])
     /\ cancelRequested' = FALSE
     /\ intents' = [k \in Keys |-> IF k = key THEN next ELSE intents[k]]
     /\ UNCHANGED forge

(* retryTaskOnce: a retry of a forge follow-up continues its pull request   *)
(* and takes over its running events; any other retry starts a new branch.  *)
(* The plan carries the complete snapshot; it must still fit the rows read  *)
(* in this transaction.  A replayed key changes nothing and is no action.   *)
RetryTaskOnce(key, version) ==
  LET next == current + 1
      batch == RunningFeedback(current)
  IN /\ next \in Attempts
     /\ CanRetry(key)
     /\ IF batch = {} THEN InsertAttempt(next, version, next, NoPullRequest)
                      ELSE InsertAttempt(next, version, branch[current], pr[current])
     /\ forge' = [f \in Feedback |-> IF f \in batch THEN [status |-> "running", attempt |-> next]
                                     ELSE forge[f]]
     /\ cancelRequested' = FALSE
     /\ intents' = [k \in Keys |-> IF k = key THEN next ELSE intents[k]]

(* validateForgeFollowUpTask *)
CanFollowUp ==
  /\ pr[current].state = "open" /\ pr[current].number > 0
  /\ LegalFollowUp(state, "queued")
  /\ exhausted[current]
  /\ Pending(current) = {}
  /\ ~cancelRequested
  /\ ActiveFeedback = {}

Unassociated(f) == forge[f] = [status |-> "pending", attempt |-> 0]

(* StartForgeEventAttempt: one follow-up attempt for an exact pending batch. *)
StartForgeEventAttempt(batch, version) ==
  LET next == current + 1
  IN /\ next \in Attempts
     /\ batch # {} /\ \A f \in batch : Unassociated(f)
     /\ CanFollowUp
     /\ InsertAttempt(next, version, branch[current], pr[current])
     /\ forge' = [f \in Feedback |-> IF f \in batch THEN [status |-> "running", attempt |-> next]
                                     ELSE forge[f]]
     /\ UNCHANGED <<cancelRequested, intents>>

-----------------------------------------------------------------------------
(* Forge event outcomes: the association, if any, stays. *)

Outcome(f, status) == [status |-> status, attempt |-> forge[f].attempt]

(* Fail a running batch: cancellation is requested in the same transaction  *)
(* only while the batch owns the current, nonterminal attempt.              *)
FailRunningFeedback(a) ==
  /\ RunningFeedback(a) # {}
  /\ forge' = [f \in Feedback |-> IF f \in RunningFeedback(a)
                                  THEN Outcome(f, "failed") ELSE forge[f]]
  /\ cancelRequested' = (cancelRequested \/ (a = current /\ state \notin Settled))
  /\ UNCHANGED <<state, current, attemptVars, eventVars, runs, resultVars, intents>>

(* FailForgeEvent and FailForgeEventBatch of events no attempt works on. *)
FailPendingFeedback(batch) ==
  /\ batch # {} /\ \A f \in batch : Unassociated(f)
  /\ forge' = [f \in Feedback |-> IF f \in batch THEN Outcome(f, "failed")
                                  ELSE forge[f]]
  /\ UNCHANGED <<taskVars, attemptVars, eventVars, runs, resultVars, intents>>

MarkForgeEventHandled(f) ==
  /\ forge[f].status # "failed"
  /\ forge' = [forge EXCEPT ![f] = Outcome(f, "handled")]
  /\ UNCHANGED <<taskVars, attemptVars, eventVars, runs, resultVars, intents>>

-----------------------------------------------------------------------------
(* Every transaction, with every argument. *)

LifecycleNext ==
  \/ \E to \in States : Transition(state, to) \/ TransitionClosingRuns(state, to)
  \/ \E e \in WorkerEvents : TransitionValidating(state, e)
  \/ RequestCancellation

AttemptNext == \E v \in Versions :
  \/ \E key \in Keys \cup {NoKey} : RetryTaskOnce(key, v)
  \/ \E batch \in SUBSET Feedback : StartForgeEventAttempt(batch, v)

ValidationNext == \E a \in Existing, verdict \in {"succeeded", "failed"} :
  \/ \E e \in WorkerEvents : RecordValidationResultOnce(a, e, verdict)
  \/ \E e \in WorkerEvents : RecordValidationStartedOnce(a, e)
  \/ MarkValidationComplete(a, verdict)

LogNext == \E a \in Existing :
  \/ \E e \in WorkerEvents : AppendWorkerEvent(a, e) \/ MarkWorkerEventProcessed(a, e)
  \/ \E v \in Versions : SaveAttemptSnapshot(a, v)
  \/ MarkLogsExhausted(a)

ResultNext == \E a \in Existing, c \in Commits, n \in Numbers :
  RecordPullRequestCandidate(a, c, n) \/ RecordVerifiedPullRequest(a, c, n)

ForgeNext ==
  \/ \E a \in Existing : FailRunningFeedback(a)
  \/ \E batch \in SUBSET Feedback : FailPendingFeedback(batch)
  \/ \E f \in Feedback : MarkForgeEventHandled(f)

StoreNext == \/ LifecycleNext \/ AttemptNext \/ ValidationNext
             \/ LogNext \/ ResultNext \/ ForgeNext

StoreSpec == StoreInit /\ [][StoreNext]_storeVars

-----------------------------------------------------------------------------
(* What the transactions keep, whoever calls them. *)

(* A task is shown PR_OPEN or later only while its current attempt has a    *)
(* pushed commit and a verified open pull request (the gate of Transition), *)
(* whatever is recorded, retried or followed up afterwards.                 *)
PullRequestIsDurable == state \in PullRequestStates => DurablePullRequest(current)

(* A requested cancellation belongs to a task that still runs: no           *)
(* transaction leaves the flag on a READY, FAILED or CANCELLED task, where  *)
(* Retry or a follow-up would inherit it.                                   *)
CancellationIsLive == cancelRequested => state \notin Settled

(* A successor attempt starts only when its predecessors are silent: logs   *)
(* exhausted, no unprocessed worker event (RetryTaskOnce,                   *)
(* validateForgeFollowUpTask, requireAppendableAttemptTx together).         *)
PredecessorsAreSilent == \A a \in 1..(current - 1) : exhausted[a] /\ Pending(a) = {}

(* A running forge event always works on the current attempt, and that      *)
(* attempt carries the open pull request: retryTaskOnce rebinds events, so  *)
(* a failed follow-up can be retried and its outcome still reaches them.    *)
FeedbackOwnsCurrentAttempt ==
  \A f \in ActiveFeedback : forge[f].attempt = current /\ pr[current].state = "open"

(* All open pull-request rows of one branch name the same provider number.  *)
OnePullRequestPerBranch ==
  \A a, b \in Existing :
    branch[a] = branch[b] /\ pr[a].state = "open" /\ pr[b].state = "open"
      => pr[a].number = pr[b].number

(* An attempt runs one validation command at a time, and a worker event     *)
(* starts or completes at most one command however often it is replayed.    *)
CommandsRunOnce ==
  \A a \in Existing : \A r, s \in runs[a] :
    r # s => /\ ~(r.state = "running" /\ s.state = "running")
             /\ r.start # s.start
             /\ r.result = s.result => r.result = NoEvent

(* Once requested, cancellation decides: the task stays where it is, on the *)
(* same attempt and with the request pending, until it is CANCELLED         *)
(* (openapi.yaml: cancellation_requested "is true until the task reaches    *)
(* cancelled").                                                             *)
CancellationOwnsOutcome ==
  [][cancelRequested =>
       /\ current' = current
       /\ \/ state' = state /\ cancelRequested'
          \/ state' = "cancelled" /\ ~cancelRequested']_storeVars

(* The rows of an attempt that has a successor never change again: its      *)
(* state, log barrier, worker events and validation runs are history.       *)
AttemptsAreHistory ==
  [][\A a \in Attempts : a < current' =>
       /\ attemptState'[a] = attemptState[a] /\ exhausted'[a] = exhausted[a]
       /\ inbox'[a] = inbox[a] /\ processed'[a] = processed[a]
       /\ runs'[a] = runs[a]]_storeVars

(* Durable receipts are final: a pushed commit, an open pull request, a     *)
(* resource snapshot and an assigned retry key are never replaced.          *)
ReceiptsAreFinal ==
  [][/\ \A a \in Attempts :
         /\ git[a].state = "pushed" => git'[a] = git[a]
         /\ pr[a].state = "open" => pr'[a] = pr[a]
         /\ snapshot[a] # NoVersion => snapshot'[a] = snapshot[a]
     /\ \A k \in Keys : intents[k] # 0 => intents'[k] = intents[k]]_storeVars

(* What README.md says of a retry: it "creates a new attempt, Job, task     *)
(* branch, and history entry".  The retry of a failed forge follow-up does  *)
(* not: it continues the branch of its pull request.                        *)
RetryOpensBranch == [][state = "failed" /\ current' # current
                         => \A a \in Existing : branch'[current'] # branch[a]]_storeVars

=============================================================================
