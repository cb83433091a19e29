# SimpleSWE: a TLA+ model of task orchestration

SimpleSWE runs a coding task as a Kubernetes Job, reads the worker's structured
log, drives the task through sixteen states to a pull request, and starts
follow-up attempts when reviews or CI report on it. This directory holds a model
of that orchestration: modules translated from the Go source, TLC configurations
that check them on small instances, two abstract contracts that the store
implements, and TLAPS proofs for every instance. Paths and line numbers below
are those of the repository; `PROJECT.json` maps each definition to its lines.

    tlc -workers 2 -config MCControllerFollowUp.cfg MCController   # one run
    tlapm TaskStoreProofs.tla                                      # one module of proofs

## 1. Inventory

### Components

| component | code | state it keeps | operations | modules |
|---|---|---|---|---|
| task lifecycle | `internal/task/state.go` | none | `Transition`, `Retry`, `ForgeFollowUp` | `Lifecycle` |
| task store | `internal/store/{store,operational,forge_event}.go` | SQLite rows: tasks, attempts, validation runs, worker events, Git results, pull requests, retry keys, forge events, logs, cleanups | about forty transactions | `TaskStore`, `TaskContract`, `FeedbackContract`, `TaskRefinement`; log rows in `PodLogs`, cleanup rows in `SecretCleanup`, due times in `ForgeInbox` |
| task controller | `internal/controller/{controller,reconcile,worker_events}.go` | none durable; what an operation read before its next call | `CreateTask`, `ReconcileAttempt`, `CancelTask`, `RetryTask`, `HandleWorkerEvent`, `WorkerLogsExhausted` | `Controller` |
| per-task locks | `internal/controller/locks.go` | map of reference-counted channels | `lock`, unlock, `release` | `KeyedLocks` |
| forge inbox | `internal/controller/forge_event.go` | events that settle, back off, run (in the store); the pass over them | `ProcessForgeEvents`, match, start, recover, complete, fail, dismiss, defer | `ForgeInbox`; the task's side in `Controller` |
| controller runtime | `internal/controller/runtime/runtime.go` | collectors, watches, timers | `CollectPodLogs`, `drainWorkerEvents`, Secret cleanup | `PodLogs`, `SecretCleanup`; parts in `Controller` |
| runtime backend | `internal/controller/runtime/backend.go` | followers of a log | `GetLogs`, `subscribe` | `PodLogs` |
| worker runner | `internal/worker/runner.go`, `worker/protocol/event.go` | a checkout, the fix counter | `Runner.Run` | `Worker` |
| worker Job | `internal/kubernetes/jobs/jobs.go` and Kubernetes | Jobs, Pods, Secrets | create, delete, finish, expire | `Cluster` |
| terminal dashboard | `internal/tui/{runner,actions,model}.go` | the view, requests in flight | keys, ticks, answers, the log stream | `Dashboard` |
| command line client | `internal/client/portforward.go`, `client.go` | a tunnel and its goroutines | start, reconnect, `Close` | `PortForward` |
| HTTP API and process | `internal/run/webhook.go`, `internal/api` | none | webhook delivery; API calls | `Webhook` of `ForgeInbox`; operations of `Controller` |
| worker utilities, forge providers, configuration, redaction | see `PROJECT.json` | none that decides a task | | not modelled |

### How they interact

The API and the webhook server call the controller; the runtime's watches and
its reconcile loop call it too. Every controller operation on a task takes that
task's lock (`KeyedLocks`), reads the task from the store, and then alternates
single-transaction store calls with Kubernetes and provider calls. Nothing is
atomic across two of those calls. Some things act without the lock: the log
collectors, which append lines and worker events to the store; the marking of a
handled event as processed; `FailForgeEvent` and the dismissal of events, which
may request a cancellation; webhooks, which accept events and move the quiet
period of others; Secret cleanup; and of course the cluster. A worker never
talks to the controller: its Pod prints `@@simpleswe:` lines, a collector stores
each as a worker event, `drainWorkerEvents` hands the stored events over in
order, and when the stream ends and the Pod is terminal `WorkerLogsExhausted`
declares the structured log complete. Only then may the Job's status decide the
task, and only then may the task be retried. Clients see tasks through the API,
often through a port forward: the dashboard polls lists and details and follows
one attempt's log.

### What is hard about it, and what correct means

*Store.* Callers re-send, arrive late and race: retries with a key, candidates
and receipts from several attempts on one branch, cancellation against
promotion, log lines of a dead attempt. Correct: receipts and retry keys are
final; a requested cancellation decides; no pull request, no PR_OPEN; running
feedback always belongs to the current attempt; superseded attempts are history;
a client that knows none of this sees only what `TaskContract` allows.

*Controller.* Any step may be the last before a timeout or a crash, and
everything is re-entered from the middle by an operation that sees only the
rows. Correct: CANCELLED means that no Job, no Pod and no Secret registered for
cleanup is left of the attempt (a Secret that was created when the process died
before it was registered has no row and stays, reconcile.go:355-357), and a
requested cancellation gets there; PR_OPEN means that the very commit that was
pushed passed validation; a ready pull request or accepted feedback is not
dropped; a Job's status never overrules a log that has not been read; the worker
of an attempt has ended when the task gets its next attempt, but for two steps of
the code that section 5 describes.

*Logs.* A stream ends for many reasons, is opened again at a whole second and
repeats lines, a Pod vanishes with its log, the end of a stream and the end of
the Pod are observed at different times. The quota keeps the oldest bytes and
puts a marker behind them. Correct: a line is stored once and in order, an event
is queued once even past the quota, the quota's bookkeeping is exact, a Pod is
closed when its events are processed, a follower sees no gap.

*Secret cleanup.* The watch, the recovery loop and timers of several Jobs of one
name decide about one Secret, minutes before they act. Correct: one cleanup per
attempt, never a Secret that a worker needs or that is not ours, none left.

*Forge inbox.* Events settle in a window that slides with each new comment,
without an upper bound; they are bound to an attempt, survive its failure and
retry, and back off when calls fail. Correct: nothing starts inside the quiet
period, a batch shares one fate, a fate is final, every event is decided.

*Locks.* Entries are shared, dropped and created again while others wait or
give up. Correct: mutual exclusion per task, no leak, no starvation.

*Clients.* Answers arrive late and out of order; requests are sent again.
Correct: panes that belong together, one task per submission, a list that
converges; one listener per forward, at one port, that comes back.

The list of hazards, each with its line, is in `PROJECT.json`.

## 2. Modules

`Lifecycle` is `state.go` as predicates on a pair of states: the forward edge,
FAILED and CANCELLED from everything not settled, retry, and the follow-up from
PR_OPEN, READY or FAILED. `Domain` declares the identities the store and the
controller share (attempts, commits, pull request numbers) and their assumptions.

`TaskStore` is one task's rows. Attempts are `1..current`; each variable is a
column or a table of the schema (`inbox`/`processed` are worker_events,
`runs` validation_runs, `git` git_results, `pr` pull_requests, `intents` the
retry keys, `forge` the events of the inbox). An action is one SQL transaction
with all it does: `Transition` also writes the attempt's row and closes running
commands where the code does, `RetryTaskOnce` inserts the attempt, copies what
it copies and rebinds the running forge events. `Can...` operators are the
conditions under which a transaction commits; an error is the absence of a step.
`StoreNext` lets any caller call anything at any time, so what holds of it does
not depend on the controller's discipline.

`TaskContract` is the abstract specification: a task works in rounds, a round
gets at most one receipt, nothing is published without it, a cancellation that
was asked for excludes every outcome but itself, and a round that continues a
pull request never opens another. It knows no worker, Job, log, event or key.
`TaskRefinement` maps the rows to it (`Phase`, `Line`, `Receipt`), and
`KeepsContract` says that the store implements it.

`FeedbackContract` is the other one, about the feedback on a task: it waits until a
round takes it, there is never feedback in the work of two rounds, it is answered
one by one, a failure takes all that its round still works on, a retried round
hands all of it on, and an outcome is final. Two modules model the rows of
forge_events, `TaskStore` without the clock and the pass, `ForgeInbox` without the
rest of the task. Both implement this contract (`KeepsFeedback` of
`TaskRefinement`, `KeepsFeedbackContract` of `ForgeInbox`, which shows each task the
events about it), so they agree on what they share.

`Worker` is the grammar of a worker's log. A log is the sequence of the events
printed so far, `MayPrint(log, e, origin)` says what may come next: agent,
publish, every validation command, and then a verdict, or a fix and a new
round while fixes are left; a follow-up must report the pull request its
manifest names and a commit that differs from the head it started at.

`Cluster` is external: the Jobs, Pods and Secrets of one task under the rules of
Kubernetes and the Job spec of `jobs.go` (no backoff, one Pod, foreground
deletion, deadline, TTL). A Job name is a function of the attempt; Jobs that
bear it one after another are *generations*, numbered over all attempts.

`Controller` composes the three. The lock admits one operation: `op` says which
(`call`), at which step (`pc`), on which attempt, and what it read earlier and
will still use (`exhausted`, `job`). One action is one transaction or one API
call with the reads before it, in the order of the code; thus `EnsureSecret`,
`Register`, `EnsureJob`, `Complete` are the calls of `ensureAttemptResources`,
and `CancelDelete` to `CancelEvents` those of `reconcileCancellation`. Between
two steps the cluster, the collectors (`reader`, one per Pod), `MarkProcessed`,
`ProcessForgeEvents` and `Crash` may act. `Abandon` ends an operation after any
step: an API error, a store error or a deadline; calls that create something
have in addition an outcome that takes effect and then reports an error. A crash
clears `op`, `startups`, `acks` and `reader` and nothing else. Provider
answers are nondeterministic: confirmed, denied for good, or not now.

`PodLogs` is one attempt's log with its bytes: what Pods print (`printed`), the
cursor of each Pod, the chunks, the usage row, the queued events, a collector
per Pod and one follower. A byte is the line it belongs to, a line has a
timestamp (two per second), a size and perhaps an event. `AppendPodLog` is the
whole transaction with deduplication, chunking, quota and trimming; the
collector opens a stream at the cursor's second, counts ordinals from there,
and may break, between lines or within one. `Follow`, `Poll` and `AskComplete`
are the follower of `backend.go`. A collector that starts again after an error
or with the process is `StreamFails` followed by `Collect`; the store survives.

`SecretCleanup` is one attempt's Secret. Threads are the Job watch and the
recovery loop, which deliver versions of Jobs late and in order, and the cleanup
goroutines with the map entry they share (`entry`). `ObserveJob`,
`MarkIneligible`, `Cancel`, `Guard`, `MarkEligible`, `StartCleanup` are the
calls of a pass, `CheckRow` to `CompleteCleanup` those of the goroutine that
`startSecretCleanup` starts; the
row's generation, Job UID and Secret UID are compared where the code does.

`ForgeInbox` is the inbox with its clock. `wait` is the time until an event is
due (relative, so that time need not grow), `line` the order of eligibility the
store's queries return, `pass` what `ProcessForgeEvents` holds between two
calls, `lock` who answers a task's events. Tasks are reduced to what the inbox
sees of them; `Controller` has the same operations from the task's side.

`Dashboard` is the event loop of the terminal client with its requests in
flight. Requests are in sets (`lists`, `details`) and answers may be applied in
any order; generations are kept as "still the latest one". `Elsewhere` is what
other clients do. `PortForward` is `PortForward.run` and one tunnel with its
goroutines. `KeyedLocks` is `locks.go` by critical section and channel
operation; it justifies the single `op` of `Controller`.

The `MC` modules are the instances: `MCTaskStore`, `MCController`, `MCPodLogs`,
`MCSecretCleanup`, `MCForgeInbox`, `MCDashboard`, and `MCHelpers`, which checks
`KeyedLocks` and `PortForward` in one run (a behaviour is one of either). The
`...Proofs` modules are the theorems. Operators with "Mutant" in the comment
next to a definition are that definition with a plausible bug; none is used,
they document which bug each property catches.

## 3. Runs

| run | configuration | asks |
|---|---|---|
| `store` | three attempts with pull requests, a key and feedback; or two attempts with worker events | do branches, receipts, feedback, cancellation, history and commands stay coherent, and does a client see only the contract, whatever callers do? |
| `attempt` | one attempt, two Jobs, a fix round (log of up to ten events) | does a task end as its worker's log says, through refused and lost calls, a Job that vanishes, timeouts and crashes? |
| `cancellation` | two attempts, two Jobs, feedback | does a requested cancellation end, for a first attempt and for a follow-up? |
| `follow_up` | three attempts from an open pull request, two Jobs, feedback | is feedback answered, released on cancellation, never half done; has the old worker stopped? |
| `pod_logs` | one Pod, three lines, a quota of five bytes | order, quota, events, closing, followers |
| `secret_cleanup` | two Jobs, two Secrets, two goroutines, the watch, a fault | the right Secret, once, and in the end |
| `forge_inbox` | a task, two events, a retry, a fault | quiet period, shared fate, the contract about feedback, and that every event is decided |
| `dashboard` | two tasks of two attempts, up to five keys, a fault | panes, submissions, selection, convergence of the list |
| `helpers` | three goroutines, two tasks, three entries; two Pods, two ports, three faults | the lock, and the tunnel |
| `retry_branch`, `log_replay`, `torn_line` | | the findings of section 5 |

The properties are stated, each with the code it is about, at the end of the
modules.

**Bounds.** `MaxAttempts`, `MaxJobs`, `MaxLines`, `Commands`, `MaxFixes` bound
attempts, Jobs ever created, the events a worker prints before it dies,
commands in a round, and fix rounds. Two attempts suffice for what a successor may
do to a predecessor, and three for a retry of a follow-up, the longest lineage
the code treats specially (open, follow-up, retry of it). Two worker events are
enough for one to overtake or repeat another's command. `attempt` has the whole
log of a fix round (one command and one fix); its two commits let the fixed
commit differ from the first. Attempts and Jobs beyond the bound are not created,
as if the caller never asked; no property assumes that they are. `follow_up` and
`cancellation` start in `FollowUpInit`, attempt 1 at PR_OPEN with its Job
expired, a state that TLC finds reachable from the initial state of `Spec`;
starting there leaves room for two more attempts that publish. In `PodLogs` two
timestamps of one second and one of the next, and sizes below and above the
chunk, reach every branch of deduplication and trimming; five bytes of quota with a
marker of three make every line one that may cross it. The clock of `ForgeInbox`
has one unit per delay, which is what its steps compare. `MaxFaults`,
`MaxPresses`, `MaxTears`, `MaxRetries` bound accidents and keys.

**Constraints** cut combinations that a run does not ask about, and name them:

- `LineageOrWorker` (`store`): pull requests, keys and feedback over three
  attempts, or worker events over two, not both; their tables meet only in the
  gates, which the runs of `Controller` exercise together.
- `ShortLogs` (`attempt`): two Jobs of one attempt print two lines together; one
  Job prints a whole log.
- `QuietWorker` (`cancellation`): the follow-up's worker prints at most one line,
  since the question is about passes and not about what is printed.
- `FewLongLines` (`pod_logs`, in the initial predicate): events are short lines,
  and one line is longer.
- `ReplacedAlone` (`secret_cleanup`): a foreign Secret appears in histories of one
  Job without faults.
- `FewAccidents` (`forge_inbox`): a stray event comes last; a fault or a retry.
- `FormAlone` (`dashboard`): beyond two keys and faults only the form is in use.

Behaviours that leave a constraint are not examined: `CancellationEnds`,
`SecretsAreRemoved`, `EventsAreDecided` and `ListConverges` are shown for those
that stay inside.

**Switches.** `PermanentErrors` lets the API refuse a creation for good (on in
`attempt`), `Expiry` lets a Job be deleted by its TTL or an operator, always in
the foreground (on in `attempt`, `follow_up`, `cancellation`), `SpuriousEOF`
lets a stream end before its Pod's log does (on in `log_replay` only: with it no
statement about unread lines can hold). `Tears` says where a broken stream may
cut a line; "content" is on in `torn_line` only.

**Deadlock** is not an error (`CHECK_DEADLOCK FALSE`): a settled task with nothing
left to reconcile, an empty inbox, a forward that was closed and a bounded clock
or key count all rightly stop. That something still happens when it must is
what the liveness properties say.

**Symmetry** is over commits and worker events in runs without liveness.

**Fairness**, and why the code justifies it:

- `LocksFairness`: a holder returns, because every call under the lock has a
  deadline; a Go channel serves blocked senders in the order they came, so a
  waiter is not passed over for ever (strong fairness of `Acquire`).
- `CancellationFairness`: an operation ends, at the latest by its timeout; the
  reconcile loop gets the lock again and again, which `WaitingEnds` says of the
  locks; a call that every pass makes succeeds at last (strong fairness: the
  failures in between are `Abandon`); Kubernetes carries out a deletion.
- `FairCleanupSpec`: the watch, the recovery loop and goroutines are scheduled,
  and a worker Job has a deadline.
- `FairInboxSpec`: time passes, the recovery loop polls, what goes on for a task
  ends. Webhooks are not fair: nobody owes the inbox an event.
- `DashFairness`: the ticker ticks, requests have timeouts, the loop's `select`
  forgets no channel. Nothing is assumed of the answers to detail requests,
  because each list answer cancels the one in flight (runner.go:361-370): with
  details slower than the refresh none arrives, and `ListConverges` says of them
  only that they are asked for.
- `ForwardFairness`: goroutines run, a forwarder that is told to stop does, and
  the Deployment gives the Service a Pod again.

## 4. Proofs

The assumptions are those the modules name (`DomainAssumption`,
`StoreAssumption`, `WorkerAssumption`, `ClusterAssumption`, `ControllerAssumption`,
`LocksAssumption`, `CleanupAssumption`, `InboxAssumption`, `ForwardAssumption`,
`DashboardAssumption`, `PodLogsAssumption`: "none" values are none, bounds are
numbers, a worker event is a line of a Job's log, a search matches tasks, the
quota has room for the marker, and the name that stands for the marker's bytes
is no Pod's); each is evaluated by a run.

**`TaskStoreProofs`**: for every number of attempts, events, commits, numbers,
keys and versions, `StoreSpec` keeps each safety property of the run `store`, and
three more that no run repeats: `StoreTypeOK`, `CancellationIsLive` and
`CancellationOwnsOutcome`. The proof goes group by group of `StoreNext`
(`LifecycleStep`, `AttemptStep`, `OtherSteps`, `ResultStep`, `ForgeStep` say what
a transaction of each group can do), so that a property only meets the details
that can disturb it.

- `StoreTypeOK`, `CancellationIsLive`, `PredecessorsAreSilent`,
  `PullRequestIsDurable` and `FeedbackOwnsCurrentAttempt` are inductive once the
  types are known. The reasons are the code's gates: a transition under a request
  goes to CANCELLED only, and clears it; a retry or follow-up needs a
  predecessor that is exhausted with nothing pending, and a superseded attempt
  accepts no line; the gate before PR_OPEN asks for a pushed commit, which the
  copied pull request row of a follow-up does not have; a retry rebinds running
  feedback in the transaction that moves `current`.
- `OnePullRequestPerBranch` is not inductive: nothing in it forbids a candidate
  row, which becomes open later, on a branch another attempt has. `SharedBranches`
  strengthens it: attempts that share a branch all have the *same open row*, from
  the moment of the insert, and a branch is named after no younger attempt.
- `ReceiptsAreFinal` needs `FutureRows`: an attempt not inserted yet has no pull
  request and no snapshot, so the copy made by an insert overwrites nothing.
- `AttemptsAreHistory` needs `PredecessorsAreSilent`, and `CancellationOwnsOutcome`
  needs `CancellationIsLive`: without them a superseded attempt could still
  process an event, a cancelling task could still be retried.
- `CommandsRunOnce` needs a table invariant per attempt (`RunTable`): at most one
  running row, and no event that starts or completes two rows.

**`TaskRefinementProofs`**: `StoreKeepsContract`, the store implements
`TaskContract` under the mapping of `TaskRefinement`. `InitRefines` maps the
initial state; `LifecycleRefines`, `AttemptRefines`, `ResultRefines` and
`ForgeRefines` map each group of transactions to a contract step or a stutter,
and `InnerSteps` the groups a client cannot see. They use the invariants of
`TaskStoreProofs` (types, `PullRequestIsDurable`, `CancellationIsLive`,
`FutureRows`) and `FutureGit`: a new round starts without a receipt because the
attempt's Git row is empty, whatever pull request row it is given.
`StoreKeepsFeedback`, the store implements `FeedbackContract`: a batch that
`FailRunningFeedback` finds running is all feedback in work, and so is the one a
retry rebinds, by `FeedbackOwnsCurrentAttempt`. No run checks `KeepsFeedback`: the
store's run checks that invariant, and the inbox's run the contract.

**`SecretCleanupProofs`**: `CompletedMeansGone`, `OneCleaner` and `OrphansOnly`,
for any number of goroutines, passes, Jobs, Secrets and faults. The goroutine
acts on what it found out several calls earlier. The invariant `Justified` says
that this is still true when it acts: past the guard the attempt is over; at the
deletion no worker runs and the UID was ours if it is still the one there; at
the completion the Secret is gone. `FindingsLast` is the reason: once the attempt
is over nothing creates a Job or a Secret of ours, and a UID is used once
(`WorldStep`). `GoesOn`, `GoesTo`, `EndsKeeping` and `BlockedKeeps` are the few
ways a thread moves; each action is one of them.

**`ForgeInboxProofs`**: `BatchFailsTogether`, `FatesAreFinal`,
`InboxKeepsContract` and `QuietPeriodHolds`, for any tasks, events, retries, faults, delays and limits of a
pass. Nothing is said of what a pass or an operation has listed: the argument
rests on what each transaction checks again. A step accepts an event, ends a
batch, starts or retries one, or leaves all fates alone (`EventStep`); with
`BoundOnce` (no event is bound to an attempt later than its task's current one)
each of these keeps `FailedTogether`, which is therefore inductive, and leaves
final events alone. The refinement needs more: a batch that still ran for an
older attempt could fail while the task works on another. `OwnsCurrent` (what runs
does so for the task's current attempt) excludes it; it is inductive because a
follow-up finds nothing running for that attempt and a retry takes all of it.
`EventStepRefines` then maps each of the four ways to a step of the contract
or, for the tasks it is not about, to none, and `InboxRefinesContract` says the same as
`FeedbackOn(t)!FeedbackSpec` for each task `t`. For the quiet period `QuietInv` relates two clocks: the
deadline of a comment that never failed is not before the end of the quiet
period on its head. Webhooks set the two together, time moves them together, a
deferral only moves the deadline on, and every other step is `Calm`.

**`HelperProofs`**, on `PortForward`: `TunnelsDoNotLeak` and `PortStays`, for any Pods, ports
and faults. What the loop does rests on what the goroutines report: `done` means
that forwarding has returned (`DoneMeansEnded`), readiness without an error names
the port of the listener (`ReadyOnce`), and a replacement's listener has the port
kept so far (`BoundOnce`).

**`HelperProofs`**, on `KeyedLocks`: mutual exclusion, exact entries and the type
invariant for any finite set of goroutines and any tasks and entries. `LocksTypeOK` is not
inductive: `refs` stays in `Nat` only because an entry's count *is* the number
of goroutines that refer to it. The invariant `LocksInv` says that; that every
goroutine that has entered refers to the entry its key maps to; that no two
keys share an entry; that a key has an entry only while somebody refers to it;
and that a full channel has exactly one holder.

**`ControllerProofs`**: about the whole of `Spec`, for any number of attempts,
Jobs, lines, commands, fixes, commits, numbers, keys and forge events, with any
API call failing, refused for good or not, and a crash after any step.

- `ControllerInv` is the inductive invariant everything rests on: the types;
  `OperationIsCurrent`, the operation under way works on the current attempt
  (nothing else starts one, the lock is held); `JobsBelong`, a Job and its reader
  belong to an attempt that exists; `EventsWerePrinted`, an event that is stored,
  processed, being handled or waiting to be marked is a line in the log of a Pod
  of its attempt. `ControllerTypeOK` alone is not inductive: a call to the store
  takes its arguments from what an operation remembers, and that they are
  arguments the store knows is what the other parts say.
- `ControllerRunsTransactions` is the bridge to the store: under that invariant
  each step is one transaction of `StoreNext` or leaves the rows alone
  (`StoreStep`), so `Spec` implements `StoreSpec`, and every theorem above holds of
  the controller with its cluster, readers and crashes;
  `ControllerKeepsContract` follows: the whole system is seen by a client as
  `TaskContract`; and `ControllerKeepsFeedback`: it treats feedback as
  `FeedbackContract` says.
- `OutcomeAfterLog`: `LogWasRead` carries what an operation read about the log to
  the step at which a Job's status fails the task.
- `CancellationConfirmed` and `CancellationReleases`: `CancellationInOrder` says
  what each step of a cancellation has established (request durable, Jobs and
  Pods gone, Secret gone, log closed, feedback released) and that the rest of the
  system cannot undo it: Jobs, Pods, Secrets and reads of the current attempt
  come from the lock's holder only (`NothingReturns`, `SecretStaysGone`).
- `ReadyKept`: `ReadyIsDone` follows an event from its handling over the
  acknowledgement, which a crash may lose, to the mark on its row.
- `FeedbackAnswered`: `FeedbackInOrder` adds that feedback is completed only by
  an operation that has seen the receipt, and that unbound events are unbound.
- `PushedPassed`: `LogInOrder` is the worker's side (a ready event ends a log
  whose last round passed, and names that round's commit), `PushedWasReady` the
  store's: a receipt comes from such an event, for any number of rounds. The
  invariant names the last publish of a log explicitly, so that no step has to
  find the greatest element of a set of numbers.

Few lemmas carry the case analysis: `OperationStep` (how a step moves the
operation, from `StartupBegins` and `OperationBegins` on, and with `Entered` which step can enter a `pc`), `Writers` and
`StoreWrites` (which transaction a changed table implies), `ClusterMoves` (what may
happen to a Job, a Pod, a Secret), `RowsGrow` and `CurrentKept` (what is only
added).

- `PredecessorsHaveStopped` and `OnlyTwoStepsLeaveWorkers`: the worker of an attempt
  has ended when the attempt has a successor. The code breaks this by two steps, and
  the theorems name them and prove that there is no third. `RefusedBesideWorker` is
  a creation that the API refuses for good while a worker of the attempt runs
  (reconcile.go:107); `BarrierBesideWorker` is `WorkerLogsExhausted` of a Job that was
  deleted while a worker of the Job created in its place runs
  (worker_events.go:524). Every run without the first keeps `PredecessorsStopped`
  (first Jobs); every run without either keeps `AllPredecessorsStopped` (every Job).
  The hypotheses exclude steps and not instances: permanent errors that meet no
  worker, and late barriers that meet none, are in these runs. Section 5 says what
  the two steps lead to.

  A successor needs a closed log (`PredecessorsAreSilent`, from the store), so the
  invariant `WorkersInOrder` says when a log may be closed. It is stated once with a
  parameter, first Jobs or all Jobs. Pods run under active Jobs only, and an
  attempt has one Job at a time (`JobsInOrder`). A reader that saw its stream end
  saw its worker end. An operation that may create a Job, or that decides because
  the Job is finished or missing, has no other worker beside it (`PlaceInOrder`).
  Behind a closed log there is no worker, or the task is *undecided*
  (`ClosedLogs`): reconciliation may create a Job beside a closed log, but only
  where the task has neither failed nor a pull request, and where either a
  cancellation is requested, so that no next attempt follows, or nothing is pushed
  and no event is waiting but first lines. A closed log takes no more events, and
  the first line of a worker's log only says that its agent started
  (`FirstLines`, with `EventsInOrder`), so such a task can end in no way but one
  that looks for the worker.

**`DashboardProofs`**: `PanesStayTogether`, `SubmissionsMakeOneTask` and
`SelectionStays`, for any tasks, attempts, page lengths, searches, keys pressed
and faults. `DashInv` (`DashboardInvariant`) has three parts beside the types,
because no property is inductive by itself.

- `PanesAgree` needs `StreamIsOpen`: a message in the channel that is still in time
  came from the stream the panes name. `StartLogs` makes the old ones stale in the
  step that changes the stream. Each operator on the view has its lemma
  (`SelectTaskSound`, `ReconcileSound`, `ShowTasksSound`, `ShowAttemptSound`,
  `ShowCreatedSound`), and `ViewStep` puts them together; it also says how a step
  may move rows and requests (`ListMoves`).
- `SelectionSurvives` needs `ListsInOrder`: tasks that exist are the oldest numbers
  and only more come; one list request is the latest; if it has been answered, its
  answer has every row that is both shown and still listed. Rows that somebody
  else's task pushed off the page are gone from `Listed` too, so an answer that is
  older than the task loses nothing that is listed; the answer to a create would,
  and makes that request stale. That the selection itself stays, and not only its row, is
  `SelectionMoves`: only a selection that is no longer shown is moved.
- `OneTaskPerSubmission` needs `FormInOrder`: submissions are numbered without gaps,
  each has one key, each key one content and at most one task, the form holds
  the key of the last one, and a fresh key is left because there are no more
  entries in `sent` than keys pressed.

That the first row a search shows has an index, and that a fresh key exists, is
`LeastElement`: every set of numbers that is not empty has a least element. The
library states induction with an operator as parameter only; the lemma comes
from counting instead (without a least element, the successor would map a finite
interval into a smaller one).

The proof found two flaws in what the model had said. `ShowTasks` was a `CASE` whose
guards overlapped, of which TLA+ may take any; the code takes the first. And
`SelectionSurvives` included the answer to a create, which selects another task and
with a full page may push the old one out; it now says so.

**`PodLogsProofs`**: every property of the run `pod_logs`, and the types, for any Pods, lines,
timestamps, quota, chunk size and marker, with appends of several collectors,
crashes and followers interleaved. Each has its own inductive invariant on top of
`StoreInv`: types, chunks numbered from 1 without a gap, and `QuotaHolds`.

- First comes what the operators do. `FlattenAppend` unfolds the library's fold
  once; by induction over the number of chunks, `ContentConcat` and `ContentSplit`
  say that content respects concatenation and cuts. `ChunkedFacts` (chunking
  adds the bytes and nothing else), `TrimmedFacts` (trimming leaves the oldest
  bytes) and `StoreBytesFacts` (an append that crosses the quota leaves the first
  `MaxBytes - MarkerBytes` bytes of log and line together, then the marker) follow.
  `QuotaIsKept` needs no more.
- `ClosedPodsStayDrained`: a closed Pod's collector is idle for good, so nothing can
  be queued any more, and one on its way to close it has drained (`DrainedInv`).
- `FollowersMissNothing`: the follower holds the chunks from where it began to its
  cursor (`FollowerInv`), and an uncut log only grows behind it.
- `EventsQueuedOnce`: a Pod's cursor is always *at one of its lines* (`AtLine`), the
  collector's stream began where no later line shares a timestamp with an
  earlier one and has skipped none (`InOrder`), and the inbox has the events up to
  that line (`Queued`). So the ordinal a collector counts is the line's place
  among those of its timestamp (`OrdinalIsRank`), wherever the stream was opened,
  and `Duplicate` holds of exactly the lines up to the cursor (`LinesBefore`).
- `StoredLinesAreAPrefix` adds that, until the log is cut, the bytes stored of
  a Pod are *all* of the lines up to the one its cursor is at (`PrefixInv`); the cut
  leaves a beginning of that (`SelectionCut`).

The last two have the hypothesis `"content" \notin Tears`: where a stream may break
within a line's content they are false (finding 3, run `torn_line`). Breaks within
a timestamp are included. For these proofs the module's operators on chunks
are written with positions and `SubSeq`, where a fold would select, and the
properties with the positions of a Pod's bytes; the state space is the same.

Induction over numbers is `NumbersInduction`: a set of numbers that has 0 and
with each number the next has them all, from `LeastElement`. It takes a set
and not an operator, so that the provers can instantiate it.

**Only model-checked**: the liveness
properties (`CancellationEnds`, `WaitingEnds`, `ForwardSettles`, `SecretsAreRemoved`,
`EventsAreDecided`, `ListConverges`), since liveness under fairness is beyond TLAPS. Every
invariant that a passing run checks has its theorem, for the whole module or, where
a hypothesis is named above, for the instances or the runs that satisfy it.

## 5. Findings

1. *A retry does not always open a task branch.* README.md:341 says that a retry
   creates "a new attempt, Job, task branch, and history entry".
   `retryTaskOnce` does so unless the failed attempt was a forge follow-up: then
   it keeps the pull request's branch. The tests want the code's behaviour; the
   sentence is too broad. (`retry_branch`)
2. *A log can be declared replayed with lines unread.* `CollectPodLogs` takes a
   clean end of the stream for the end of the log if the Pod is terminal when it
   asks afterwards (runtime.go:473). Lines printed between the two are never
   read and, once the attempt is exhausted, refused. worker_events.go:521 says
   that the mark "durably records that structured replay has finished".
   (`log_replay`)
3. *An attempt can be declared replayed without an event that was cut.*
   `readPodLogStream` stores what it has read of a line when the read fails in the
   middle of it (runtime.go:551), and the cursor takes its timestamp and ordinal.
   The run's trace goes on: the stream is opened again, the complete line counts as
   a duplicate, the stream ends, the Pod is found terminal, and the attempt is
   marked exhausted without the lifecycle event in that line. worker_events.go:521
   says that the mark "durably records that structured replay has finished".
   (`torn_line`)

Seen while modelling, and kept as hazards rather than findings, because no
sentence of the repository promises otherwise:

- The second worker of an attempt may run beside its successor's, so
  `PredecessorsStopped` speaks of first Jobs: `WorkerLogsExhausted` reads a failed
  Job, waits for the lock, meanwhile the Job is deleted and reconciliation creates
  it again; the old verdict then fails the task while the new Job's worker runs,
  and a retry starts a second one. It takes one more Job than `follow_up` has.
- A permanent API error that reconciliation meets while it adopts the Job of a
  running attempt (Forbidden on the Secret, say) closes the log and fails the task
  without deleting the Job (reconcile.go:107), and a retry starts beside its
  worker. So `follow_up` has `PermanentErrors` off. The theorems have them on:
  `OnlyTwoStepsLeaveWorkers` proves that this step and the one above are the only ways to
  two workers.
- A Secret created when the process dies before `RegisterSecretCleanup` has no row.
  A cancellation that comes before the Job is created again finds nothing to
  delete (reconcile.go:355-357), and the Secret stays after CANCELLED.
- A Job recreated while the task is VALIDATING with a running command prints a
  second `validation_started`, which the store refuses as long as the row runs;
  the event stays pending and only a cancellation ends the task.
- A follower may be closed with the last lines unread: `subscribe` asks whether the
  attempt is complete after a read that found nothing (backend.go:436).
- Making room for the truncation marker deletes the newest chunks and the marker
  takes their sequence, so a follower that had read them never sees it
  (operational.go:226).
- `RecordForgeEventErrorAfter` has no due check and can shorten a quiet period
  that a delivery has just moved.
- A form changed and changed back gets a fresh key, so its first content can be
  created twice; the confirmation dialog acts on the task selected when `y` is
  pressed; each list answer cancels the detail request in flight, so
  details slower than the refresh are never shown.

## 6. Not modelled, and what an absence means

- Two tasks that could match one event, the provider calls and the text of a
  follow-up. Controller errors that differ only in their message are one error.
- Two Pods in `pod_logs`: the module has them (a Job created again writes into the
  same attempt), the instance has one, because two multiply its state space; the
  composition over several Pods is checked in `attempt`, with events only.
- Background deletion of Jobs by an operator: `jobs.go` and the controller
  delete in the foreground, and "gone Job" means "gone Pod" only then.
- Observation rows of Pods and Jobs beyond the cleanup's, schema migration,
  listing queries with their paging.
- The legacy `branch_pushed` event, repository configuration that changes
  between attempts, URL checks, redaction, manifests.
- Drawing (`tui/render.go`), themes, scrolling, the shell, the ring buffer of log
  lines; `client.go`'s encoding and `WaitTask`; `config`, `redaction`, `forge`
  (HTTP clients and parsers), `worker.go`, `report.go`, `manifest.go`, `metrics.go`,
  wiring and shutdown: pure I/O, parsing or layout, functions of their input that
  hold no state another component could see change.

## 7. What is left

1. A run of `pod_logs` with two Pods, and of `forge_inbox` with two tasks that
   compete for one event.
