----------------------------- MODULE ForgeInbox -----------------------------
(***************************************************************************)
(* The inbox of webhook events: the transactions of store/forge_event.go   *)
(* and ProcessForgeEvents of controller/forge_event.go, which matches      *)
(* events with tasks, gathers review comments and starts follow-ups, in a  *)
(* time that is relative: every incomplete event knows how long it waits.  *)
(*                                                                         *)
(* Tasks are here what the inbox sees of them; modules TaskStore and       *)
(* Controller have them in full, with feedback that is simply there.       *)
(***************************************************************************)
EXTENDS Integers, FiniteSets, SequencesExt

CONSTANTS
  Tasks,        \* each has at most one pull request
  Nobody,       \* a pull request that belongs to no task
  MaxEvents,    \* bound on accepted events; they are numbered as accepted
  MaxHeads,     \* bound on the heads a pull request had
  MaxRetries,   \* bound on retries of a task
  MaxFaults,    \* bound on failures of calls and crashes
  WindowSize,   \* limit of a pass: forgeEventBatchSize
  BatchSize,    \* limit of a follow-up: forgeEventBatchSize
  ReviewDelay,  \* controller.review_debounce
  YieldDelay,   \* forgeEventYieldDelay
  MaxDelay      \* longest delay after a failure

ASSUME InboxAssumption ==
  /\ Nobody \notin Tasks
  /\ {MaxEvents, WindowSize, BatchSize, ReviewDelay, YieldDelay, MaxDelay} \subseteq Nat \ {0}
  /\ {MaxHeads, MaxRetries, MaxFaults} \subseteq Nat

VARIABLES
  posted,  \* events 1..posted are accepted
  event,   \* forge_events
  line,    \* incomplete events in the order of eligibility
  rest,    \* event -> time since the last comment on the same head (history)
  task,    \* task -> its row, current attempt and pull request
  lock,    \* task -> who is answering its events under the task's lock, and which
  pass,    \* ProcessForgeEvents
  faults

inboxVars == <<posted, event, line, rest, task, lock, pass, faults>>

Events == 1..MaxEvents
Heads == 0..MaxHeads  \* 0: the event names no commit

NoEvent == [status |-> "away", kind |-> "review", about |-> Nobody, head |-> 0,
            wait |-> 0, tries |-> 0, attempt |-> 0]
NewTask == [phase |-> "first", attempt |-> 1, pushed |-> 0, drained |-> FALSE,
            cancelling |-> FALSE, retries |-> 0]
Unlocked == [by |-> "none", listed |-> {}]
IdlePass == [pc |-> "idle", todo |-> <<>>, seen |-> {}, batch |-> {}, error |-> "none"]

InboxInit ==
  /\ posted = 0 /\ event = [e \in Events |-> NoEvent] /\ line = <<>>
  /\ rest = [e \in Events |-> 0]
  /\ task = [t \in Tasks |-> NewTask]
  /\ lock = [t \in Tasks |-> Unlocked]
  /\ pass = IdlePass
  /\ faults = 0

Has(status) == {e \in Events : event[e].status = status}
Incomplete == Has("pending") \cup Has("running")
Due(e) == event[e].wait = 0
Bound(t, a) == {e \in Events : event[e].about = t /\ event[e].attempt = a}
RunningOf(t) == Bound(t, task[t].attempt) \cap Has("running")
Settled(t) == task[t].phase \in {"ready", "failed", "cancelled"}

-----------------------------------------------------------------------------
(* Transactions of the inbox *)

(* Mutant: a pass takes the events in the order of acceptance. *)
ReorderAccepted(moved, wait) == SetToSortSeq(moved \cup ToSet(line), <)

(* Events that get another deadline line up behind those eligible by then.  *)
Reorder(moved, wait) ==
  LET others == SelectSeq(line, LAMBDA e : e \notin moved)
      before == {i \in DOMAIN others : event[others[i]].wait <= wait}
      cut == CHOOSE n \in 0..Len(others) : before = 1..n
  IN SubSeq(others, 1, cut) \o SetToSortSeq(moved, <) \o SubSeq(others, cut + 1, Len(others))

Delay(moved, wait) ==
  /\ event' = [e \in Events |-> IF e \in moved THEN [event[e] EXCEPT !.wait = wait] ELSE event[e]]
  /\ line' = Reorder(moved, wait)

(* Review comments on the same head of the same pull request. *)
SameHead(e) ==
  {f \in Events : /\ event[f].kind = "review" /\ event[f].about = event[e].about
                  /\ event[f].head = event[e].head /\ event[e].head # 0}

(* RecordForgeEvent...ErrorAfter: delays double up to a bound, unless the   *)
(* provider asks for more.                                                  *)
Backoff(es) ==
  LET tries == {event[e].tries : e \in es}
      worst == CHOOSE n \in tries : \A m \in tries : m <= n
  IN IF 2 ^ worst < MaxDelay THEN 2 ^ worst ELSE MaxDelay

RecordError(es, tries) ==
  \E wait \in {Backoff(es), MaxDelay} :
    /\ event' = [e \in Events |-> IF e \in es
                   THEN [event[e] EXCEPT !.wait = wait, !.tries = tries[e]] ELSE event[e]]
    /\ line' = Reorder(es, wait)

(* The delay stops to grow, and so does this count. *)
Tried(e) == IF event[e].tries = 0 \/ 2 ^ event[e].tries < MaxDelay
            THEN event[e].tries + 1 ELSE event[e].tries

RecordEventError(e) ==
  IF e \in Incomplete THEN RecordError({e}, [f \in {e} |-> Tried(f)]) ELSE UNCHANGED <<event, line>>

(* validateForgeEventOutcomeBatch: due and pending, or all that still run   *)
(* for an attempt.                                                          *)
SelectedPending(es) == es \subseteq Has("pending") /\ \A e \in es : Due(e)
SelectedRunning(es) ==
  \E e \in es : es \subseteq Has("running")
                /\ es = Bound(event[e].about, event[e].attempt) \cap Has("running")

RecordBatchError(es) ==
  LET most == CHOOSE n \in {Tried(e) : e \in es} : \A e \in es : Tried(e) <= n
  IN IF SelectedPending(es) THEN RecordError(es, [e \in es |-> Tried(e)])
     ELSE IF SelectedRunning(es) THEN RecordError(es, [e \in es |-> most])
     ELSE UNCHANGED <<event, line>>

End(es, status) ==
  /\ event' = [e \in Events |-> IF e \in es
                 THEN [event[e] EXCEPT !.status = status, !.wait = 0] ELSE event[e]]
  /\ line' = SelectSeq(line, LAMBDA e : e \notin es)

(* A failing batch takes its follow-up with it while that is not over. *)
CancelFollowUp(t, a) ==
  task' = IF t \in Tasks /\ task[t].attempt = a /\ ~Settled(t)
          THEN [task EXCEPT ![t].cancelling = TRUE] ELSE task

(* Mutant: the other comments of the batch stay behind. *)
FailForgeEventAlone(e) ==
  /\ e \in Incomplete /\ End({e}, "failed")
  /\ IF event[e].status = "running"
     THEN CancelFollowUp(event[e].about, event[e].attempt) ELSE UNCHANGED task

FailForgeEvent(e) ==
  IF event[e].status = "running"
  THEN /\ End(Bound(event[e].about, event[e].attempt) \cap Has("running"), "failed")
       /\ CancelFollowUp(event[e].about, event[e].attempt)
  ELSE IF e \in Incomplete THEN End({e}, "failed") /\ UNCHANGED task
  ELSE UNCHANGED <<event, line, task>>

FailForgeEventBatch(es) ==
  IF SelectedPending(es) THEN End(es, "failed") /\ UNCHANGED task
  ELSE IF SelectedRunning(es)
  THEN /\ End(es, "failed")
       /\ \E e \in es : CancelFollowUp(event[e].about, event[e].attempt)
  ELSE UNCHANGED <<event, line, task>>

(* Mutant: whatever has become of the event in the meantime. *)
MarkForgeEventHandledBlindly(e) == End({e}, "handled")

MarkForgeEventHandled(e) ==
  IF e \in Incomplete THEN End({e}, "handled") ELSE UNCHANGED <<event, line>>

-----------------------------------------------------------------------------
(* Webhooks and time *)

(* What a newly accepted event slides with it. *)
Arrived(e, new) ==
  IF new.kind = "gate" THEN {e}
  ELSE {e} \cup {f \in Has("pending") : /\ event[f].kind = "review" /\ event[f].about = new.about
                                        /\ event[f].head = new.head /\ new.head # 0}

(* PutForgeEventAfter: accepted once; a new review comment slides those that *)
(* wait on the same head.                                                   *)
PutForgeEvent(e, kind, about, head) ==
  IF e <= posted THEN UNCHANGED <<posted, event, line, rest>>
  ELSE LET new == [NoEvent EXCEPT !.status = "pending", !.kind = kind,
                                  !.about = about, !.head = head]
           moved == Arrived(e, new)
           wait == IF kind = "review" THEN ReviewDelay ELSE 0
       IN /\ posted' = e
          /\ event' = [f \in Events |-> IF f \in moved
                         THEN [(IF f = e THEN new ELSE event[f]) EXCEPT !.wait = wait]
                         ELSE event[f]]
          /\ line' = Reorder(moved, wait)
          /\ rest' = [f \in Events |-> IF f \in SameHead(f) /\ event[f].about = about
                                          /\ event[f].head = head /\ kind = "review"
                                       THEN 0 ELSE rest[f]]

(* A commit may be named before the controller knows that it is pushed; a   *)
(* delivery is repeated with the same content.                              *)
Webhook ==
  /\ \/ \E e \in 1..posted : PutForgeEvent(e, event[e].kind, event[e].about, event[e].head)
     \/ \E kind \in {"review", "gate"}, about \in Tasks \cup {Nobody}, head \in Heads :
          /\ posted < MaxEvents
          /\ about \in Tasks => head <= task[about].pushed + 1
          /\ kind = "gate" => head # 0
          /\ PutForgeEvent(posted + 1, kind, about, head)
  /\ UNCHANGED <<task, lock, pass, faults>>

Tick ==
  /\ \/ \E e \in Incomplete : event[e].wait > 0
     \/ \E e \in Has("pending") : rest[e] < ReviewDelay
  /\ event' = [e \in Events |-> IF event[e].wait > 0 THEN [event[e] EXCEPT !.wait = @ - 1]
                                ELSE event[e]]
  /\ rest' = [e \in Events |-> IF e \in Has("pending") /\ rest[e] < ReviewDelay
                               THEN rest[e] + 1 ELSE rest[e]]
  /\ UNCHANGED <<posted, line, task, lock, pass, faults>>

Fault == faults < MaxFaults /\ faults' = faults + 1
KeepInbox == UNCHANGED <<posted, rest>>

-----------------------------------------------------------------------------
(* ProcessForgeEvents *)

PassAt(pc) == pass.pc = pc
Seed == Head(pass.todo).event
NextEvent == [pass EXCEPT !.pc = "next", !.todo = Tail(@), !.batch = {}, !.error = "none"]
Goto(pc) == pass' = [pass EXCEPT !.pc = pc]
Stop(pc, error) == pass' = [pass EXCEPT !.pc = pc, !.error = error]

(* ListIncompleteForgeEvents, as they are now. *)
ListIncomplete ==
  /\ PassAt("idle")
  /\ LET due == SelectSeq(line, Due)
         first == SubSeq(due, 1, IF Len(due) < WindowSize THEN Len(due) ELSE WindowSize)
     IN pass' = [IdlePass EXCEPT !.pc = "next",
          !.todo = [i \in DOMAIN first |-> [event |-> first[i], status |-> event[first[i]].status,
                                            attempt |-> event[first[i]].attempt]]]
  /\ KeepInbox /\ UNCHANGED <<event, line, task, lock, faults>>

(* ListDueForgeEventBatch: the oldest comments on the seed's head. *)
DueBatch(e) ==
  LET siblings == {f \in SameHead(e) \cup {e} : event[f].status = "pending" /\ Due(f)}
  IN IF event[e].kind = "gate" THEN {e}
     ELSE {f \in siblings : Cardinality({g \in siblings : g <= f}) <= BatchSize}

Take ==
  /\ PassAt("next")
  /\ IF pass.todo = <<>> THEN pass' = IdlePass
     ELSE LET seed == Head(pass.todo)
              associated == Bound(event[seed.event].about, seed.attempt)
          IN IF seed.event \in pass.seen THEN pass' = NextEvent
             ELSE IF seed.status = "running"
             THEN pass' = [pass EXCEPT !.pc = "recover", !.seen = @ \cup associated,
                                       !.batch = associated \cap Has("running")]
             ELSE IF DueBatch(seed.event) = {} THEN pass' = NextEvent
             ELSE pass' = [pass EXCEPT !.pc = "match", !.batch = DueBatch(seed.event)]
  /\ KeepInbox /\ UNCHANGED <<event, line, task, lock, faults>>

(* forgeEventMatchesTask, for a task the event's pull request belongs to.   *)
(* A commit decides about a quality gate: that of the last push is owned,   *)
(* another may be the current attempt's.                                    *)
Match(e) ==
  LET t == event[e].about
  IN IF t = Nobody \/ task[t].cancelling \/ task[t].phase \in {"failed", "cancelled"} THEN "unowned"
     ELSE IF task[t].phase \in {"first", "candidate"} THEN "settling"
     ELSE IF event[e].kind = "review" \/ event[e].head = task[t].pushed THEN "owned"
     ELSE IF task[t].phase = "running" THEN "settling" ELSE "unowned"

MatchEvent ==
  /\ PassAt("match")
  /\ \/ /\ pass' = [pass EXCEPT !.pc = Match(Seed),
                                !.seen = IF Match(Seed) = "owned" THEN @ \cup pass.batch ELSE @]
        /\ UNCHANGED faults
     \/ Fault /\ \E error \in {"transient", "permanent"} : Stop("recordOne", error)
  /\ KeepInbox /\ UNCHANGED <<event, line, task, lock>>

(* DeferForgeEvent yields to others without a mark on the event. *)
Defer(es) ==
  LET early == {e \in es : event[e].wait < YieldDelay}
  IN IF early = {} THEN UNCHANGED <<event, line>> ELSE Delay(early, YieldDelay)

DeferSettling ==
  /\ PassAt("settling")
  /\ Defer({Seed} \cap Has("pending")) /\ pass' = NextEvent
  /\ KeepInbox /\ UNCHANGED <<task, lock, faults>>

Dismiss ==
  /\ PassAt("unowned")
  /\ MarkForgeEventHandled(Seed) /\ pass' = NextEvent
  /\ KeepInbox /\ UNCHANGED <<task, lock, faults>>

(* Mutant: events in work do not keep the next ones waiting. *)
CanFollowUpBusy(t) == task[t].phase = "ready" /\ task[t].drained

CanFollowUp(t) == task[t].phase = "ready" /\ task[t].drained /\ RunningOf(t) = {}

(* Mutant: the deadlines are not looked at again. *)
StillDueForgotten(es) == TRUE
StillDue(es) == \A e \in es : Due(e)

(* validateForgeEventBatch reads the batch again.  (A batch that already    *)
(* runs would be replayed: a pass comes to running events in "recover".)    *)
StillPending(es, t) == es \subseteq Has("pending") /\ \A e \in es : event[e].about = t

(* startForgeEvent up to StartForgeEventAttempt; the provider is asked.     *)
StartForgeEvent(t) ==
  /\ PassAt("owned") /\ t = event[Seed].about /\ lock[t].by = "none"
  /\ LET es == pass.batch
     IN \/ /\ \E e \in es : Match(e) # "owned"
           /\ Stop("record", "transient") /\ UNCHANGED <<event, line, task, faults>>
        \/ /\ \A e \in es : Match(e) = "owned"
           /\ Fault /\ \E error \in {"transient", "permanent"} : Stop("record", error)
           /\ UNCHANGED <<event, line, task>>
        \/ /\ \A e \in es : Match(e) = "owned"
           /\ UNCHANGED faults
           /\ IF StillPending(es, t) /\ ~StillDue(es)
              THEN pass' = NextEvent /\ UNCHANGED <<event, line, task>>
              ELSE IF ~StillPending(es, t) \/ ~CanFollowUp(t)
              THEN Stop("record", "transient") /\ UNCHANGED <<event, line, task>>
              ELSE /\ task' = [task EXCEPT ![t].attempt = @ + 1, ![t].phase = "queued",
                                           ![t].drained = FALSE]
                   /\ event' = [e \in Events |-> IF e \in es
                        THEN [event[e] EXCEPT !.status = "running", !.attempt = task'[t].attempt,
                                              !.tries = Tried(e), !.wait = 0] ELSE event[e]]
                   /\ Goto("launch") /\ UNCHANGED line
  /\ KeepInbox /\ UNCHANGED lock

(* startAttempt: an error is permanent when Kubernetes refuses the Job.     *)
Launch(t) ==
  /\ PassAt("launch") /\ t = event[Seed].about /\ lock[t].by = "none"
  /\ LET recovering == Head(pass.todo).status = "running"
         starts == task[t].phase = "queued" /\ ~task[t].cancelling
     IN \/ /\ task' = IF starts THEN [task EXCEPT ![t].phase = "running"] ELSE task
           /\ IF recovering THEN Goto("recovered") ELSE pass' = NextEvent
           /\ UNCHANGED faults
        \/ starts /\ Fault /\ Stop("record", "transient") /\ UNCHANGED task
        \/ /\ starts /\ Fault
           /\ task' = [task EXCEPT ![t].phase = "failed", ![t].drained = TRUE]
           /\ Stop(IF recovering THEN "recordOne" ELSE "record", "permanent")
  /\ KeepInbox /\ UNCHANGED <<event, line, lock>>

(* persistForgeEventFailure, without the lock *)
RecordOne ==
  /\ PassAt("recordOne") /\ pass' = NextEvent
  /\ IF pass.error = "permanent" THEN FailForgeEvent(Seed)
     ELSE RecordEventError(Seed) /\ UNCHANGED task
  /\ KeepInbox /\ UNCHANGED <<lock, faults>>

(* persistForgeEventBatchFailure *)
Record ==
  /\ PassAt("record") /\ pass' = NextEvent
  /\ IF pass.batch = {} THEN UNCHANGED <<event, line, task>>
     ELSE IF pass.error = "permanent" THEN FailForgeEventBatch(pass.batch)
     ELSE RecordBatchError(pass.batch) /\ UNCHANGED task
  /\ KeepInbox /\ UNCHANGED <<lock, faults>>

(* recoverRunningForgeEvent: a pushed follow-up is completed if the         *)
(* provider shows its head, any other is started again.                     *)
RecoverRunning(t) ==
  /\ PassAt("recover") /\ t = event[Seed].about /\ lock[t].by = "none"
  /\ LET due == {e \in RunningOf(t) : Due(e)}
     IN IF event[Seed].status # "running" \/ (task[t].phase \in {"pushed", "ready"} /\ due = {})
        THEN Goto("recovered") /\ UNCHANGED <<event, line, task, lock, faults>>
        ELSE IF task[t].phase \in {"pushed", "ready"}
        THEN \/ /\ lock' = [lock EXCEPT ![t] = [by |-> "pass", listed |-> due]]
                /\ Goto("answer") /\ UNCHANGED <<event, line, task, faults>>
             \/ /\ Fault /\ RecordBatchError(RunningOf(t))
                /\ Goto("recovered") /\ UNCHANGED <<task, lock>>
             \/ /\ Fault /\ FailForgeEvent(Seed)
                /\ Goto("recovered") /\ UNCHANGED lock
        ELSE \/ Goto("launch") /\ UNCHANGED <<event, line, task, lock, faults>>
             \/ /\ Fault /\ Stop("record", "transient")
                /\ UNCHANGED <<event, line, task, lock>>
             \/ /\ Fault /\ Stop("recordOne", "permanent")
                /\ UNCHANGED <<event, line, task, lock>>
  /\ KeepInbox

DeferRecovered ==
  /\ PassAt("recovered")
  /\ Defer(pass.batch \cap Has("running")) /\ pass' = NextEvent
  /\ KeepInbox /\ UNCHANGED <<task, lock, faults>>

-----------------------------------------------------------------------------
(* Under a task's lock: completeForgeEventLocked and the cancellation mark  *)
(* the events they listed, one transaction each.                            *)

Answer(t) ==
  /\ \E e \in lock[t].listed :
       /\ MarkForgeEventHandled(e)
       /\ lock' = [lock EXCEPT ![t].listed = @ \ {e}]
  /\ KeepInbox /\ UNCHANGED <<task, pass, faults>>

Release(t) ==
  /\ lock[t].by # "none" /\ lock[t].listed = {}
  /\ lock' = [lock EXCEPT ![t] = Unlocked]
  /\ task' = CASE lock[t].by = "pass" -> task
               [] lock[t].by = "worker" ->
                    IF task[t].cancelling THEN task ELSE [task EXCEPT ![t].phase = "ready"]
               [] lock[t].by = "cancel" ->
                    [task EXCEPT ![t].phase = "cancelled", ![t].cancelling = FALSE]
  /\ IF lock[t].by = "pass" THEN Goto("recovered") ELSE UNCHANGED pass
  /\ KeepInbox /\ UNCHANGED <<event, line, faults>>

(* The worker's reports, while nobody cancels. *)
Becomes(t, phase) == task' = [task EXCEPT ![t].phase = phase]
KeepEvents == UNCHANGED <<event, line, lock, faults>>

WorkerReports(t) ==
  /\ lock[t].by = "none" /\ ~task[t].cancelling
  /\ \/ task[t].phase = "queued" /\ Becomes(t, "running") /\ KeepEvents
     \/ task[t].phase = "running" /\ Becomes(t, "candidate") /\ KeepEvents
     \/ /\ task[t].phase = "first" /\ KeepEvents
        /\ task' = [task EXCEPT ![t].phase = "ready", ![t].pushed = 1]
     \/ /\ task[t].phase = "candidate" /\ KeepEvents
        /\ task' = [task EXCEPT ![t].phase = "pushed", ![t].pushed = @ + 1]
     \/ /\ task[t].phase \in {"first", "running", "candidate"}
        /\ Becomes(t, "failed") /\ KeepEvents
     \/ /\ task[t].phase = "pushed"
        /\ lock' = [lock EXCEPT ![t] = [by |-> "worker", listed |-> RunningOf(t)]]
        /\ UNCHANGED <<event, line, task, faults>>
     \/ /\ task[t].phase = "pushed" /\ RunningOf(t) # {}
        /\ Fault /\ RecordBatchError(RunningOf(t)) /\ Becomes(t, "ready") /\ UNCHANGED lock
     \/ /\ task[t].phase = "pushed"
        /\ Fault /\ UNCHANGED lock
        /\ \E e \in RunningOf(t) : FailForgeEvent(e)
  /\ KeepInbox /\ UNCHANGED pass

(* The rest of the log is read, and no worker event is pending. *)
Drain(t) ==
  /\ task[t].phase \in {"ready", "failed"} /\ ~task[t].drained
  /\ task' = [task EXCEPT ![t].drained = TRUE]
  /\ UNCHANGED <<posted, event, line, rest, lock, pass, faults>>

RequestCancellation(t) ==
  /\ ~Settled(t) /\ ~task[t].cancelling
  /\ task' = [task EXCEPT ![t].cancelling = TRUE]
  /\ UNCHANGED <<posted, event, line, rest, lock, pass, faults>>

Cancel(t) ==
  /\ task[t].cancelling /\ lock[t].by = "none"
  /\ lock' = [lock EXCEPT ![t] = [by |-> "cancel", listed |-> RunningOf(t)]]
  /\ UNCHANGED <<posted, event, line, rest, task, pass, faults>>

(* RetryTaskOnce takes running events along.  (Without any it opens another *)
(* pull request, another task of this model.)                               *)
Retry(t) ==
  /\ task[t].phase = "failed" /\ task[t].drained /\ task[t].retries < MaxRetries
  /\ lock[t].by = "none" /\ RunningOf(t) # {}
  /\ task' = [task EXCEPT ![t].phase = "queued", ![t].attempt = @ + 1, ![t].drained = FALSE,
                          ![t].retries = @ + 1]
  /\ event' = [e \in Events |-> IF e \in RunningOf(t)
                 THEN [event[e] EXCEPT !.attempt = task'[t].attempt] ELSE event[e]]
  /\ UNCHANGED <<posted, line, rest, lock, pass, faults>>

Crash ==
  /\ Fault
  /\ pass' = IdlePass /\ lock' = [t \in Tasks |-> Unlocked]
  /\ UNCHANGED <<posted, event, line, rest, task>>

-----------------------------------------------------------------------------

PassNext ==
  \/ ListIncomplete \/ Take \/ MatchEvent \/ DeferSettling \/ Dismiss
  \/ RecordOne \/ Record \/ DeferRecovered
  \/ \E t \in Tasks : StartForgeEvent(t) \/ Launch(t) \/ RecoverRunning(t)

TaskNext(t) == WorkerReports(t) \/ Cancel(t) \/ Answer(t) \/ Release(t)

InboxNext ==
  \/ Webhook \/ Tick \/ PassNext \/ Crash
  \/ \E t \in Tasks : TaskNext(t) \/ Drain(t) \/ RequestCancellation(t) \/ Retry(t)

InboxSpec == InboxInit /\ [][InboxNext]_inboxVars

(* Time passes, the recovery loop polls, and what goes on for a task ends.  *)
FairInboxSpec ==
  /\ InboxSpec
  /\ WF_inboxVars(Tick) /\ WF_inboxVars(PassNext)
  /\ \A t \in Tasks : WF_inboxVars(TaskNext(t)) /\ WF_inboxVars(Drain(t))

-----------------------------------------------------------------------------

(* The quiet period ("uses sliding quiet period" in forge_event_test.go): a *)
(* review comment that did not fail before starts a follow-up only when     *)
(* ReviewDelay has passed since the last comment on its head, however       *)
(* webhooks fall between the steps of a pass that has chosen its batch.     *)
QuietPeriod ==
  [][\A e \in Events :
       /\ event[e].status = "pending" /\ event'[e].status = "running"
       /\ event[e].kind = "review" /\ event[e].tries = 0 /\ event[e].head # 0
       => rest[e] = ReviewDelay]_inboxVars

(* A batch fails as one: no event still runs for an attempt that another    *)
(* event of has failed.                                                     *)
FailedTogether ==
  \A e, f \in Events :
    event[e].attempt # 0 /\ event[e].about = event[f].about /\ event[e].attempt = event[f].attempt
      => ~(event[e].status = "failed" /\ event[f].status = "running")

(* What FeedbackContract sees of a task: the events about it.               *)
FateOf(t) == [e \in Events |-> IF event[e].about # t \/ event[e].status = "away" THEN "pending"
                               ELSE event[e].status]
RoundOf(t) == [e \in Events |-> IF event[e].about = t THEN event[e].attempt ELSE 0]

FeedbackOn(t) == INSTANCE FeedbackContract
                 WITH Items <- Events, fate <- FateOf(t), round <- RoundOf(t),
                      last <- task[t].attempt

FeedbackBegins == \A t \in Tasks : FeedbackOn(t)!FeedbackInit
FeedbackMoves ==
  \A t \in Tasks : FeedbackOn(t)!FeedbackNext \/ UNCHANGED FeedbackOn(t)!feedbackVars

(* Every step of the inbox keeps the contract with every task, whatever has *)
(* become of the events since a pass, a completion, a failure or a          *)
(* cancellation listed them: no follow-up starts while events are in work,  *)
(* a retry takes all of them along, none is decided twice, and a failure    *)
(* leaves none behind (forge_event.go, retryTaskOnce).  It says             *)
(* \A t \in Tasks : FeedbackOn(t)!FeedbackSpec in the form that TLC takes.  *)
KeepsFeedbackContract == FeedbackBegins /\ [][FeedbackMoves]_inboxVars

(* Handled and failed are final, although passes, completions, failures and *)
(* cancellations act on what they listed before.                            *)
FateIsFinal ==
  [][\A e \in Has("handled") \cup Has("failed") :
       event'[e].status = event[e].status]_inboxVars

(* Every accepted event is answered, dismissed or failed, unless its        *)
(* follow-up has failed and waits for a retry: no event starves behind the  *)
(* limit of a pass, in deferrals or in backoff.                             *)
EventsAreDecided ==
  \A e \in Events :
    e \in Incomplete ~>
      (e \notin Incomplete \/ (event[e].status = "running" /\ task[event[e].about].phase = "failed"))

=============================================================================
