-------------------------- MODULE ForgeInboxProofs --------------------------
(* What becomes of webhook events, for any number of tasks, events, retries *)
(* and failures, any delays and any limits of a pass.                       *)
EXTENDS ForgeInbox, TLAPS

Phases == {"first", "queued", "running", "candidate", "pushed", "ready", "failed", "cancelled"}
TaskRows == [phase : Phases, attempt : Nat, pushed : Nat, drained : BOOLEAN,
             cancelling : BOOLEAN, retries : Nat]

(* An event's wait and tries are left open: no fate depends on them.        *)
EventRows == \A e \in Events : DOMAIN event[e] = DOMAIN NoEvent /\ event[e].attempt \in Nat
RowsOK == posted \in Nat /\ task \in [Tasks -> TaskRows] /\ EventRows

(* An event is bound to an attempt when a follow-up starts, and no later    *)
(* attempt has events yet.                                                  *)
BoundOnce ==
  \A e \in Events :
    /\ event[e].status = "away" <=> e > posted
    /\ event[e].status \in {"away", "pending"} => event[e].attempt = 0
    /\ event[e].status = "running" => event[e].attempt # 0
    /\ event[e].attempt # 0 =>
         event[e].about \in Tasks /\ event[e].attempt <= task[event[e].about].attempt

(* Events in work are in the work of their task's current attempt: a retry  *)
(* has taken along all there were, and a follow-up finds none.              *)
OwnsCurrent == \A e \in Has("running") : event[e].attempt = task[event[e].about].attempt

InboxInv == RowsOK /\ BoundOnce /\ OwnsCurrent /\ FailedTogether

Holders == {"none", "pass", "worker", "cancel"}
HoldsOK == lock \in [Tasks -> [by : Holders, listed : SUBSET Events]]

-----------------------------------------------------------------------------
(* The four ways in which a step treats the fates of events *)

SameAttempts == \A t \in Tasks : task'[t].attempt = task[t].attempt

Keeps(e) ==
  /\ event'[e].status = event[e].status /\ event'[e].about = event[e].about
  /\ event'[e].attempt = event[e].attempt

Accepted ==
  /\ posted' = posted + 1
  /\ \A e \in Events :
       IF e = posted' THEN event'[e].status = "pending" /\ event'[e].attempt = 0 ELSE Keeps(e)

(* One event is handled; pending ones fail, or all that run for an attempt. *)
Ended(es, status) ==
  /\ status \in {"handled", "failed"} /\ es \subseteq Incomplete
  /\ status = "handled" => \E e \in es : es = {e}
  /\ status = "failed" => \/ es \subseteq Has("pending")
                          \/ \E e \in es : es = Bound(event[e].about, event[e].attempt) \cap Has("running")
  /\ status = "failed" =>
       \A e \in es, f \in Has("running") :
         event[e].attempt # 0 /\ event[f].about = event[e].about
         /\ event[f].attempt = event[e].attempt => f \in es
  /\ \A e \in Events :
       IF e \in es
       THEN /\ event'[e].status = status /\ event'[e].about = event[e].about
            /\ event'[e].attempt = event[e].attempt
       ELSE Keeps(e)

(* Pending events start an attempt, or the running ones go on in the next.  *)
Started(t, es) ==
  /\ t \in Tasks /\ \A e \in es : event[e].about = t
  /\ (es \subseteq Has("pending") /\ RunningOf(t) = {}) \/ es = RunningOf(t)
  /\ task'[t].attempt = task[t].attempt + 1
  /\ \A u \in Tasks : u # t => task'[u].attempt = task[u].attempt
  /\ \A e \in Events :
       IF e \in es
       THEN /\ event'[e].status = "running" /\ event'[e].about = event[e].about
            /\ event'[e].attempt = task'[t].attempt
       ELSE Keeps(e)

EventStep ==
  \/ SameAttempts /\ posted' = posted /\ \A e \in Events : Keeps(e)
  \/ SameAttempts /\ Accepted
  \/ /\ SameAttempts /\ posted' = posted
     /\ \E es \in SUBSET Events, status \in {"handled", "failed"} : Ended(es, status)
  \/ posted' = posted /\ \E t \in Tasks, es \in SUBSET Events : Started(t, es)

(* Attempts of a task only go on. *)
RowsStep == RowsOK' /\ \A t \in Tasks : task[t].attempt <= task'[t].attempt

(* No event is left behind in the work of an earlier attempt. *)
LEMMA EventStepOwns == ASSUME InboxInv, RowsStep, EventStep PROVE OwnsCurrent'
<1> SUFFICES ASSUME NEW e \in Events, event'[e].status = "running"
             PROVE  event'[e].attempt = task'[event'[e].about].attempt
  BY DEF OwnsCurrent, Has
<1>1. event[e].status = "running" =>
        /\ event[e].about \in Tasks /\ event[e].attempt # 0
        /\ event[e].attempt = task[event[e].about].attempt
  BY DEF InboxInv, BoundOnce, OwnsCurrent, Has
<1>2. CASE SameAttempts /\ Keeps(e)
  BY <1>1, <1>2 DEF SameAttempts, Keeps
<1>3. ASSUME SameAttempts, NEW es, NEW status \in {"handled", "failed"}, Ended(es, status)
      PROVE  Keeps(e)
  BY <1>3 DEF Ended
<1>4. ASSUME NEW t \in Tasks, NEW es, Started(t, es)
      PROVE  event'[e].attempt = task'[event'[e].about].attempt
  <2>1. CASE e \in es
    BY <1>4, <2>1 DEF Started
  <2>2. CASE e \notin es
    <3>1. Keeps(e)
      BY <1>4, <2>2 DEF Started
    <3>2. event[e].about # t
      BY <1>1, <1>4, <2>2, <3>1 DEF Started, RunningOf, Bound, Has, Keeps
    <3> QED
      BY <1>1, <1>4, <3>1, <3>2 DEF Started, Keeps
  <2> QED
    BY <2>1, <2>2
<1>5. CASE SameAttempts /\ Accepted
  <2>1. event'[e].status # "pending" => Keeps(e)
    BY <1>5 DEF Accepted
  <2> QED
    BY <1>2, <1>5, <2>1
<1> QED
  BY <1>2, <1>3, <1>4, <1>5 DEF EventStep

(* Whatever happens to events in one of these ways keeps the invariant, and *)
(* nothing that is handled or failed is touched.                            *)
LEMMA EventStepKeeps ==
  ASSUME InboxInv, RowsStep, EventStep
  PROVE  InboxInv' /\ \A e \in Has("handled") \cup Has("failed") : event'[e].status = event[e].status
<1> DEFINE Final == \A e \in Has("handled") \cup Has("failed") : event'[e].status = event[e].status
<1>5. OwnsCurrent'
  BY EventStepOwns
<1> USE <1>5 DEF InboxInv, RowsStep, BoundOnce, Has, Keeps
<1>0. /\ \A t \in Tasks : task[t].attempt \in Nat /\ task'[t].attempt \in Nat
      /\ \A e \in Events : event[e].attempt \in Nat /\ event'[e].attempt \in Nat /\ e \in Nat
      /\ posted \in Nat /\ posted' \in Nat
  BY DEF RowsOK, EventRows, TaskRows, Events
<1>1. CASE posted' = posted /\ \A e \in Events : Keeps(e)
  <2>1. BoundOnce'
    BY <1>0, <1>1
  <2>2. FailedTogether'
    BY <1>0, <1>1 DEF FailedTogether
  <2> QED
    BY <1>1, <2>1, <2>2
<1>2. CASE Accepted
  <2>1. BoundOnce'
    BY <1>0, <1>2 DEF Accepted
  <2>2. FailedTogether'
    BY <1>0, <1>2 DEF Accepted, FailedTogether
  <2>3. Final
    BY <1>0, <1>2 DEF Accepted
  <2> QED
    BY <2>1, <2>2, <2>3
<1>3. ASSUME posted' = posted, NEW es \in SUBSET Events, NEW status \in {"handled", "failed"},
             Ended(es, status)
      PROVE  InboxInv' /\ Final
  <2> USE <1>3 DEF Ended, Incomplete
  <2>1. BoundOnce'
    BY <1>0
  <2>2. FailedTogether'
    BY <1>0 DEF FailedTogether
  <2>3. Final
    BY <1>0
  <2> QED
    BY <2>1, <2>2, <2>3
<1>4. ASSUME posted' = posted, NEW t \in Tasks, NEW es \in SUBSET Events, Started(t, es)
      PROVE  InboxInv' /\ Final
  <2> USE <1>4 DEF Started, RunningOf, Bound
  <2>1. BoundOnce'
    BY <1>0
  <2>2. FailedTogether'
    BY <1>0 DEF FailedTogether
  <2>3. Final
    BY <1>0
  <2> QED
    BY <2>1, <2>2, <2>3
<1> QED
  BY <1>1, <1>2, <1>3, <1>4 DEF EventStep

-----------------------------------------------------------------------------
(* The transactions *)

Unfated == EventRows' /\ \A e \in Events : Keeps(e)

(* Deadlines and counts of failures are not fates (DeferForgeEvent,         *)
(* RecordForgeEventErrorAfter, RecordForgeEventBatchErrorAfter).            *)
LEMMA DelayIsNoFate == ASSUME EventRows, NEW moved, NEW wait, Delay(moved, wait) PROVE Unfated
BY DEF Delay, Unfated, EventRows, Keeps, NoEvent

(* The same for the delay and the count after a failure. *)
LEMMA ErrorIsNoFate == ASSUME EventRows, NEW es, NEW tries, RecordError(es, tries) PROVE Unfated
BY DEF RecordError, Unfated, EventRows, Keeps, NoEvent

(* Events that are left alone keep their fate. *)
LEMMA NothingIsNoFate == ASSUME EventRows, UNCHANGED event PROVE Unfated
BY DEF Unfated, EventRows, Keeps

(* Yielding to others (DeferForgeEvent). *)
LEMMA DeferIsNoFate == ASSUME EventRows, NEW es, Defer(es) PROVE Unfated
BY DelayIsNoFate, NothingIsNoFate DEF Defer

(* A transient error of one event (RecordForgeEventErrorAfter). *)
LEMMA EventErrorIsNoFate == ASSUME EventRows, NEW e, RecordEventError(e) PROVE Unfated
BY ErrorIsNoFate, NothingIsNoFate DEF RecordEventError

(* A transient error of a batch (RecordForgeEventBatchErrorAfter). *)
LEMMA BatchErrorIsNoFate == ASSUME EventRows, NEW es, RecordBatchError(es) PROVE Unfated
BY ErrorIsNoFate, NothingIsNoFate DEF RecordBatchError

(* What a transaction writes that ends events or finds nothing to end.      *)
Ends == EventRows' /\ (Unfated \/ \E es \in SUBSET Events, status \in {"handled", "failed"} : Ended(es, status))

(* A batch that is ended while it is pending, or with all that run for its attempt. *)
LEMMA EndEnds ==
  ASSUME InboxInv, NEW es, es \subseteq Incomplete, NEW status \in {"handled", "failed"}, End(es, status),
         status = "handled" => \E e \in es : es = {e},
         status = "failed" => es \subseteq Has("pending")
                              \/ \E e \in es : es = Bound(event[e].about, event[e].attempt) \cap Has("running")
  PROVE  Ends
<1>1. EventRows' /\ es \in SUBSET Events
  BY DEF InboxInv, RowsOK, EventRows, End, NoEvent, Incomplete, Has
<1>2. \A e \in Events :
       IF e \in es
       THEN /\ event'[e].status = status /\ event'[e].about = event[e].about
            /\ event'[e].attempt = event[e].attempt
       ELSE Keeps(e)
  BY DEF InboxInv, RowsOK, EventRows, End, NoEvent, Keeps
<1>3. status = "failed" =>
       \A e \in es, f \in Has("running") :
         event[e].attempt # 0 /\ event[f].about = event[e].about
         /\ event[f].attempt = event[e].attempt => f \in es
  BY <1>1 DEF InboxInv, BoundOnce, Bound, Has
<1> QED
  BY <1>1, <1>2, <1>3 DEF Ends, Ended

(* MarkForgeEventHandled ends one event that is incomplete. *)
LEMMA HandledEnds == ASSUME InboxInv, NEW e, MarkForgeEventHandled(e) PROVE Ends
<1>1. CASE e \in Incomplete
  BY <1>1, EndEnds DEF MarkForgeEventHandled
<1>2. CASE e \notin Incomplete
  BY <1>2, NothingIsNoFate DEF MarkForgeEventHandled, Ends, Unfated, InboxInv, RowsOK
<1> QED
  BY <1>1, <1>2

(* CancelFollowUp writes a flag of the task. *)
TaskStays == task' \in [Tasks -> TaskRows] /\ SameAttempts

(* A cancelled follow-up keeps its task's attempt. *)
LEMMA CancelFollowUpStays == ASSUME InboxInv, NEW t, NEW a, CancelFollowUp(t, a) PROVE TaskStays
BY DEF InboxInv, RowsOK, TaskRows, CancelFollowUp, TaskStays, SameAttempts

(* FailForgeEvent ends all that run for the attempt, or one pending event. *)
LEMMA FailEnds == ASSUME InboxInv, NEW e, FailForgeEvent(e) PROVE Ends /\ TaskStays
<1>1. CASE event[e].status = "running"
  <2> DEFINE es == Bound(event[e].about, event[e].attempt) \cap Has("running")
  <2>1. /\ es \subseteq Incomplete
        /\ \/ es \subseteq Has("pending")
           \/ \E f \in es : es = Bound(event[f].about, event[f].attempt) \cap Has("running")
    <3>1. CASE es = {}
      BY <3>1
    <3>2. ASSUME NEW f \in es PROVE es = Bound(event[f].about, event[f].attempt) \cap Has("running")
      BY <3>2 DEF Bound
    <3> QED
      BY <3>1, <3>2 DEF Incomplete
  <2>2. End(es, "failed") /\ CancelFollowUp(event[e].about, event[e].attempt)
    BY <1>1 DEF FailForgeEvent
  <2> QED
    BY <2>1, <2>2, EndEnds, CancelFollowUpStays
<1>2. CASE event[e].status # "running" /\ e \in Incomplete
  <2>1. {e} \subseteq Has("pending") /\ {e} \subseteq Incomplete
    BY <1>2 DEF Has, Incomplete
  <2>2. End({e}, "failed") /\ UNCHANGED task
    BY <1>2 DEF FailForgeEvent
  <2> QED
    BY <2>1, <2>2, EndEnds DEF InboxInv, RowsOK, TaskStays, SameAttempts
<1>3. CASE event[e].status # "running" /\ e \notin Incomplete
  BY <1>3, NothingIsNoFate DEF FailForgeEvent, Ends, Unfated, InboxInv, RowsOK, TaskStays, SameAttempts
<1> QED
  BY <1>1, <1>2, <1>3

(* FailForgeEventBatch ends the batch as it was selected, or nothing. *)
LEMMA FailBatchEnds == ASSUME InboxInv, NEW es, FailForgeEventBatch(es) PROVE Ends /\ TaskStays
<1>1. CASE SelectedPending(es)
  <2>1. es \subseteq Has("pending") /\ es \subseteq Incomplete
    BY <1>1 DEF SelectedPending, Incomplete
  <2> QED
    BY <1>1, <2>1, EndEnds DEF FailForgeEventBatch, InboxInv, RowsOK, TaskStays, SameAttempts
<1>2. CASE ~SelectedPending(es) /\ SelectedRunning(es)
  <2>1. /\ es \subseteq Incomplete
        /\ \E e \in es : es = Bound(event[e].about, event[e].attempt) \cap Has("running")
    BY <1>2 DEF SelectedRunning, Incomplete
  <2>2. End(es, "failed") /\ \E e \in es : CancelFollowUp(event[e].about, event[e].attempt)
    BY <1>2 DEF FailForgeEventBatch
  <2> QED
    BY <2>1, <2>2, EndEnds, CancelFollowUpStays
<1>3. CASE ~SelectedPending(es) /\ ~SelectedRunning(es)
  BY <1>3, NothingIsNoFate DEF FailForgeEventBatch, Ends, Unfated, InboxInv, RowsOK, TaskStays, SameAttempts
<1> QED
  BY <1>1, <1>2, <1>3

-----------------------------------------------------------------------------
(* The steps *)

(* No event is accepted at first. *)
LEMMA InitInv == ASSUME InboxAssumption, InboxInit PROVE InboxInv
BY DEF InboxAssumption, InboxInit, InboxInv, RowsOK, EventRows, BoundOnce, OwnsCurrent, FailedTogether,
       NoEvent, NewTask, TaskRows, Phases, Events, Has

(* A transaction that ends events, and what it is in the invariant's terms. *)
LEMMA EndsIsStep == ASSUME InboxInv, Ends, TaskStays, UNCHANGED posted PROVE RowsStep /\ EventStep
<1>1. RowsStep
  <2>1. \A t \in Tasks : task[t].attempt \in Nat
    BY DEF InboxInv, RowsOK, TaskRows
  <2> QED
    BY <2>1 DEF InboxInv, RowsOK, Ends, TaskStays, SameAttempts, RowsStep
<1>2. EventStep
  BY DEF Ends, Unfated, TaskStays, EventStep
<1> QED
  BY <1>1, <1>2

(* A transaction that leaves fates alone. *)
LEMMA UnfatedIsStep == ASSUME InboxInv, Unfated, TaskStays, UNCHANGED posted PROVE RowsStep /\ EventStep
BY EndsIsStep DEF Ends, Unfated

(* Steps that leave events alone and write no attempt of a task. *)
LEMMA TaskUnchanged == ASSUME InboxInv, UNCHANGED task PROVE TaskStays
BY DEF InboxInv, RowsOK, TaskStays, SameAttempts

(* A step that reads events only. *)
LEMMA EventsUnchanged ==
  ASSUME InboxInv, TaskStays, UNCHANGED <<posted, event>> PROVE RowsStep /\ EventStep
BY UnfatedIsStep, NothingIsNoFate DEF InboxInv, RowsOK

(* PutForgeEventAfter accepts an event once, and slides only deadlines. *)
LEMMA WebhookStep == ASSUME InboxInv, InboxAssumption, Webhook PROVE RowsStep /\ EventStep
<1>1. CASE UNCHANGED <<posted, event>>
  BY <1>1, TaskUnchanged, EventsUnchanged DEF Webhook
<1>2. ASSUME NEW kind, NEW about, NEW head, posted < MaxEvents,
             PutForgeEvent(posted + 1, kind, about, head), UNCHANGED task
      PROVE  RowsStep /\ EventStep
  <2> DEFINE new == [NoEvent EXCEPT !.status = "pending", !.kind = kind, !.about = about, !.head = head]
             wait == IF kind = "review" THEN ReviewDelay ELSE 0
  <2>1. posted \in Nat /\ posted + 1 \in Events /\ ~(posted + 1 <= posted)
    BY <1>2 DEF InboxInv, RowsOK, Events, InboxAssumption
  <2>2. /\ posted' = posted + 1
        /\ event' = [f \in Events |-> IF f \in Arrived(posted + 1, new)
                       THEN [(IF f = posted + 1 THEN new ELSE event[f]) EXCEPT !.wait = wait]
                       ELSE event[f]]
    BY <1>2, <2>1 DEF PutForgeEvent
  <2>3. posted + 1 \in Arrived(posted + 1, new)
    BY DEF Arrived
  <2>4. DOMAIN new = DOMAIN NoEvent /\ new.status = "pending" /\ new.attempt = 0
    BY DEF NoEvent
  <2>5. EventRows'
    BY <2>2, <2>4 DEF InboxInv, RowsOK, EventRows, NoEvent
  <2>6. Accepted
    <3> SUFFICES ASSUME NEW e \in Events
                 PROVE  IF e = posted + 1 THEN event'[e].status = "pending" /\ event'[e].attempt = 0
                        ELSE Keeps(e)
      BY <2>2 DEF Accepted
    <3> HIDE DEF new, wait
    <3>1. CASE e = posted + 1
      BY <2>2, <2>3, <2>4, <3>1 DEF NoEvent
    <3>2. CASE e # posted + 1
      <4>1. event'[e] = event[e] \/ event'[e] = [event[e] EXCEPT !.wait = wait]
        BY <2>2, <3>2
      <4> QED
        BY <3>2, <4>1 DEF InboxInv, RowsOK, EventRows, Keeps, NoEvent
    <3> QED
      BY <3>1, <3>2
  <2>7. RowsStep
    <3>1. \A t \in Tasks : task[t].attempt \in Nat
      BY DEF InboxInv, RowsOK, TaskRows
    <3> QED
      BY <1>2, <2>1, <2>2, <2>5, <3>1 DEF InboxInv, RowsOK, RowsStep
  <2> QED
    BY <1>2, <2>6, <2>7 DEF SameAttempts, EventStep
<1> QED
  <2>1. CASE \E e \in 1..posted : PutForgeEvent(e, event[e].kind, event[e].about, event[e].head)
    <3>1. \A e \in 1..posted : e <= posted
      BY DEF InboxInv, RowsOK
    <3> QED
      BY <1>1, <2>1, <3>1 DEF PutForgeEvent
  <2> QED
    BY <1>2, <2>1 DEF Webhook

(* Time changes deadlines and quiet periods only. *)
LEMMA TickStep == ASSUME InboxInv, Tick PROVE RowsStep /\ EventStep
<1>1. Unfated
  BY DEF Tick, Unfated, InboxInv, RowsOK, EventRows, Keeps, NoEvent
<1> QED
  BY <1>1, TaskUnchanged, UnfatedIsStep DEF Tick

(* StartForgeEventAttempt binds a batch that it finds pending. *)
LEMMA StartStep ==
  ASSUME InboxInv, NEW t \in Tasks, StartForgeEvent(t) PROVE RowsStep /\ EventStep
<1> DEFINE es == pass.batch
<1>1. CASE UNCHANGED <<event, task>>
  BY <1>1, TaskUnchanged, EventsUnchanged DEF StartForgeEvent, KeepInbox
<1>2. ASSUME StillPending(es, t), CanFollowUp(t),
             task' = [task EXCEPT ![t].attempt = @ + 1, ![t].phase = "queued", ![t].drained = FALSE],
             event' = [e \in Events |-> IF e \in es
                        THEN [event[e] EXCEPT !.status = "running", !.attempt = task'[t].attempt,
                                              !.tries = Tried(e), !.wait = 0] ELSE event[e]],
             UNCHANGED posted
      PROVE  RowsStep /\ EventStep
  <2>1. /\ task' \in [Tasks -> TaskRows] /\ task'[t].attempt = task[t].attempt + 1
        /\ \A u \in Tasks : task[u].attempt <= task'[u].attempt
                           /\ (u # t => task'[u].attempt = task[u].attempt)
    <3>1. task' = [task EXCEPT ![t].attempt = @ + 1, ![t].phase = "queued", ![t].drained = FALSE]
      BY <1>2
    <3>2. task \in [Tasks -> TaskRows]
      BY DEF InboxInv, RowsOK
    <3>3. task[t] \in TaskRows /\ task[t].attempt \in Nat
      BY <3>2 DEF TaskRows
    <3>4. task' = [task EXCEPT ![t] = [task[t] EXCEPT !.attempt = @ + 1, !.phase = "queued",
                                                      !.drained = FALSE]]
      BY <3>1, <3>2
    <3>5. [task[t] EXCEPT !.attempt = @ + 1, !.phase = "queued", !.drained = FALSE] \in TaskRows
      <4>1. "queued" \in Phases
        BY DEF Phases
      <4>2. [task[t] EXCEPT !.attempt = @ + 1] \in TaskRows
        BY <3>3 DEF TaskRows
      <4>3. \A r \in TaskRows : [r EXCEPT !.phase = "queued", !.drained = FALSE] \in TaskRows
        BY <4>1 DEF TaskRows
      <4> QED
        BY <4>2, <4>3
    <3>6. task'[t].attempt = task[t].attempt + 1
      BY <3>2, <3>3, <3>4 DEF TaskRows
    <3>7. \A u \in Tasks : task[u].attempt \in Nat /\ (u # t => task'[u] = task[u])
      BY <3>2, <3>4 DEF TaskRows
    <3> QED
      BY <3>2, <3>4, <3>5, <3>6, <3>7
  <2>2. task'[t].attempt \in Nat
    BY <2>1 DEF TaskRows
  <2>3. es \in SUBSET Events
    BY <1>2 DEF StillPending, Has
  <2>4. EventRows' /\ Started(t, es)
    <3>1. \A e \in Events :
            IF e \in es
            THEN /\ event'[e].status = "running" /\ event'[e].about = event[e].about
                 /\ event'[e].attempt = task'[t].attempt
            ELSE Keeps(e)
      BY <1>2 DEF InboxInv, RowsOK, EventRows, Keeps, NoEvent
    <3>2. EventRows'
      BY <1>2, <2>2 DEF InboxInv, RowsOK, EventRows, NoEvent
    <3> QED
      BY <1>2, <2>1, <3>1, <3>2 DEF Started, StillPending, CanFollowUp
  <2> QED
    BY <1>2, <2>1, <2>3, <2>4 DEF InboxInv, RowsOK, RowsStep, EventStep
<1> QED
  <2>1. UNCHANGED posted
    BY DEF StartForgeEvent, KeepInbox
  <2> QED
    BY <1>1, <1>2, <2>1 DEF StartForgeEvent

(* RetryTaskOnce takes the events that run into the next attempt. *)
LEMMA RetryStep == ASSUME InboxInv, NEW t \in Tasks, Retry(t) PROVE RowsStep /\ EventStep
<1>1. /\ task' \in [Tasks -> TaskRows] /\ task'[t].attempt = task[t].attempt + 1
      /\ \A u \in Tasks : task[u].attempt <= task'[u].attempt
                         /\ (u # t => task'[u].attempt = task[u].attempt)
  BY DEF Retry, InboxInv, RowsOK, TaskRows, Phases
<1>2. task'[t].attempt \in Nat
  BY <1>1 DEF TaskRows
<1>3. /\ RunningOf(t) \in SUBSET Events
      /\ \A e \in RunningOf(t) : event[e].about = t /\ event[e].status = "running"
  BY DEF RunningOf, Bound, Has
<1>4. \A e \in Events :
        IF e \in RunningOf(t)
        THEN /\ event'[e].status = "running" /\ event'[e].about = event[e].about
             /\ event'[e].attempt = task'[t].attempt
        ELSE Keeps(e)
  BY <1>3 DEF Retry, InboxInv, RowsOK, EventRows, Keeps, NoEvent
<1>5. EventRows'
  BY <1>2 DEF Retry, InboxInv, RowsOK, EventRows, NoEvent
<1>6. Started(t, RunningOf(t))
  BY <1>1, <1>3, <1>4 DEF Started
<1>7. UNCHANGED posted
  BY DEF Retry
<1> QED
  BY <1>1, <1>3, <1>5, <1>6, <1>7 DEF InboxInv, RowsOK, RowsStep, EventStep

(* The other steps of ProcessForgeEvents. *)
LEMMA PassStep == ASSUME InboxInv, PassNext PROVE RowsStep /\ EventStep
<1> USE DEF KeepInbox
<1>1. CASE ListIncomplete \/ Take \/ MatchEvent
  BY <1>1, TaskUnchanged, EventsUnchanged DEF ListIncomplete, Take, MatchEvent
<1>2. CASE DeferSettling \/ DeferRecovered
  BY <1>2, DeferIsNoFate, TaskUnchanged, UnfatedIsStep DEF DeferSettling, DeferRecovered, InboxInv, RowsOK
<1>3. CASE Dismiss
  BY <1>3, HandledEnds, TaskUnchanged, EndsIsStep DEF Dismiss
<1>4. CASE RecordOne
  <2>1. CASE FailForgeEvent(Seed)
    BY <1>4, <2>1, FailEnds, EndsIsStep DEF RecordOne
  <2>2. CASE RecordEventError(Seed) /\ UNCHANGED task
    BY <1>4, <2>2, EventErrorIsNoFate, TaskUnchanged, UnfatedIsStep DEF RecordOne, InboxInv, RowsOK
  <2> QED
    BY <1>4, <2>1, <2>2 DEF RecordOne
<1>5. CASE Record
  <2>1. CASE UNCHANGED <<event, task>>
    BY <1>5, <2>1, TaskUnchanged, EventsUnchanged DEF Record
  <2>2. CASE FailForgeEventBatch(pass.batch)
    BY <1>5, <2>2, FailBatchEnds, EndsIsStep DEF Record
  <2>3. CASE RecordBatchError(pass.batch) /\ UNCHANGED task
    BY <1>5, <2>3, BatchErrorIsNoFate, TaskUnchanged, UnfatedIsStep DEF Record, InboxInv, RowsOK
  <2> QED
    BY <1>5, <2>1, <2>2, <2>3 DEF Record
<1>6. ASSUME NEW t \in Tasks, Launch(t) PROVE RowsStep /\ EventStep
  <2>1. TaskStays
    BY <1>6 DEF Launch, InboxInv, RowsOK, TaskRows, Phases, TaskStays, SameAttempts
  <2> QED
    BY <1>6, <2>1, EventsUnchanged DEF Launch
<1>7. ASSUME NEW t \in Tasks, RecoverRunning(t) PROVE RowsStep /\ EventStep
  <2>1. CASE UNCHANGED <<event, task>>
    BY <1>7, <2>1, TaskUnchanged, EventsUnchanged DEF RecoverRunning
  <2>2. CASE RecordBatchError(RunningOf(t)) /\ UNCHANGED task
    BY <1>7, <2>2, BatchErrorIsNoFate, TaskUnchanged, UnfatedIsStep DEF RecoverRunning, InboxInv, RowsOK
  <2>3. CASE FailForgeEvent(Seed)
    BY <1>7, <2>3, FailEnds, EndsIsStep DEF RecoverRunning
  <2> QED
    BY <1>7, <2>1, <2>2, <2>3 DEF RecoverRunning
<1> QED
  BY <1>1, <1>2, <1>3, <1>4, <1>5, <1>6, <1>7, StartStep DEF PassNext

(* The task's own operations, which answer, fail or leave its events. *)
LEMMA TaskStep ==
  ASSUME InboxInv, HoldsOK, NEW t \in Tasks, TaskNext(t) \/ Drain(t) \/ RequestCancellation(t)
  PROVE  RowsStep /\ EventStep
<1> USE DEF KeepInbox
<1>1. CASE Answer(t)
  BY <1>1, HandledEnds, TaskUnchanged, EndsIsStep DEF Answer
<1>2. CASE Release(t) \/ Drain(t) \/ RequestCancellation(t) \/ Cancel(t)
  <2>1. TaskStays
    <3>1. CASE Drain(t) \/ RequestCancellation(t) \/ Cancel(t)
      <4>1. task \in [Tasks -> TaskRows]
        BY DEF InboxInv, RowsOK
      <4>2. \/ task' = task \/ task' = [task EXCEPT ![t].drained = TRUE]
            \/ task' = [task EXCEPT ![t].cancelling = TRUE]
        BY <3>1 DEF Drain, RequestCancellation, Cancel
      <4>3. CASE task' = task
        BY <4>1, <4>3 DEF TaskStays, SameAttempts
      <4>4. CASE task' = [task EXCEPT ![t].drained = TRUE]
        BY <4>1, <4>4 DEF TaskRows, TaskStays, SameAttempts
      <4>5. CASE task' = [task EXCEPT ![t].cancelling = TRUE]
        BY <4>1, <4>5 DEF TaskRows, TaskStays, SameAttempts
      <4> QED
        BY <4>2, <4>3, <4>4, <4>5
    <3>2. CASE Release(t)
      <4>1. task \in [Tasks -> TaskRows] /\ lock[t].by \in Holders
        BY DEF InboxInv, RowsOK, HoldsOK
      <4>2. \/ task' = task \/ task' = [task EXCEPT ![t].phase = "ready"]
            \/ task' = [task EXCEPT ![t].phase = "cancelled", ![t].cancelling = FALSE]
        BY <3>2, <4>1 DEF Release, Holders
      <4> QED
        BY <4>1, <4>2 DEF TaskRows, Phases, TaskStays, SameAttempts
    <3> QED
      BY <1>2, <3>1, <3>2
  <2> QED
    BY <1>2, <2>1, EventsUnchanged DEF Release, Drain, RequestCancellation, Cancel
<1>3. CASE WorkerReports(t)
  <2>1. UNCHANGED posted
    BY <1>3 DEF WorkerReports
  <2>2. CASE UNCHANGED event /\ TaskStays
    BY <2>1, <2>2, EventsUnchanged
  <2>3. CASE RecordBatchError(RunningOf(t)) /\ TaskStays
    BY <2>1, <2>3, BatchErrorIsNoFate, UnfatedIsStep DEF InboxInv, RowsOK
  <2>4. CASE \E e \in RunningOf(t) : FailForgeEvent(e)
    BY <2>1, <2>4, FailEnds, EndsIsStep
  <2>5. /\ \A phase \in Phases : Becomes(t, phase) => TaskStays
        /\ task' = [task EXCEPT ![t].phase = "ready", ![t].pushed = 1] => TaskStays
        /\ task' = [task EXCEPT ![t].phase = "pushed", ![t].pushed = @ + 1] => TaskStays
    <3>1. task \in [Tasks -> TaskRows]
      BY DEF InboxInv, RowsOK
    <3> QED
      BY <3>1 DEF Becomes, TaskRows, Phases, TaskStays, SameAttempts
  <2>6. {"running", "candidate", "failed", "ready"} \subseteq Phases
    BY DEF Phases
  <2> QED
    BY <1>3, <2>2, <2>3, <2>4, <2>5, <2>6, TaskUnchanged DEF WorkerReports, KeepEvents
<1> QED
  BY <1>1, <1>2, <1>3 DEF TaskNext

(* A crash keeps what is stored, and so does an idle step. *)
LEMMA OtherSteps == ASSUME InboxInv, Crash \/ UNCHANGED inboxVars PROVE RowsStep /\ EventStep
BY TaskUnchanged, EventsUnchanged DEF Crash, inboxVars

(* Every step is one of the four changes. *)
LEMMA EveryStep ==
  ASSUME InboxAssumption, InboxInv, HoldsOK, [InboxNext]_inboxVars PROVE RowsStep /\ EventStep
BY WebhookStep, TickStep, PassStep, TaskStep, RetryStep, OtherSteps DEF InboxNext

(* Whoever holds a task's lock lists events.                                *)
LEMMA HoldsKept == ASSUME HoldsOK, [InboxNext]_inboxVars PROVE HoldsOK'
<1> USE DEF HoldsOK, Holders
<1>1. Unlocked \in [by : Holders, listed : SUBSET Events]
  BY DEF Unlocked
<1>2. \A t \in Tasks : RunningOf(t) \subseteq Events
  BY DEF RunningOf, Bound
<1>3. CASE UNCHANGED lock
  BY <1>3
<1>4. CASE lock' = [t \in Tasks |-> Unlocked]
  BY <1>1, <1>4
<1>5. ASSUME NEW t \in Tasks, RecoverRunning(t) PROVE HoldsOK'
  <2>1. UNCHANGED lock \/ lock' = [lock EXCEPT ![t] = [by |-> "pass", listed |-> {e \in RunningOf(t) : Due(e)}]]
    BY <1>5 DEF RecoverRunning
  <2> QED
    BY <1>2, <2>1
<1>6. ASSUME NEW t \in Tasks, Answer(t) \/ Release(t) \/ WorkerReports(t) \/ Cancel(t) PROVE HoldsOK'
  <2>1. \/ UNCHANGED lock
        \/ \E e : lock' = [lock EXCEPT ![t].listed = @ \ {e}]
        \/ lock' = [lock EXCEPT ![t] = Unlocked]
        \/ \E by \in Holders : lock' = [lock EXCEPT ![t] = [by |-> by, listed |-> RunningOf(t)]]
    BY <1>6 DEF Answer, Release, WorkerReports, Cancel, KeepEvents
  <2> QED
    BY <1>1, <1>2, <2>1
<1>7. UNCHANGED lock \/ Crash
      \/ \E t \in Tasks : RecoverRunning(t) \/ Answer(t) \/ Release(t) \/ WorkerReports(t) \/ Cancel(t)
  BY DEF InboxNext, PassNext, TaskNext, Webhook, Tick, ListIncomplete, Take, MatchEvent, DeferSettling,
         Dismiss, RecordOne, Record, DeferRecovered, StartForgeEvent, Launch, Drain, RequestCancellation,
         Retry, inboxVars
<1> QED
  BY <1>3, <1>4, <1>5, <1>6, <1>7 DEF Crash

(* The invariant holds throughout: an event is bound to an attempt once,    *)
(* rows and locks are typed, and a batch fails as one.                      *)
THEOREM InboxInvariant == InboxSpec => [](InboxInv /\ HoldsOK)
<1>1. InboxInit => InboxInv /\ HoldsOK
  BY InitInv, InboxAssumption DEF InboxInit, HoldsOK, Holders, Unlocked
<1>2. InboxInv /\ HoldsOK /\ [InboxNext]_inboxVars => (InboxInv /\ HoldsOK)'
  BY EveryStep, EventStepKeeps, HoldsKept, InboxAssumption
<1> QED
  BY <1>1, <1>2, PTL DEF InboxSpec

(* A batch fails as one: no event still runs for an attempt that another    *)
(* event of has failed.                                                     *)
THEOREM BatchFailsTogether == InboxSpec => []FailedTogether
<1>1. InboxInv /\ HoldsOK => FailedTogether
  BY DEF InboxInv
<1> QED
  BY <1>1, InboxInvariant, PTL

(* Handled and failed are final, whatever passes, completions, failures,    *)
(* cancellations and retries have listed before.                            *)
THEOREM FatesAreFinal == InboxSpec => FateIsFinal
<1>1. InboxInv /\ HoldsOK /\ [InboxNext]_inboxVars
      => [\A e \in Has("handled") \cup Has("failed") : event'[e].status = event[e].status]_inboxVars
  BY EveryStep, EventStepKeeps, InboxAssumption
<1> QED
  BY <1>1, InboxInvariant, PTL DEF InboxSpec, FateIsFinal

-----------------------------------------------------------------------------
(* The quiet period *)

(* A review comment that waits and never failed: its deadline is not before *)
(* the quiet period since the last comment on its head is over.             *)
Fresh(e) ==
  event[e].status = "pending" /\ event[e].kind = "review" /\ event[e].tries = 0 /\ event[e].head # 0

QuietInv ==
  /\ rest \in [Events -> 0..ReviewDelay]
  /\ \A e \in Events : event[e].status = "pending" => event[e].tries \in Nat
  /\ \A e \in Events : Fresh(e) => event[e].wait \in Nat /\ rest[e] + event[e].wait >= ReviewDelay

(* What every step does to a pending event, but for those of webhooks, time *)
(* and the start of a follow-up: a deadline only moves on, unless a failure *)
(* is counted.                                                              *)
Calm(e) ==
  /\ event'[e].status = "pending" =>
       /\ event[e].status = "pending"
       /\ event'[e].kind = event[e].kind /\ event'[e].head = event[e].head
       /\ \/ event'[e].tries = event[e].tries
             /\ \/ event'[e].wait = event[e].wait
                \/ /\ event'[e].wait \in Nat
                   /\ event[e].wait \in Nat => event'[e].wait >= event[e].wait
          \/ event'[e].tries \in Nat \ {0}
  /\ event[e].status = "pending" => event'[e].status # "running"

AllCalm == \A e \in Events : Calm(e)

(* Calm steps keep the relation of deadlines and quiet periods. *)
LEMMA CalmKeeps ==
  ASSUME InboxAssumption, InboxInv, QuietInv, AllCalm, UNCHANGED rest
  PROVE  QuietInv' /\ \A e \in Has("pending") : event'[e].status # "running"
<1>1. \A e \in Events : rest[e] \in 0..ReviewDelay
  BY DEF QuietInv
<1>2. rest' \in [Events -> 0..ReviewDelay]
  BY DEF QuietInv
<1>3. \A e \in Events : event'[e].status = "pending" => event'[e].tries \in Nat
  BY DEF QuietInv, AllCalm, Calm
<1>4. \A e \in Events :
        Fresh(e)' => event'[e].wait \in Nat /\ rest[e] + event'[e].wait >= ReviewDelay
  BY <1>1 DEF QuietInv, AllCalm, Calm, Fresh, InboxAssumption
<1> QED
  BY <1>2, <1>3, <1>4 DEF QuietInv, AllCalm, Calm, Has

(* Events that are left alone are calm. *)
LEMMA NothingIsCalm == ASSUME UNCHANGED event PROVE AllCalm
BY DEF AllCalm, Calm

(* Yielding never brings a deadline forward (DeferForgeEvent). *)
LEMMA DeferIsCalm == ASSUME InboxAssumption, InboxInv, NEW es, Defer(es) PROVE AllCalm
<1> DEFINE early == {e \in es : event[e].wait < YieldDelay}
<1>1. CASE UNCHANGED event
  BY <1>1, NothingIsCalm
<1>2. CASE event' = [e \in Events |-> IF e \in early THEN [event[e] EXCEPT !.wait = YieldDelay]
                                      ELSE event[e]]
  <2> SUFFICES ASSUME NEW e \in Events PROVE Calm(e)
    BY DEF AllCalm
  <2>1. YieldDelay \in Nat
    BY DEF InboxAssumption
  <2>2. CASE e \in early
    <3>1. event'[e] = [event[e] EXCEPT !.wait = YieldDelay]
      BY <1>2, <2>2
    <3>2. event[e].wait < YieldDelay
      BY <2>2
    <3>3. /\ event'[e].wait = YieldDelay /\ event'[e].status = event[e].status
          /\ event'[e].kind = event[e].kind /\ event'[e].head = event[e].head
          /\ event'[e].tries = event[e].tries
      BY <3>1 DEF InboxInv, RowsOK, EventRows, NoEvent
    <3>4. event[e].wait \in Nat => YieldDelay >= event[e].wait
      BY <2>1, <3>2
    <3> QED
      BY <2>1, <3>3, <3>4 DEF Calm
  <2>3. CASE e \notin early
    BY <1>2, <2>3 DEF Calm
  <2> QED
    BY <2>2, <2>3
<1> QED
  BY <1>1, <1>2 DEF Defer, Delay

(* A failure is counted, of one event or of a batch. *)
LEMMA ErrorIsCalm ==
  ASSUME InboxInv, NEW es, NEW tries, RecordError(es, tries),
         \A e \in es : e \in Has("pending") => tries[e] \in Nat \ {0}
  PROVE  AllCalm
<1> SUFFICES ASSUME NEW e \in Events PROVE Calm(e)
  BY DEF AllCalm
<1>1. CASE e \in es
  <2>1. PICK wait : event'[e] = [event[e] EXCEPT !.wait = wait, !.tries = tries[e]]
    BY <1>1 DEF RecordError
  <2>2. /\ event'[e].tries = tries[e] /\ event'[e].status = event[e].status
        /\ event'[e].kind = event[e].kind /\ event'[e].head = event[e].head
    BY <2>1 DEF InboxInv, RowsOK, EventRows, NoEvent
  <2> QED
    BY <1>1, <2>2 DEF Calm, Has
<1>2. CASE e \notin es
  BY <1>2 DEF RecordError, Calm
<1> QED
  BY <1>1, <1>2

(* The count of a pending event goes up from zero. *)
LEMMA TriedCounts == ASSUME QuietInv, NEW e \in Has("pending") PROVE Tried(e) \in Nat \ {0}
<1>1. event[e].tries \in Nat
  BY DEF QuietInv, Has
<1> QED
  BY <1>1 DEF Tried

(* A transient error of one event. *)
LEMMA EventErrorIsCalm == ASSUME InboxInv, QuietInv, NEW e, RecordEventError(e) PROVE AllCalm
<1>1. CASE e \in Incomplete
  <2>1. RecordError({e}, [f \in {e} |-> Tried(f)])
    BY <1>1 DEF RecordEventError
  <2>2. \A f \in {e} : f \in Has("pending") => [g \in {e} |-> Tried(g)][f] \in Nat \ {0}
    BY TriedCounts
  <2> QED
    BY <2>1, <2>2, ErrorIsCalm
<1>2. CASE e \notin Incomplete
  BY <1>2, NothingIsCalm DEF RecordEventError
<1> QED
  BY <1>1, <1>2

(* A transient error of a batch, pending or running. *)
LEMMA BatchErrorIsCalm == ASSUME InboxInv, QuietInv, NEW es, RecordBatchError(es) PROVE AllCalm
<1>1. CASE SelectedPending(es)
  <2>1. RecordError(es, [e \in es |-> Tried(e)])
    BY <1>1 DEF RecordBatchError
  <2>2. \A f \in es : f \in Has("pending") => [e \in es |-> Tried(e)][f] \in Nat \ {0}
    BY TriedCounts
  <2> QED
    BY <2>1, <2>2, ErrorIsCalm
<1>2. CASE ~SelectedPending(es) /\ SelectedRunning(es)
  <2> DEFINE most == CHOOSE n \in {Tried(e) : e \in es} : \A e \in es : Tried(e) <= n
  <2>1. RecordError(es, [e \in es |-> most])
    BY <1>2 DEF RecordBatchError
  <2>2. \A f \in es : f \notin Has("pending")
    BY <1>2 DEF SelectedRunning, Has
  <2> QED
    BY <2>1, <2>2, ErrorIsCalm
<1>3. CASE ~SelectedPending(es) /\ ~SelectedRunning(es)
  BY <1>3, NothingIsCalm DEF RecordBatchError
<1> QED
  BY <1>1, <1>2, <1>3

(* What ends is pending no more. *)
LEMMA EndIsCalm ==
  ASSUME InboxInv, NEW es, NEW status \in {"handled", "failed"}, End(es, status) PROVE AllCalm
<1> SUFFICES ASSUME NEW e \in Events PROVE Calm(e)
  BY DEF AllCalm
<1>1. CASE e \in es
  <2>1. event'[e] = [event[e] EXCEPT !.status = status, !.wait = 0]
    BY <1>1 DEF End
  <2>2. event'[e].status = status
    BY <2>1 DEF InboxInv, RowsOK, EventRows, NoEvent
  <2> QED
    BY <2>2 DEF Calm
<1>2. CASE e \notin es
  BY <1>2 DEF End, Calm
<1> QED
  BY <1>1, <1>2

(* The transactions that end events, or find nothing to end. *)
LEMMA EndingIsCalm ==
  ASSUME InboxInv, NEW e, MarkForgeEventHandled(e) \/ FailForgeEvent(e) \/ FailForgeEventBatch(e)
  PROVE  AllCalm
BY EndIsCalm, NothingIsCalm DEF MarkForgeEventHandled, FailForgeEvent, FailForgeEventBatch

(* The steps of the pass and of the tasks, but the start of a follow-up. *)
LEMMA PassIsCalm ==
  ASSUME InboxAssumption, InboxInv, QuietInv, PassNext, \A t \in Tasks : ~StartForgeEvent(t)
  PROVE  AllCalm /\ UNCHANGED rest
<1> USE DEF KeepInbox
<1>1. CASE ListIncomplete \/ Take \/ MatchEvent \/ \E t \in Tasks : Launch(t)
  BY <1>1, NothingIsCalm DEF ListIncomplete, Take, MatchEvent, Launch
<1>2. CASE DeferSettling \/ DeferRecovered
  BY <1>2, DeferIsCalm DEF DeferSettling, DeferRecovered
<1>3. CASE Dismiss
  BY <1>3, EndingIsCalm DEF Dismiss
<1>4. CASE RecordOne
  BY <1>4, EndingIsCalm, EventErrorIsCalm DEF RecordOne
<1>5. CASE Record
  BY <1>5, EndingIsCalm, BatchErrorIsCalm, NothingIsCalm DEF Record
<1>6. CASE \E t \in Tasks : RecoverRunning(t)
  BY <1>6, EndingIsCalm, BatchErrorIsCalm, NothingIsCalm DEF RecoverRunning
<1> QED
  BY <1>1, <1>2, <1>3, <1>4, <1>5, <1>6 DEF PassNext

(* A task answers, fails or retries what runs for it. *)
LEMMA TaskIsCalm ==
  ASSUME InboxInv, QuietInv, NEW t \in Tasks,
         TaskNext(t) \/ Drain(t) \/ RequestCancellation(t) \/ Retry(t)
  PROVE  AllCalm /\ UNCHANGED rest
<1> USE DEF KeepInbox
<1>1. CASE Answer(t)
  BY <1>1, EndingIsCalm DEF Answer
<1>2. CASE Release(t) \/ Drain(t) \/ RequestCancellation(t) \/ Cancel(t)
  BY <1>2, NothingIsCalm DEF Release, Drain, RequestCancellation, Cancel
<1>3. CASE WorkerReports(t)
  BY <1>3, EndingIsCalm, BatchErrorIsCalm, NothingIsCalm DEF WorkerReports, KeepEvents
<1>4. CASE Retry(t)
  <2> SUFFICES ASSUME NEW e \in Events PROVE Calm(e)
    BY <1>4 DEF Retry, AllCalm
  <2>1. CASE e \in RunningOf(t)
    <3>1. event'[e] = [event[e] EXCEPT !.attempt = task'[t].attempt]
      BY <1>4, <2>1 DEF Retry
    <3>2. event'[e].status = event[e].status /\ event[e].status = "running"
      BY <2>1, <3>1 DEF InboxInv, RowsOK, EventRows, NoEvent, RunningOf, Has
    <3> QED
      BY <3>2 DEF Calm
  <2>2. CASE e \notin RunningOf(t)
    BY <1>4, <2>2 DEF Retry, Calm
  <2> QED
    BY <2>1, <2>2
<1> QED
  BY <1>1, <1>2, <1>3, <1>4 DEF TaskNext

(* A follow-up starts with events that are due, so their quiet period is    *)
(* over.                                                                    *)
LEMMA StartIsQuiet ==
  ASSUME InboxAssumption, InboxInv, QuietInv, NEW t \in Tasks, StartForgeEvent(t)
  PROVE  /\ QuietInv'
         /\ \A e \in Events : Fresh(e) /\ event'[e].status = "running" => rest[e] = ReviewDelay
<1> DEFINE es == pass.batch
<1>1. UNCHANGED rest
  BY DEF StartForgeEvent, KeepInbox
<1>2. CASE UNCHANGED event
  <2>1. QuietInv'
    BY <1>1, <1>2, NothingIsCalm, CalmKeeps
  <2> QED
    BY <1>2, <2>1 DEF Fresh
<1>3. ASSUME StillPending(es, t), StillDue(es),
             event' = [e \in Events |-> IF e \in es
                        THEN [event[e] EXCEPT !.status = "running", !.attempt = task'[t].attempt,
                                              !.tries = Tried(e), !.wait = 0] ELSE event[e]]
      PROVE  /\ QuietInv'
             /\ \A e \in Events : Fresh(e) /\ event'[e].status = "running" => rest[e] = ReviewDelay
  <2>1. \A e \in Events : IF e \in es THEN event'[e].status = "running" ELSE event'[e] = event[e]
    BY <1>3 DEF InboxInv, RowsOK, EventRows, NoEvent
  <2>2. \A e \in es : event[e].wait = 0
    BY <1>3 DEF StillDue, Due
  <2>3. QuietInv'
    BY <1>1, <2>1 DEF QuietInv, Fresh
  <2>4. \A e \in Events : Fresh(e) /\ event'[e].status = "running" => rest[e] = ReviewDelay
    <3> SUFFICES ASSUME NEW e \in Events, Fresh(e), event'[e].status = "running"
                 PROVE  rest[e] = ReviewDelay
      OBVIOUS
    <3>1. e \in es
      BY <2>1 DEF Fresh
    <3>2. rest[e] \in 0..ReviewDelay /\ rest[e] + event[e].wait >= ReviewDelay
      BY DEF QuietInv
    <3> QED
      BY <2>2, <3>1, <3>2 DEF InboxAssumption
  <2> QED
    BY <2>3, <2>4
<1> QED
  BY <1>2, <1>3 DEF StartForgeEvent

(* A webhook sets deadline and quiet period of the comments on its head     *)
(* together.                                                                *)
LEMMA WebhookIsQuiet ==
  ASSUME InboxAssumption, InboxInv, QuietInv, Webhook
  PROVE  QuietInv' /\ \A e \in Has("pending") : event'[e].status # "running"
<1>1. CASE UNCHANGED <<event, rest>>
  BY <1>1, NothingIsCalm, CalmKeeps
<1>2. ASSUME NEW kind \in {"review", "gate"}, NEW about, NEW head, posted < MaxEvents,
             PutForgeEvent(posted + 1, kind, about, head)
      PROVE  QuietInv' /\ \A e \in Has("pending") : event'[e].status # "running"
  <2> DEFINE new == [NoEvent EXCEPT !.status = "pending", !.kind = kind, !.about = about, !.head = head]
             wait == IF kind = "review" THEN ReviewDelay ELSE 0
             moved == Arrived(posted + 1, new)
             again(f) == f \in SameHead(f) /\ event[f].about = about /\ event[f].head = head
                         /\ kind = "review"
  <2>1. posted \in Nat /\ ~(posted + 1 <= posted)
    BY DEF InboxInv, RowsOK
  <2>2. /\ event' = [f \in Events |-> IF f \in moved
                       THEN [(IF f = posted + 1 THEN new ELSE event[f]) EXCEPT !.wait = wait]
                       ELSE event[f]]
        /\ rest' = [f \in Events |-> IF again(f) THEN 0 ELSE rest[f]]
    BY <1>2, <2>1 DEF PutForgeEvent
  <2>3. /\ DOMAIN new = DOMAIN NoEvent /\ new.status = "pending" /\ new.tries = 0
        /\ new.kind = kind /\ new.about = about /\ new.head = head
    BY DEF NoEvent
  <2>4. /\ posted + 1 \in moved
        /\ \A f \in moved \ {posted + 1} : event[f].status = "pending" /\ kind # "gate"
        /\ \A f \in Events : f \notin moved /\ event[f].status = "pending" /\ again(f) => FALSE
    BY <2>3 DEF Arrived, Has, SameHead
  <2>5. ReviewDelay \in Nat /\ wait \in 0..ReviewDelay
    BY DEF InboxAssumption
  <2> HIDE DEF new, moved, wait, again
  <2>6. rest' \in [Events -> 0..ReviewDelay]
    BY <2>2, <2>5 DEF QuietInv
  <2>7. ASSUME NEW f \in Events
        PROVE  /\ event'[f].status = "pending" => event'[f].tries \in Nat
               /\ Fresh(f)' => event'[f].wait \in Nat /\ rest'[f] + event'[f].wait >= ReviewDelay
               /\ event[f].status = "pending" => event'[f].status # "running"
    <3>1. rest'[f] \in 0..ReviewDelay
      BY <2>6
    <3>2. CASE f = posted + 1
      <4>1. event'[f] = [new EXCEPT !.wait = wait]
        BY <2>2, <2>4, <3>2
      <4>2. /\ event'[f].status = "pending" /\ event'[f].tries = 0 /\ event'[f].kind = kind
            /\ event'[f].wait = wait
        BY <2>3, <4>1 DEF NoEvent
      <4> QED
        BY <2>5, <3>1, <4>2 DEF Fresh, wait
    <3>3. CASE f # posted + 1 /\ f \in moved
      <4>1. event'[f] = [event[f] EXCEPT !.wait = wait]
        BY <2>2, <3>3
      <4>2. /\ event'[f].status = event[f].status /\ event'[f].tries = event[f].tries
            /\ event'[f].wait = wait
        BY <4>1 DEF InboxInv, RowsOK, EventRows, NoEvent
      <4>3. wait = ReviewDelay /\ event[f].status = "pending"
        BY <1>2, <2>4, <3>3 DEF wait
      <4> QED
        BY <2>5, <3>1, <4>2, <4>3 DEF QuietInv
    <3>4. CASE f # posted + 1 /\ f \notin moved
      <4>1. event'[f] = event[f]
        BY <2>2, <3>4
      <4>2. event[f].status = "pending" => rest'[f] = rest[f]
        BY <2>2, <2>4, <3>4
      <4> QED
        BY <4>1, <4>2 DEF QuietInv, Fresh
    <3> QED
      BY <3>2, <3>3, <3>4
  <2> QED
    BY <2>6, <2>7 DEF QuietInv, Has
<1> QED
  <2>1. CASE \E e \in 1..posted : PutForgeEvent(e, event[e].kind, event[e].about, event[e].head)
    <3>1. \A e \in 1..posted : e <= posted
      BY DEF InboxInv, RowsOK
    <3> QED
      BY <1>1, <2>1, <3>1 DEF PutForgeEvent
  <2> QED
    BY <1>2, <2>1 DEF Webhook

(* Time brings a deadline and the end of its quiet period as much nearer. *)
LEMMA TickIsQuiet ==
  ASSUME InboxAssumption, InboxInv, QuietInv, Tick
  PROVE  QuietInv' /\ \A e \in Has("pending") : event'[e].status # "running"
<1>1. ReviewDelay \in Nat /\ \A e \in Events : rest[e] \in 0..ReviewDelay
  BY DEF InboxAssumption, QuietInv
<1>2. \A e \in Events :
        /\ event'[e].status = event[e].status /\ event'[e].kind = event[e].kind
        /\ event'[e].head = event[e].head /\ event'[e].tries = event[e].tries
        /\ event'[e].wait = IF event[e].wait > 0 THEN event[e].wait - 1 ELSE event[e].wait
  BY DEF Tick, InboxInv, RowsOK, EventRows, NoEvent
<1>3. rest' \in [Events -> 0..ReviewDelay]
  BY <1>1 DEF Tick
<1>4. \A e \in Events :
        rest'[e] = IF event[e].status = "pending" /\ rest[e] < ReviewDelay THEN rest[e] + 1 ELSE rest[e]
  BY DEF Tick, Has
<1>5. \A e \in Events : Fresh(e)' => event'[e].wait \in Nat /\ rest'[e] + event'[e].wait >= ReviewDelay
  BY <1>1, <1>2, <1>4 DEF QuietInv, Fresh
<1>6. \A e \in Events : event'[e].status = "pending" => event'[e].tries \in Nat
  BY <1>2 DEF QuietInv
<1> QED
  BY <1>2, <1>3, <1>5, <1>6 DEF QuietInv, Has

(* Every step keeps the relation, and starts nothing but what is quiet. *)
LEMMA EveryStepIsQuiet ==
  ASSUME InboxAssumption, InboxInv, QuietInv, [InboxNext]_inboxVars
  PROVE  /\ QuietInv'
         /\ \A e \in Events : Fresh(e) /\ event'[e].status = "running" => rest[e] = ReviewDelay
<1>1. CASE \E t \in Tasks : StartForgeEvent(t)
  BY <1>1, StartIsQuiet
<1>2. CASE \A t \in Tasks : ~StartForgeEvent(t)
  <2>1. QuietInv' /\ \A e \in Has("pending") : event'[e].status # "running"
    <3>1. CASE Webhook
      BY <3>1, WebhookIsQuiet
    <3>2. CASE Tick
      BY <3>2, TickIsQuiet
    <3>3. CASE PassNext
      BY <1>2, <3>3, PassIsCalm, CalmKeeps
    <3>4. CASE \E t \in Tasks : TaskNext(t) \/ Drain(t) \/ RequestCancellation(t) \/ Retry(t)
      BY <3>4, TaskIsCalm, CalmKeeps
    <3>5. CASE Crash \/ UNCHANGED inboxVars
      BY <3>5, NothingIsCalm, CalmKeeps DEF Crash, inboxVars
    <3> QED
      BY <3>1, <3>2, <3>3, <3>4, <3>5 DEF InboxNext
  <2> QED
    BY <2>1 DEF Fresh, Has
<1> QED
  BY <1>1, <1>2

(* A review comment that did not fail before starts a follow-up only when   *)
(* the quiet period since the last comment on its head is over, however     *)
(* webhooks fall between the steps of a pass, and for any delays.           *)
THEOREM QuietPeriodHolds == InboxSpec => QuietPeriod
<1>1. InboxInit => QuietInv
  BY InboxAssumption DEF InboxInit, QuietInv, Fresh, NoEvent, InboxAssumption
<1>2. InboxInv /\ QuietInv /\ [InboxNext]_inboxVars => QuietInv'
  BY EveryStepIsQuiet, InboxAssumption
<1>3. InboxInv /\ QuietInv /\ [InboxNext]_inboxVars
      => [\A e \in Events :
            /\ event[e].status = "pending" /\ event'[e].status = "running"
            /\ event[e].kind = "review" /\ event[e].tries = 0 /\ event[e].head # 0
            => rest[e] = ReviewDelay]_inboxVars
  BY EveryStepIsQuiet, InboxAssumption DEF Fresh
<1> QED
  BY <1>1, <1>2, <1>3, InboxInvariant, PTL DEF InboxSpec, QuietPeriod

-----------------------------------------------------------------------------
(* The contract of module FeedbackContract, for each task *)

(* What the contract calls work in progress is what runs for the current    *)
(* attempt, since nothing runs for another.                                 *)
LEMMA WorkingIsRunning ==
  ASSUME InboxInv, NEW t \in Tasks
  PROVE  /\ FeedbackOn(t)!Working = RunningOf(t)
         /\ FeedbackOn(t)!Waiting = {e \in Events : FateOf(t)[e] = "pending"}
         /\ \A e \in RunningOf(t) : event[e].about = t /\ event[e].status = "running"
BY DEF InboxInv, BoundOnce, OwnsCurrent, FeedbackOn!Working, FeedbackOn!Waiting, FateOf, RunningOf,
       Bound, Has

(* Events that keep their fates look the same to every task. *)
LEMMA KeptLooksSame ==
  ASSUME NEW t \in Tasks, NEW e \in Events, Keeps(e)
  PROVE  FateOf(t)'[e] = FateOf(t)[e] /\ RoundOf(t)'[e] = RoundOf(t)[e]
BY DEF Keeps, FateOf, RoundOf

(* A task sees no change when its attempt and the view of each event stay.  *)
LEMMA SameView ==
  ASSUME NEW t \in Tasks, task'[t].attempt = task[t].attempt,
         \A e \in Events : FateOf(t)'[e] = FateOf(t)[e] /\ RoundOf(t)'[e] = RoundOf(t)[e]
  PROVE  UNCHANGED FeedbackOn(t)!feedbackVars
<1>1. FateOf(t)' = FateOf(t)
  BY DEF FateOf
<1>2. RoundOf(t)' = RoundOf(t)
  BY DEF RoundOf
<1> QED
  BY <1>1, <1>2 DEF FeedbackOn!feedbackVars

(* An event that is accepted waits, as it did for the contract before.      *)
LEMMA AcceptedLooksSame ==
  ASSUME InboxInv, RowsStep, SameAttempts, Accepted, NEW t \in Tasks
  PROVE  UNCHANGED FeedbackOn(t)!feedbackVars
<1>1. ASSUME NEW e \in Events PROVE FateOf(t)'[e] = FateOf(t)[e] /\ RoundOf(t)'[e] = RoundOf(t)[e]
  <2>1. CASE e # posted'
    BY <2>1, KeptLooksSame DEF Accepted
  <2>2. CASE e = posted'
    <3>1. event'[e].status = "pending" /\ event'[e].attempt = 0
      BY <2>2 DEF Accepted
    <3>2. event[e].status = "away" /\ event[e].attempt = 0
      BY <2>2 DEF InboxInv, RowsOK, BoundOnce, Accepted
    <3> QED
      BY <3>1, <3>2 DEF FateOf, RoundOf
  <2> QED
    BY <2>1, <2>2
<1> QED
  BY <1>1, SameView DEF SameAttempts

(* How a task sees that some events end: those about it do.                 *)
LEMMA EndedView ==
  ASSUME SameAttempts, NEW es \in SUBSET Events, NEW status \in {"handled", "failed"},
         Ended(es, status), NEW t \in Tasks
  PROVE  FeedbackOn(t)!Becomes({e \in es : event[e].about = t}, status)
<1> DEFINE mine == {e \in es : event[e].about = t}
<1>1. ASSUME NEW e \in Events
      PROVE  /\ FateOf(t)'[e] = IF e \in mine THEN status ELSE FateOf(t)[e]
             /\ RoundOf(t)'[e] = RoundOf(t)[e]
  <2>1. CASE e \in es
    <3>1. /\ event'[e].status = status /\ event'[e].about = event[e].about
          /\ event'[e].attempt = event[e].attempt
      BY <2>1 DEF Ended
    <3> QED
      BY <2>1, <3>1 DEF FateOf, RoundOf
  <2>2. CASE e \notin es
    BY <2>2, KeptLooksSame DEF Ended
  <2> QED
    BY <2>1, <2>2
<1>2. RoundOf(t)' = RoundOf(t)
  BY <1>1 DEF RoundOf
<1>3. FateOf(t)' = [e \in Events |-> IF e \in mine THEN status ELSE FateOf(t)[e]]
  <2>1. FateOf(t)' = [e \in Events |-> FateOf(t)'[e]]
    BY DEF FateOf
  <2> QED
    BY <1>1, <2>1
<1> QED
  BY <1>2, <1>3 DEF FeedbackOn!Becomes, SameAttempts

(* Events end as the contract has it: one is answered, or waiting ones, or  *)
(* all that a round works on, fail.                                         *)
LEMMA EndedRefines ==
  ASSUME InboxInv, SameAttempts, NEW es \in SUBSET Events, NEW status \in {"handled", "failed"},
         Ended(es, status), NEW t \in Tasks
  PROVE  FeedbackOn(t)!FeedbackNext \/ UNCHANGED FeedbackOn(t)!feedbackVars
<1> DEFINE mine == {e \in es : event[e].about = t}
<1>1. FeedbackOn(t)!Becomes(mine, status)
  BY EndedView
<1>2. ASSUME NEW e \in mine
      PROVE  /\ e \in Events /\ FateOf(t)[e] = event[e].status
             /\ event[e].status \in {"pending", "running"}
  BY DEF Ended, Incomplete, Has, FateOf
<1>3. CASE mine = {}
  <2>1. FateOf(t)' = [e \in Events |-> FateOf(t)[e]] /\ RoundOf(t)' = RoundOf(t)
    BY <1>1, <1>3 DEF FeedbackOn!Becomes
  <2>2. FateOf(t)' = FateOf(t)
    BY <2>1 DEF FateOf
  <2> QED
    BY <2>1, <2>2, SameView DEF SameAttempts
<1>4. CASE status = "handled" /\ mine # {}
  <2>1. PICK e \in mine : mine = {e}
    BY <1>4 DEF Ended
  <2>2. e \in FeedbackOn(t)!Waiting \cup FeedbackOn(t)!Working
    BY <1>2, <2>1 DEF FeedbackOn!Waiting, FeedbackOn!Working
  <2>3. FeedbackOn(t)!Answer
    BY <1>1, <1>4, <2>1, <2>2 DEF FeedbackOn!Answer
  <2> QED
    BY <2>3 DEF FeedbackOn!FeedbackNext
<1>5. CASE status = "failed" /\ es \subseteq Has("pending")
  <2>1. mine \in SUBSET FeedbackOn(t)!Waiting
    BY <1>2, <1>5 DEF FeedbackOn!Waiting, Has
  <2>2. FeedbackOn(t)!FailWaiting
    BY <1>1, <1>5, <2>1 DEF FeedbackOn!FailWaiting
  <2> QED
    BY <2>2 DEF FeedbackOn!FeedbackNext
<1>6. ASSUME status = "failed", mine # {}, NEW e \in es,
             es = Bound(event[e].about, event[e].attempt) \cap Has("running")
      PROVE  FeedbackOn(t)!FeedbackNext
  <2>1. event[e].about = t /\ event[e].attempt = task[t].attempt
    BY <1>6 DEF InboxInv, OwnsCurrent, Bound
  <2>2. mine = RunningOf(t)
    BY <1>6, <2>1 DEF RunningOf, Bound
  <2>3. FeedbackOn(t)!FailRound
    BY <1>1, <1>6, <2>2, WorkingIsRunning DEF FeedbackOn!FailRound
  <2> QED
    BY <2>3 DEF FeedbackOn!FeedbackNext
<1> QED
  BY <1>3, <1>4, <1>5, <1>6 DEF Ended

(* A follow-up or a retry of a task is its next round, and nothing to the   *)
(* others.                                                                  *)
LEMMA StartedRefines ==
  ASSUME InboxInv, NEW u \in Tasks, NEW es \in SUBSET Events, Started(u, es), NEW t \in Tasks
  PROVE  FeedbackOn(t)!FeedbackNext \/ UNCHANGED FeedbackOn(t)!feedbackVars
<1>1. CASE u # t
  <2>1. ASSUME NEW e \in Events PROVE FateOf(t)'[e] = FateOf(t)[e] /\ RoundOf(t)'[e] = RoundOf(t)[e]
    <3>1. CASE e \in es
      BY <1>1, <3>1 DEF Started, FateOf, RoundOf
    <3>2. CASE e \notin es
      BY <3>2, KeptLooksSame DEF Started
    <3> QED
      BY <3>1, <3>2
  <2> QED
    BY <1>1, <2>1, SameView DEF Started
<1>2. CASE u = t
  <2>1. ASSUME NEW e \in Events
        PROVE  /\ FateOf(t)'[e] = IF e \in es THEN "running" ELSE FateOf(t)[e]
               /\ RoundOf(t)'[e] = IF e \in es THEN task'[t].attempt ELSE RoundOf(t)[e]
    <3>1. CASE e \in es
      BY <1>2, <3>1 DEF Started, FateOf, RoundOf
    <3>2. CASE e \notin es
      BY <3>2, KeptLooksSame DEF Started
    <3> QED
      BY <3>1, <3>2
  <2>2. /\ FateOf(t)' = [e \in Events |-> FateOf(t)'[e]]
        /\ RoundOf(t)' = [e \in Events |-> RoundOf(t)'[e]]
    BY DEF FateOf, RoundOf
  <2>3. FeedbackOn(t)!NextRound(es)
    BY <1>2, <2>1, <2>2 DEF Started, FeedbackOn!NextRound
  <2>4. CASE es \subseteq Has("pending") /\ RunningOf(t) = {}
    <3>1. es \in SUBSET FeedbackOn(t)!Waiting
      BY <1>2, <2>4 DEF Started, FeedbackOn!Waiting, FateOf, Has
    <3>2. FeedbackOn(t)!Begin
      BY <2>3, <2>4, <3>1, WorkingIsRunning DEF FeedbackOn!Begin
    <3> QED
      BY <3>2 DEF FeedbackOn!FeedbackNext
  <2>5. CASE es = RunningOf(t)
    <3>1. FeedbackOn(t)!CarryOn
      BY <2>3, <2>5, WorkingIsRunning DEF FeedbackOn!CarryOn
    <3> QED
      BY <3>1 DEF FeedbackOn!FeedbackNext
  <2> QED
    BY <1>2, <2>4, <2>5 DEF Started
<1> QED
  BY <1>1, <1>2

(* Each of the four ways is a step of the contract, or none.                *)
LEMMA EventStepRefines ==
  ASSUME InboxInv, RowsStep, EventStep, NEW t \in Tasks
  PROVE  FeedbackOn(t)!FeedbackNext \/ UNCHANGED FeedbackOn(t)!feedbackVars
<1>1. CASE SameAttempts /\ \A e \in Events : Keeps(e)
  BY <1>1, KeptLooksSame, SameView DEF SameAttempts
<1> QED
  BY <1>1, AcceptedLooksSame, EndedRefines, StartedRefines DEF EventStep

(* Whatever webhooks, passes, workers, cancellations, retries and crashes   *)
(* do, the events about each task are treated as the contract says.         *)
THEOREM InboxKeepsContract == InboxSpec => KeepsFeedbackContract
<1>1. InboxInit => FeedbackBegins
  BY InboxAssumption
  DEF InboxAssumption, InboxInit, FeedbackBegins, FeedbackOn!FeedbackInit, FateOf, RoundOf,
      NoEvent, NewTask
<1>2. InboxInv /\ HoldsOK /\ [InboxNext]_inboxVars => [FeedbackMoves]_inboxVars
  BY EveryStep, EventStepRefines, InboxAssumption DEF FeedbackMoves
<1> QED
  BY <1>1, <1>2, InboxInvariant, PTL DEF InboxSpec, KeepsFeedbackContract

(* The same as a refinement: for each task the inbox implements the         *)
(* contract.                                                                *)
THEOREM InboxRefinesContract ==
  ASSUME NEW t \in Tasks PROVE InboxSpec => FeedbackOn(t)!FeedbackSpec
<1>1. InboxInit => FeedbackOn(t)!FeedbackInit
  BY InboxAssumption
  DEF InboxAssumption, InboxInit, FeedbackOn!FeedbackInit, FateOf, RoundOf, NoEvent, NewTask
<1>2. InboxInv /\ HoldsOK /\ [InboxNext]_inboxVars
      => [FeedbackOn(t)!FeedbackNext]_(FeedbackOn(t)!feedbackVars)
  BY EveryStep, EventStepRefines, InboxAssumption
<1> QED
  BY <1>1, <1>2, InboxInvariant, PTL DEF InboxSpec, FeedbackOn!FeedbackSpec

=============================================================================
