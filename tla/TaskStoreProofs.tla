-------------------------- MODULE TaskStoreProofs --------------------------
(***************************************************************************)
(* Proofs about TaskStore, for any number of attempts, worker events,      *)
(* commits, pull-request numbers, keys and forge events.  Each invariant   *)
(* is shown inductive relative to those before it.                         *)
(***************************************************************************)
EXTENDS TaskStore, TLAPS

USE DomainAssumption, StoreAssumption DEF DomainAssumption, StoreAssumption, Attempts

(* The rows the transactions write are rows of their tables. *)
LEMMA ValidationRows ==
  /\ \A e \in WorkerEvents : Opened(e) \in RunRows
  /\ \A r \in RunRows, e \in WorkerEvents \cup {NoEvent}, verdict \in {"succeeded", "failed"} :
       Closed(r, e, verdict) \in RunRows
  BY DEF RunRows, Opened, Closed

(* The rows the recording of results writes are rows of the tables.         *)
LEMMA ResultRows ==
  /\ NoGit \in GitRows /\ NoPullRequest \in PullRequestRows
  /\ \A c \in Commits : /\ [state |-> "candidate", sha |-> c] \in GitRows
                        /\ [state |-> "pushed", sha |-> c] \in GitRows
  /\ \A n \in Numbers : /\ [state |-> "reported", number |-> n] \in PullRequestRows
                        /\ [state |-> "open", number |-> n] \in PullRequestRows
  BY DEF GitRows, PullRequestRows, NoGit, NoPullRequest

(* The same for the rows of forge events.                                   *)
LEMMA ForgeRows ==
  /\ [status |-> "pending", attempt |-> 0] \in FeedbackRows
  /\ \A a \in Attempts : [status |-> "running", attempt |-> a] \in FeedbackRows
  /\ forge \in [Feedback -> FeedbackRows] =>
       \A f \in Feedback, status \in {"failed", "handled"} : Outcome(f, status) \in FeedbackRows
  BY DEF FeedbackRows, Outcome

(* One transaction keeps every column in its declared domain.              *)
LEMMA StoreTypeStep ==
  ASSUME StoreTypeOK, [StoreNext]_storeVars
  PROVE  StoreTypeOK'
<1> USE DEF StoreTypeOK, taskVars, attemptVars, eventVars, resultVars
<1>1. ASSUME NEW to \in States, Transition(state, to)
      PROVE  StoreTypeOK'
  BY <1>1 DEF Transition, MoveTo
<1>2. ASSUME NEW to \in States, TransitionClosingRuns(state, to)
      PROVE  StoreTypeOK'
  <2>1. RunningRows(current) \in SUBSET RunRows
    BY DEF RunningRows
  <2>2. {Closed(r, NoEvent, "failed") : r \in RunningRows(current)} \in SUBSET RunRows
    <3>1. \A r \in RunningRows(current) : Closed(r, NoEvent, "failed") \in RunRows
      BY <2>1, ValidationRows
    <3> QED
      BY ONLY <3>1, Zenon
  <2>3. runs' \in [Attempts -> SUBSET RunRows]
    BY <1>2, <2>2 DEF TransitionClosingRuns
  <2> QED
    BY <1>2, <2>3 DEF TransitionClosingRuns, MoveTo
<1>3. ASSUME NEW e \in WorkerEvents, TransitionValidating(state, e)
      PROVE  StoreTypeOK'
  <2>1. runs' = [runs EXCEPT ![current] = @ \cup {Opened(e)}] /\ Opened(e) \in RunRows
    BY <1>3, ValidationRows DEF TransitionValidating, StartRun
  <2>3. runs' \in [Attempts -> SUBSET RunRows]
    BY <2>1
  <2>2. "validating" \in States
    BY DEF States
  <2> QED
    BY <1>3, <2>2, <2>3 DEF TransitionValidating, MoveTo
<1>4. CASE RequestCancellation
  BY <1>4 DEF RequestCancellation
<1>5. ASSUME NEW v \in Versions, NEW key \in Keys \cup {NoKey}, RetryTaskOnce(key, v)
      PROVE  StoreTypeOK'
  <2> DEFINE next == current + 1
  <2>1. next \in Attempts /\ "queued" \in States
    BY <1>5 DEF RetryTaskOnce, States
  <2>2. /\ branch' \in [Attempts -> Attempts]
        /\ snapshot' \in [Attempts -> Versions \cup {NoVersion}]
        /\ pr' \in [Attempts -> PullRequestRows]
        /\ attemptState' \in [Attempts -> States]
    <3>1. \/ InsertAttempt(next, v, next, NoPullRequest)
          \/ InsertAttempt(next, v, branch[current], pr[current])
      BY <1>5 DEF RetryTaskOnce
    <3>2. attemptState' = [attemptState EXCEPT ![next] = "queued"]
      BY <3>1 DEF InsertAttempt
    <3>3. snapshot' = [snapshot EXCEPT ![next] = v]
      BY <3>1 DEF InsertAttempt
    <3>4. \/ pr' = [pr EXCEPT ![next] = NoPullRequest]
          \/ pr' = [pr EXCEPT ![next] = pr[current]]
      BY <3>1 DEF InsertAttempt
    <3>5. \/ branch' = [branch EXCEPT ![next] = next]
          \/ branch' = [branch EXCEPT ![next] = branch[current]]
      BY <3>1 DEF InsertAttempt
    <3>6. attemptState' \in [Attempts -> States]
      BY <2>1, <3>2
    <3>7. snapshot' \in [Attempts -> Versions \cup {NoVersion}]
      BY <2>1, <3>3
    <3>8. pr' \in [Attempts -> PullRequestRows]
      BY <2>1, <3>4, ResultRows
    <3>9. branch' \in [Attempts -> Attempts]
      BY <2>1, <3>5
    <3> QED
      BY <3>6, <3>7, <3>8, <3>9
  <2>3. forge' \in [Feedback -> FeedbackRows]
    BY <1>5, <2>1, ForgeRows DEF RetryTaskOnce
  <2>4. intents' \in [Keys -> Attempts \cup {0}]
    BY <1>5, <2>1 DEF RetryTaskOnce
  <2> QED
    BY <1>5, <2>1, <2>2, <2>3, <2>4 DEF RetryTaskOnce, InsertAttempt
<1>6. ASSUME NEW v \in Versions, NEW batch \in SUBSET Feedback,
             StartForgeEventAttempt(batch, v)
      PROVE  StoreTypeOK'
  <2> DEFINE next == current + 1
  <2>1. next \in Attempts /\ "queued" \in States
    BY <1>6 DEF StartForgeEventAttempt, States
  <2>2. /\ branch' \in [Attempts -> Attempts]
        /\ snapshot' \in [Attempts -> Versions \cup {NoVersion}]
        /\ pr' \in [Attempts -> PullRequestRows]
        /\ attemptState' \in [Attempts -> States]
    BY <1>6, <2>1 DEF StartForgeEventAttempt, InsertAttempt
  <2>3. forge' \in [Feedback -> FeedbackRows]
    BY <1>6, <2>1, ForgeRows DEF StartForgeEventAttempt
  <2> QED
    BY <1>6, <2>1, <2>2, <2>3 DEF StartForgeEventAttempt, InsertAttempt
<1>7. ASSUME NEW a \in Existing, NEW e \in WorkerEvents,
             RecordValidationStartedOnce(a, e)
      PROVE  StoreTypeOK'
  <2>1. runs' = [runs EXCEPT ![a] = @ \cup {Opened(e)}] /\ Opened(e) \in RunRows
    BY <1>7, ValidationRows DEF RecordValidationStartedOnce, StartRun
  <2>2. runs' \in [Attempts -> SUBSET RunRows]
    BY <2>1
  <2> QED
    BY <1>7, <2>2 DEF RecordValidationStartedOnce
<1>8. ASSUME NEW a \in Existing, NEW e \in WorkerEvents,
             NEW verdict \in {"succeeded", "failed"},
             RecordValidationResultOnce(a, e, verdict)
      PROVE  StoreTypeOK'
  <2>1. PICK r \in RunningRows(a) :
          runs' = [runs EXCEPT ![a] = (@ \ {r}) \cup {Closed(r, e, verdict)}]
    BY <1>8 DEF RecordValidationResultOnce
  <2>2. r \in RunRows
    BY <1>8, <2>1 DEF RunningRows, RecordValidationResultOnce
  <2>3. Closed(r, e, verdict) \in RunRows
    BY <2>2, ValidationRows
  <2>4. runs' \in [Attempts -> SUBSET RunRows]
    BY <2>1, <2>3
  <2> QED
    BY <1>8, <2>4 DEF RecordValidationResultOnce
<1>9. ASSUME NEW a \in Existing, NEW e \in WorkerEvents, AppendWorkerEvent(a, e)
      PROVE  StoreTypeOK'
  BY <1>9 DEF AppendWorkerEvent, Existing
<1>10. ASSUME NEW a \in Existing, NEW e \in WorkerEvents, MarkWorkerEventProcessed(a, e)
       PROVE  StoreTypeOK'
  BY <1>10 DEF MarkWorkerEventProcessed, Existing
<1>11. ASSUME NEW a \in Existing, NEW verdict \in {"succeeded", "failed"},
              MarkValidationComplete(a, verdict)
       PROVE  StoreTypeOK'
  BY <1>11 DEF MarkValidationComplete, Existing
<1>12. ASSUME NEW a \in Existing, NEW v \in Versions, SaveAttemptSnapshot(a, v)
       PROVE  StoreTypeOK'
  BY <1>12 DEF SaveAttemptSnapshot, Existing
<1>13. ASSUME NEW a \in Existing, MarkLogsExhausted(a)
       PROVE  StoreTypeOK'
  BY <1>13 DEF MarkLogsExhausted, Existing
<1>14. ASSUME NEW a \in Existing, NEW c \in Commits, NEW n \in Numbers,
              RecordPullRequestCandidate(a, c, n)
       PROVE  StoreTypeOK'
  BY <1>14, ResultRows DEF RecordPullRequestCandidate, Existing
<1>15. ASSUME NEW a \in Existing, NEW c \in Commits, NEW n \in Numbers,
              RecordVerifiedPullRequest(a, c, n)
       PROVE  StoreTypeOK'
  BY <1>15, ResultRows DEF RecordVerifiedPullRequest, Existing
<1>16. ASSUME NEW a \in Existing, FailRunningFeedback(a)
       PROVE  StoreTypeOK'
  <2>1. forge' \in [Feedback -> FeedbackRows]
    BY <1>16, ForgeRows DEF FailRunningFeedback
  <2>2. cancelRequested' \in BOOLEAN
    BY <1>16 DEF FailRunningFeedback
  <2> QED
    BY <1>16, <2>1, <2>2 DEF FailRunningFeedback
<1>17. ASSUME NEW batch \in SUBSET Feedback, FailPendingFeedback(batch)
       PROVE  StoreTypeOK'
  <2>1. forge' \in [Feedback -> FeedbackRows]
    BY <1>17, ForgeRows DEF FailPendingFeedback
  <2> QED
    BY <1>17, <2>1 DEF FailPendingFeedback
<1>18. ASSUME NEW f \in Feedback, MarkForgeEventHandled(f)
       PROVE  StoreTypeOK'
  <2>1. forge' \in [Feedback -> FeedbackRows]
    BY <1>18, ForgeRows DEF MarkForgeEventHandled
  <2> QED
    BY <1>18, <2>1 DEF MarkForgeEventHandled
<1>19. CASE UNCHANGED storeVars
  BY <1>19 DEF storeVars
<1> HIDE DEF StoreTypeOK
<1>20. LifecycleNext => StoreTypeOK'
  BY <1>1, <1>2, <1>3, <1>4 DEF LifecycleNext
<1>21. AttemptNext => StoreTypeOK'
  BY <1>5, <1>6 DEF AttemptNext
<1>22. ValidationNext => StoreTypeOK'
  BY <1>7, <1>8, <1>11 DEF ValidationNext
<1>23. LogNext => StoreTypeOK'
  BY <1>9, <1>10, <1>12, <1>13 DEF LogNext
<1>24. ResultNext => StoreTypeOK'
  BY <1>14, <1>15 DEF ResultNext
<1>25. ForgeNext => StoreTypeOK'
  BY <1>16, <1>17, <1>18 DEF ForgeNext
<1> QED
  BY <1>19, <1>20, <1>21, <1>22, <1>23, <1>24, <1>25 DEF StoreNext

(* The first row of a task is well typed. *)
LEMMA StoreTypeInit == StoreInit => StoreTypeOK
<1> SUFFICES ASSUME StoreInit PROVE StoreTypeOK
  OBVIOUS
<1>1. 1 \in Attempts
  OBVIOUS
<1>2. /\ NoGit \in GitRows /\ NoPullRequest \in PullRequestRows
      /\ [status |-> "pending", attempt |-> 0] \in FeedbackRows
  BY ResultRows, ForgeRows
<1>3. state \in States /\ current \in Attempts /\ cancelRequested \in BOOLEAN
  BY <1>1 DEF StoreInit, States
<1>4. /\ attemptState \in [Attempts -> States]
      /\ exhausted \in [Attempts -> BOOLEAN]
      /\ validation \in [Attempts -> {"", "succeeded", "failed"}]
      /\ snapshot \in [Attempts -> Versions \cup {NoVersion}]
  BY DEF StoreInit, States
<1>5. branch \in [Attempts -> Attempts]
  BY DEF StoreInit
<1>6. /\ inbox \in [Attempts -> SUBSET WorkerEvents]
      /\ processed \in [Attempts -> SUBSET WorkerEvents]
      /\ runs \in [Attempts -> SUBSET RunRows]
  BY DEF StoreInit
<1>7. /\ git \in [Attempts -> GitRows] /\ pr \in [Attempts -> PullRequestRows]
      /\ intents \in [Keys -> Attempts \cup {0}]
      /\ forge \in [Feedback -> FeedbackRows]
  BY <1>2 DEF StoreInit
<1> QED
  BY <1>3, <1>4, <1>5, <1>6, <1>7 DEF StoreTypeOK

(* Every transaction keeps every column in its declared domain. *)
THEOREM StoreTypeCorrect == StoreSpec => []StoreTypeOK
<1>1. StoreTypeOK /\ [StoreNext]_storeVars => StoreTypeOK'
  BY StoreTypeStep
<1> QED
  BY <1>1, StoreTypeInit, PTL DEF StoreSpec

-----------------------------------------------------------------------------
(* The shape of a step, shared by the invariants below. *)

(* A lifecycle transaction moves the current attempt along the machine or   *)
(* only requests cancellation.                                              *)
LEMMA LifecycleStep ==
  ASSUME StoreTypeOK, LifecycleNext
  PROVE  /\ UNCHANGED <<current, exhausted, snapshot, branch, inbox, processed,
                        git, pr, intents, forge>>
         /\ \/ \E to \in States : CanTransition(state, to) /\ MoveTo(to)
            \/ /\ state \notin Settled /\ cancelRequested'
               /\ UNCHANGED <<state, attemptState, runs>>
<1>1. ASSUME NEW to \in States, Transition(state, to) \/ TransitionClosingRuns(state, to)
      PROVE  /\ UNCHANGED <<current, exhausted, snapshot, branch, inbox, processed,
                            git, pr, intents, forge>>
             /\ CanTransition(state, to) /\ MoveTo(to)
  BY <1>1 DEF Transition, TransitionClosingRuns, eventVars, resultVars
<1>2. ASSUME NEW e \in WorkerEvents, TransitionValidating(state, e)
      PROVE  /\ UNCHANGED <<current, exhausted, snapshot, branch, inbox, processed,
                            git, pr, intents, forge>>
             /\ CanTransition(state, "validating") /\ MoveTo("validating")
             /\ "validating" \in States
  BY <1>2 DEF TransitionValidating, eventVars, resultVars, States
<1>3. CASE RequestCancellation
  BY <1>3 DEF RequestCancellation, attemptVars, eventVars, resultVars
<1> QED
  BY <1>1, <1>2, <1>3 DEF LifecycleNext

(* A new attempt starts only from a silent one; it either opens its own     *)
(* branch or continues the open pull request of its predecessor.            *)
LEMMA AttemptStep ==
  ASSUME StoreTypeOK, AttemptNext
  PROVE  /\ state \in PullRequestStates \cup {"failed"}
         /\ current + 1 \in Attempts
         /\ exhausted[current] /\ Pending(current) = {}
         /\ UNCHANGED <<exhausted, inbox, processed, runs, git>>
         /\ state' = "queued" /\ current' = current + 1 /\ cancelRequested' \in {FALSE, cancelRequested}
         /\ cancelRequested' => cancelRequested
         /\ attemptState' = [attemptState EXCEPT ![current + 1] = "queued"]
         /\ \E v \in Versions : snapshot' = [snapshot EXCEPT ![current + 1] = v]
         /\ \/ /\ branch' = [branch EXCEPT ![current + 1] = current + 1]
               /\ pr' = [pr EXCEPT ![current + 1] = NoPullRequest]
            \/ /\ pr[current].state = "open"
               /\ branch' = [branch EXCEPT ![current + 1] = branch[current]]
               /\ pr' = [pr EXCEPT ![current + 1] = pr[current]]
<1>1. ASSUME NEW v \in Versions, NEW key \in Keys \cup {NoKey}, RetryTaskOnce(key, v)
      PROVE  /\ state = "failed"
             /\ current + 1 \in Attempts
             /\ exhausted[current] /\ Pending(current) = {}
             /\ cancelRequested' = FALSE
             /\ \/ InsertAttempt(current + 1, v, current + 1, NoPullRequest)
                \/ /\ pr[current].state = "open"
                   /\ InsertAttempt(current + 1, v, branch[current], pr[current])
  BY <1>1 DEF RetryTaskOnce, CanRetry, LegalRetry
<1>2. ASSUME NEW v \in Versions, NEW batch \in SUBSET Feedback,
             StartForgeEventAttempt(batch, v)
      PROVE  /\ state \in PullRequestStates
             /\ current + 1 \in Attempts
             /\ exhausted[current] /\ Pending(current) = {}
             /\ cancelRequested' = cancelRequested
             /\ pr[current].state = "open"
             /\ InsertAttempt(current + 1, v, branch[current], pr[current])
  BY <1>2 DEF StartForgeEventAttempt, CanFollowUp, LegalFollowUp
<1>3. PICK v \in Versions :
        \/ \E key \in Keys \cup {NoKey} : RetryTaskOnce(key, v)
        \/ \E batch \in SUBSET Feedback : StartForgeEventAttempt(batch, v)
  BY DEF AttemptNext
<1>4. /\ state \in PullRequestStates \cup {"failed"}
      /\ current + 1 \in Attempts
      /\ exhausted[current] /\ Pending(current) = {}
      /\ cancelRequested' \in {FALSE, cancelRequested}
      /\ cancelRequested' => cancelRequested
  BY <1>1, <1>2, <1>3
<1>5. \/ InsertAttempt(current + 1, v, current + 1, NoPullRequest)
      \/ /\ pr[current].state = "open"
         /\ InsertAttempt(current + 1, v, branch[current], pr[current])
  BY <1>1, <1>2, <1>3
<1> QED
  BY <1>4, <1>5 DEF InsertAttempt, eventVars

(* Every other transaction leaves the lifecycle alone. *)
LEMMA OtherSteps ==
  ASSUME ValidationNext \/ LogNext \/ ResultNext
  PROVE  UNCHANGED <<state, current, cancelRequested, attemptState, branch, intents, forge>>
<1>1. CASE ValidationNext
  BY <1>1 DEF ValidationNext, RecordValidationResultOnce, RecordValidationStartedOnce,
              MarkValidationComplete, taskVars, attemptVars
<1>2. CASE LogNext
  BY <1>2 DEF LogNext, AppendWorkerEvent, MarkWorkerEventProcessed, SaveAttemptSnapshot,
              MarkLogsExhausted, taskVars, attemptVars
<1>3. CASE ResultNext
  BY <1>3 DEF ResultNext, RecordPullRequestCandidate, RecordVerifiedPullRequest,
              taskVars, attemptVars
<1> QED
  BY <1>1, <1>2, <1>3

(* Transactions on forge events touch nothing else but the request for     *)
(* cancellation, which they never make of a settled task.                   *)
LEMMA ForgeStep ==
  ASSUME StoreTypeOK, ForgeNext
  PROVE  /\ UNCHANGED <<state, current, attemptState, exhausted, snapshot, branch, inbox,
                        processed, runs, git, pr, intents>>
         /\ cancelRequested => cancelRequested'
         /\ cancelRequested' => cancelRequested \/ state \notin Settled
<1>1. ASSUME NEW a \in Existing, FailRunningFeedback(a)
      PROVE  /\ UNCHANGED <<state, current, attemptState, exhausted, snapshot, branch, inbox,
                            processed, runs, git, pr, intents>>
             /\ cancelRequested => cancelRequested'
             /\ cancelRequested' => cancelRequested \/ state \notin Settled
  <2>1. UNCHANGED <<state, current, attemptState, exhausted, snapshot, branch, inbox,
                    processed, runs, git, pr, intents>>
    BY <1>1 DEF FailRunningFeedback, attemptVars, eventVars, resultVars
  <2>2. cancelRequested' = (cancelRequested \/ (a = current /\ state \notin Settled))
    BY <1>1 DEF FailRunningFeedback
  <2> QED
    BY <2>1, <2>2, Zenon
<1>2. ASSUME \/ \E batch \in SUBSET Feedback : FailPendingFeedback(batch)
             \/ \E f \in Feedback : MarkForgeEventHandled(f)
      PROVE  UNCHANGED <<state, current, attemptState, exhausted, snapshot, branch, inbox,
                         processed, runs, git, pr, intents, cancelRequested>>
  BY <1>2 DEF FailPendingFeedback, MarkForgeEventHandled, taskVars, attemptVars,
              eventVars, resultVars
<1> QED
  BY <1>1, <1>2 DEF ForgeNext

-----------------------------------------------------------------------------
(* No transaction leaves a pending cancellation on a settled task.          *)
THEOREM CancellationLive == StoreSpec => []CancellationIsLive
<1>1. StoreInit => CancellationIsLive
  BY DEF StoreInit, CancellationIsLive
<1>2. StoreTypeOK /\ CancellationIsLive /\ [StoreNext]_storeVars => CancellationIsLive'
  <2> SUFFICES ASSUME StoreTypeOK, CancellationIsLive, [StoreNext]_storeVars
               PROVE  CancellationIsLive'
    OBVIOUS
  <2>1. CASE LifecycleNext
    <3>1. ASSUME NEW to \in States, CanTransition(state, to), MoveTo(to)
          PROVE  cancelRequested' => state' \notin Settled
      BY <3>1 DEF CanTransition, MoveTo, Settled
    <3> QED
      BY <2>1, <3>1, LifecycleStep DEF CancellationIsLive
  <2>2. CASE AttemptNext
    BY <2>2, AttemptStep DEF CancellationIsLive, Settled
  <2>3. CASE ValidationNext \/ LogNext \/ ResultNext
    BY <2>3, OtherSteps DEF CancellationIsLive
  <2>4. CASE ForgeNext
    BY <2>4, ForgeStep DEF CancellationIsLive
  <2>5. CASE UNCHANGED storeVars
    BY <2>5 DEF storeVars, CancellationIsLive
  <2> QED
    BY <2>1, <2>2, <2>3, <2>4, <2>5 DEF StoreNext
<1> QED
  BY <1>1, <1>2, StoreTypeCorrect, PTL DEF StoreSpec

(* After a request, a transaction leaves the task where it is or cancels it. *)
LEMMA CancellationStep ==
  ASSUME StoreTypeOK, CancellationIsLive, [StoreNext]_storeVars, cancelRequested
  PROVE  /\ current' = current
         /\ \/ state' = state /\ cancelRequested'
            \/ state' = "cancelled" /\ ~cancelRequested'
<1>0. CASE UNCHANGED storeVars
  BY <1>0 DEF storeVars
<1>1. CASE LifecycleNext
  <2>1. ASSUME NEW to \in States, CanTransition(state, to), MoveTo(to)
        PROVE  state' = "cancelled" /\ ~cancelRequested'
    BY <2>1 DEF CanTransition, MoveTo
  <2> QED
    BY <1>1, <2>1, LifecycleStep
<1>2. CASE AttemptNext
  <2>1. state # "failed"
    BY DEF CancellationIsLive, Settled
  <2>2. ASSUME NEW v \in Versions, NEW key \in Keys \cup {NoKey}, RetryTaskOnce(key, v)
        PROVE  FALSE
    BY <2>1, <2>2 DEF RetryTaskOnce, CanRetry, LegalRetry
  <2>3. ASSUME NEW v \in Versions, NEW batch \in SUBSET Feedback,
               StartForgeEventAttempt(batch, v)
        PROVE  FALSE
    BY <2>3 DEF StartForgeEventAttempt, CanFollowUp
  <2> QED
    BY <1>2, <2>2, <2>3 DEF AttemptNext
<1>3. CASE ValidationNext \/ LogNext \/ ResultNext
  BY <1>3, OtherSteps
<1>4. CASE ForgeNext
  BY <1>4, ForgeStep
<1> QED
  BY <1>0, <1>1, <1>2, <1>3, <1>4 DEF StoreNext

(* After a request the task only waits, on the same attempt, for CANCELLED. *)
THEOREM CancellationDecides == StoreSpec => CancellationOwnsOutcome
<1>1. StoreTypeOK /\ CancellationIsLive /\ [StoreNext]_storeVars
        => [cancelRequested =>
              /\ current' = current
              /\ \/ state' = state /\ cancelRequested'
                 \/ state' = "cancelled" /\ ~cancelRequested']_storeVars
  BY CancellationStep
<1> QED
  BY <1>1, StoreTypeCorrect, CancellationLive, PTL DEF StoreSpec, CancellationOwnsOutcome

-----------------------------------------------------------------------------
(* A predecessor's log barrier is closed and its worker events are all      *)
(* processed, and no transaction can open either again.                     *)
THEOREM PredecessorsSilent == StoreSpec => []PredecessorsAreSilent
<1>1. StoreInit => PredecessorsAreSilent
  <2> SUFFICES ASSUME StoreInit, NEW p \in 1..(current - 1)
               PROVE  FALSE
    BY DEF PredecessorsAreSilent
  <2>1. current = 1
    BY DEF StoreInit
  <2> QED
    BY <2>1
<1>2. StoreTypeOK /\ PredecessorsAreSilent /\ [StoreNext]_storeVars => PredecessorsAreSilent'
  <2> SUFFICES ASSUME StoreTypeOK, PredecessorsAreSilent, [StoreNext]_storeVars,
                      NEW p \in 1..(current' - 1)
               PROVE  exhausted'[p] /\ inbox'[p] \subseteq processed'[p]
    BY DEF PredecessorsAreSilent, Pending
  <2>1. current \in Attempts
    BY DEF StoreTypeOK
  <2>2. p \in 1..(current - 1) => exhausted[p] /\ inbox[p] \subseteq processed[p]
    BY DEF PredecessorsAreSilent, Pending
  <2>3. CASE UNCHANGED <<current, exhausted, inbox, processed>>
    BY <2>2, <2>3
  <2>4. CASE AttemptNext
    <3>1. current' = current + 1 /\ exhausted[current] /\ inbox[current] \subseteq processed[current]
      BY <2>4, AttemptStep DEF Pending
    <3>2. UNCHANGED <<exhausted, inbox, processed>>
      BY <2>4, AttemptStep
    <3>3. p = current \/ p \in 1..(current - 1)
      BY <2>1, <3>1
    <3> QED
      BY <2>2, <3>1, <3>2, <3>3
  <2>5. CASE LogNext
    <3>1. current' = current /\ p \in 1..(current - 1)
      BY <2>5, OtherSteps
    <3>2. p \in Attempts /\ p # current
      BY <2>1, <3>1
    <3>3. ASSUME NEW a \in Existing, NEW e \in WorkerEvents,
                 AppendWorkerEvent(a, e) \/ MarkWorkerEventProcessed(a, e)
          PROVE  exhausted'[p] /\ inbox'[p] \subseteq processed'[p]
      <4>1. exhausted' = exhausted
        BY <3>3 DEF AppendWorkerEvent, MarkWorkerEventProcessed, attemptVars
      <4>2. inbox'[p] = inbox[p] /\ processed[p] \subseteq processed'[p]
        <5>1. CASE AppendWorkerEvent(a, e)
          BY <3>2, <5>1 DEF AppendWorkerEvent, Appendable, StoreTypeOK
        <5>2. CASE MarkWorkerEventProcessed(a, e)
          BY <3>2, <5>2 DEF MarkWorkerEventProcessed, StoreTypeOK
        <5> QED
          BY <3>3, <5>1, <5>2
      <4> QED
        BY <2>2, <3>1, <4>1, <4>2
    <3>4. ASSUME NEW a \in Existing, NEW v \in Versions, SaveAttemptSnapshot(a, v)
          PROVE  exhausted'[p] /\ inbox'[p] \subseteq processed'[p]
      BY <2>2, <3>1, <3>4 DEF SaveAttemptSnapshot, eventVars
    <3>5. ASSUME NEW a \in Existing, MarkLogsExhausted(a)
          PROVE  exhausted'[p] /\ inbox'[p] \subseteq processed'[p]
      BY <2>2, <3>1, <3>2, <3>5 DEF MarkLogsExhausted, eventVars, StoreTypeOK
    <3> QED
      BY <2>5, <3>3, <3>4, <3>5 DEF LogNext
  <2>6. CASE ValidationNext \/ ResultNext
    <3>1. UNCHANGED <<current, exhausted, inbox, processed>>
      BY <2>6 DEF ValidationNext, RecordValidationResultOnce, RecordValidationStartedOnce,
                  MarkValidationComplete, ResultNext, RecordPullRequestCandidate,
                  RecordVerifiedPullRequest, taskVars, attemptVars, eventVars
    <3> QED
      BY <2>3, <3>1
  <2> QED
    BY <2>3, <2>4, <2>5, <2>6, LifecycleStep, ForgeStep DEF StoreNext, storeVars
<1> QED
  BY <1>1, <1>2, StoreTypeCorrect, PTL DEF StoreSpec

-----------------------------------------------------------------------------
(* Between PR_OPEN and READY the machine only moves inside that range, so   *)
(* the gate of Transition is the only way in.                               *)
LEMMA EnteredThroughGate ==
  ASSUME NEW from, NEW to \in {"waiting_ci", "waiting_review"}, LegalTransition(from, to)
  PROVE  from \in PullRequestStates
<1>1. PICK i \in 1..13 : lifecycle[i] = from /\ lifecycle[i + 1] = to
  BY DEF LegalTransition
<1>2. i \in {11, 12}
  <2>1. i \in {1, 2, 3, 4, 5, 6, 7, 8, 9, 10, 11, 12, 13}
    OBVIOUS
  <2> QED
    BY <1>1, <2>1 DEF lifecycle
<1> QED
  BY <1>1, <1>2 DEF lifecycle, PullRequestStates

(* The attempts of the task are numbered within the bound. *)
LEMMA ExistingRows == StoreTypeOK => Existing \subseteq Attempts
<1> SUFFICES ASSUME StoreTypeOK, NEW a \in Existing PROVE a \in Attempts
  OBVIOUS
<1>1. current \in Attempts
  BY DEF StoreTypeOK
<1> QED
  BY <1>1 DEF Existing

(* What recording a candidate or a verified result does to the rows of any  *)
(* attempt p: verified rows stay, an unverified pull request can only keep  *)
(* its number.                                                              *)
LEMMA ResultStep ==
  ASSUME StoreTypeOK, ResultNext, NEW p \in Attempts
  PROVE  /\ UNCHANGED <<exhausted, snapshot, inbox, processed, runs>>
         /\ git[p].state = "pushed" => git'[p] = git[p]
         /\ pr[p].state = "open" => pr'[p] = pr[p]
         /\ p \notin Existing => pr'[p] = pr[p]
<1>1. ASSUME NEW a \in Existing, NEW c \in Commits, NEW n \in Numbers,
             RecordPullRequestCandidate(a, c, n)
      PROVE  /\ UNCHANGED <<exhausted, snapshot, inbox, processed, runs>>
             /\ git[p].state = "pushed" => git'[p] = git[p]
             /\ pr[p].state = "open" => pr'[p] = pr[p]
             /\ p \notin Existing => pr'[p] = pr[p]
  <2>1. UNCHANGED <<exhausted, snapshot, inbox, processed, runs>>
    BY <1>1 DEF RecordPullRequestCandidate, attemptVars, eventVars
  <2>2. git[p].state = "pushed" => git'[p] = git[p]
    BY <1>1 DEF RecordPullRequestCandidate, StoreTypeOK
  <2>3. pr[p].state = "open" => pr[p] # NoPullRequest
    BY DEF NoPullRequest
  <2>4. /\ pr[p] # NoPullRequest => pr'[p] = pr[p]
        /\ p # a => pr'[p] = pr[p]
    BY <1>1 DEF RecordPullRequestCandidate, StoreTypeOK
  <2> QED
    BY <2>1, <2>2, <2>3, <2>4
<1>2. ASSUME NEW a \in Existing, NEW c \in Commits, NEW n \in Numbers,
             RecordVerifiedPullRequest(a, c, n)
      PROVE  /\ UNCHANGED <<exhausted, snapshot, inbox, processed, runs>>
             /\ git[p].state = "pushed" => git'[p] = git[p]
             /\ pr[p].state = "open" => pr'[p] = pr[p]
             /\ p \notin Existing => pr'[p] = pr[p]
  <2>1. UNCHANGED <<exhausted, snapshot, inbox, processed, runs>>
    BY <1>2 DEF RecordVerifiedPullRequest, attemptVars, eventVars
  <2>2. p # a => git'[p] = git[p] /\ pr'[p] = pr[p]
    BY <1>2 DEF RecordVerifiedPullRequest, StoreTypeOK
  <2>3. /\ git'[a] = [state |-> "pushed", sha |-> c]
        /\ pr'[a] = [state |-> "open", number |-> n]
    BY <1>2, ExistingRows DEF RecordVerifiedPullRequest, StoreTypeOK
  <2>4. git[a].state = "pushed" => git[a] = [state |-> "pushed", sha |-> c]
    BY <1>2 DEF RecordVerifiedPullRequest, CanRecordVerified
  <2>5. pr[a].number = n
    BY <1>2 DEF RecordVerifiedPullRequest, CanRecordVerified
  <2>6. pr[a].state = "open" => pr[a] = [state |-> "open", number |-> n]
    <3>1. pr[a] \in PullRequestRows
      BY ExistingRows DEF StoreTypeOK
    <3> QED
      BY <2>5, <3>1 DEF PullRequestRows
  <2> QED
    BY <2>1, <2>2, <2>3, <2>4, <2>6
<1> QED
  BY <1>1, <1>2 DEF ResultNext

(* The PR_OPEN..READY states always rest on a pushed commit and an open     *)
(* pull request of the current attempt.                                     *)
THEOREM PullRequestDurable == StoreSpec => []PullRequestIsDurable
<1>1. StoreInit => PullRequestIsDurable
  BY DEF StoreInit, PullRequestIsDurable, PullRequestStates
<1>2. StoreTypeOK /\ PullRequestIsDurable /\ [StoreNext]_storeVars => PullRequestIsDurable'
  <2> SUFFICES ASSUME StoreTypeOK, PullRequestIsDurable, [StoreNext]_storeVars,
                      state' \in PullRequestStates
               PROVE  DurablePullRequest(current)'
    BY DEF PullRequestIsDurable
  <2>1. current \in Attempts
    BY DEF StoreTypeOK
  <2>2. CASE UNCHANGED <<state, current, git, pr>>
    BY <2>2 DEF PullRequestIsDurable, DurablePullRequest
  <2>3. CASE LifecycleNext
    <3>1. UNCHANGED <<current, git, pr>>
      BY <2>3, LifecycleStep
    <3>2. ASSUME NEW to \in States, CanTransition(state, to), MoveTo(to)
          PROVE  DurablePullRequest(current)
      <4>1. to \in PullRequestStates /\ LegalTransition(state, to)
        BY <3>2 DEF CanTransition, MoveTo
      <4>2. CASE to \in {"pr_open", "ready"}
        BY <3>2, <4>2 DEF CanTransition
      <4>3. CASE to \in {"waiting_ci", "waiting_review"}
        BY <4>1, <4>3, EnteredThroughGate DEF PullRequestIsDurable
      <4> QED
        BY <4>1, <4>2, <4>3 DEF PullRequestStates
    <3> QED
      BY <2>2, <2>3, <3>1, <3>2, LifecycleStep DEF DurablePullRequest
  <2>4. CASE AttemptNext
    BY <2>4, AttemptStep DEF PullRequestStates
  <2>5. CASE ResultNext
    BY <2>1, <2>5, ResultStep, OtherSteps DEF PullRequestIsDurable, DurablePullRequest
  <2>6. CASE ValidationNext \/ LogNext
    <3>1. UNCHANGED <<git, pr>>
      BY <2>6 DEF ValidationNext, RecordValidationResultOnce, RecordValidationStartedOnce,
                  MarkValidationComplete, LogNext, AppendWorkerEvent, MarkWorkerEventProcessed,
                  SaveAttemptSnapshot, MarkLogsExhausted, resultVars
    <3> QED
      BY <2>2, <2>6, <3>1, OtherSteps
  <2> QED
    BY <2>2, <2>3, <2>4, <2>5, <2>6, ForgeStep DEF StoreNext, storeVars
<1> QED
  BY <1>1, <1>2, StoreTypeCorrect, PTL DEF StoreSpec

-----------------------------------------------------------------------------
(* The branch invariant behind OnePullRequestPerBranch: attempts that share *)
(* a branch all carry the same open pull request, and a branch is named     *)
(* after an attempt no younger than its user.                               *)
SharedBranches ==
  /\ \A a \in Attempts : branch[a] <= a
  /\ \A a, b \in Existing : a # b /\ branch[a] = branch[b] =>
       pr[a].state = "open" /\ pr[b] = pr[a]

(* Inserts keep it, and results never change an open row. *)
LEMMA BranchesShared == StoreSpec => []SharedBranches
<1>1. StoreInit => SharedBranches
  <2> SUFFICES ASSUME StoreInit PROVE SharedBranches
    OBVIOUS
  <2>1. \A a \in Attempts : branch[a] <= a
    <3>1. branch = [a \in Attempts |-> a]
      BY DEF StoreInit
    <3> QED
      BY <3>1
  <2>2. \A a, b \in Existing : a = b
    <3>1. current = 1
      BY DEF StoreInit
    <3> QED
      BY <3>1 DEF Existing
  <2> QED
    BY <2>1, <2>2 DEF SharedBranches
<1>2. StoreTypeOK /\ SharedBranches /\ [StoreNext]_storeVars => SharedBranches'
  <2> SUFFICES ASSUME StoreTypeOK, SharedBranches, [StoreNext]_storeVars
               PROVE  SharedBranches'
    OBVIOUS
  <2>1. current \in Attempts /\ branch \in [Attempts -> Attempts]
    BY DEF StoreTypeOK
  <2>2. CASE UNCHANGED <<current, branch, pr>>
    BY <2>2 DEF SharedBranches, Existing
  <2>3. CASE ResultNext
    <3>1. UNCHANGED <<current, branch>>
      BY <2>3, OtherSteps
    <3>2. \A a \in Attempts : pr[a].state = "open" => pr'[a] = pr[a]
      BY <2>3, ResultStep
    <3> QED
      BY <3>1, <3>2, ExistingRows DEF SharedBranches, Existing
  <2>4. CASE AttemptNext
    <3> DEFINE next == current + 1
    <3>1. /\ next \in Attempts /\ current' = next
          /\ \/ /\ branch' = [branch EXCEPT ![next] = next]
                /\ pr' = [pr EXCEPT ![next] = NoPullRequest]
             \/ /\ pr[current].state = "open"
                /\ branch' = [branch EXCEPT ![next] = branch[current]]
                /\ pr' = [pr EXCEPT ![next] = pr[current]]
      BY <2>4, AttemptStep
    <3>2. /\ next \notin Existing /\ Existing' = Existing \cup {next}
          /\ current \in Existing /\ current < next
          /\ \A a \in Existing : a \in Attempts /\ a < next
      BY <2>1, <3>1 DEF Existing
    <3>3. \A a \in Existing : branch'[a] = branch[a] /\ pr'[a] = pr[a]
      BY <2>1, <3>1, <3>2 DEF StoreTypeOK
    <3>4. \/ branch'[next] = next
          \/ /\ pr[current].state = "open"
             /\ branch'[next] = branch[current] /\ pr'[next] = pr[current]
      BY <2>1, <3>1 DEF StoreTypeOK
    <3>5. \A a \in Attempts : branch'[a] <= a
      <4>1. \A a \in Attempts \ {next} : branch'[a] = branch[a]
        BY <2>1, <3>1
      <4>2. branch'[next] <= next
        <5>1. branch[current] <= current
          BY <2>1 DEF SharedBranches
        <5> QED
          BY <2>1, <3>1, <3>4, <5>1
      <4> QED
        BY <4>1, <4>2 DEF SharedBranches
    <3>6. \A a \in Existing : branch'[a] = branch'[next] =>
            pr'[a].state = "open" /\ pr'[next] = pr'[a]
      <4> SUFFICES ASSUME NEW a \in Existing, branch'[a] = branch'[next]
                   PROVE  pr'[a].state = "open" /\ pr'[next] = pr'[a]
        OBVIOUS
      <4>1. branch[a] < next
        BY <2>1, <3>1, <3>2 DEF SharedBranches
      <4>2. /\ pr[current].state = "open"
            /\ branch[a] = branch[current] /\ pr'[next] = pr[current]
        BY <2>1, <3>1, <3>2, <3>3, <3>4, <4>1
      <4>3. pr[a] = pr[current]
        BY <3>2, <4>2 DEF SharedBranches
      <4> QED
        BY <3>3, <4>2, <4>3
    <3>7. \A a, b \in Existing : a # b /\ branch'[a] = branch'[b] =>
            pr'[a].state = "open" /\ pr'[b] = pr'[a]
      BY <3>3 DEF SharedBranches
    <3> HIDE DEF next
    <3> QED
      BY <3>2, <3>5, <3>6, <3>7 DEF SharedBranches
  <2>5. CASE ValidationNext \/ LogNext
    <3>1. UNCHANGED pr
      BY <2>5 DEF ValidationNext, RecordValidationResultOnce, RecordValidationStartedOnce,
                  MarkValidationComplete, LogNext, AppendWorkerEvent, MarkWorkerEventProcessed,
                  SaveAttemptSnapshot, MarkLogsExhausted, resultVars
    <3> QED
      BY <2>2, <2>5, <3>1, OtherSteps
  <2> QED
    BY <2>2, <2>3, <2>4, <2>5, LifecycleStep, ForgeStep DEF StoreNext, storeVars
<1> QED
  BY <1>1, <1>2, StoreTypeCorrect, PTL DEF StoreSpec

(* The open pull-request rows of one branch name one provider pull request, *)
(* through any mix of retries and follow-ups.                               *)
THEOREM OneNumberPerBranch == StoreSpec => []OnePullRequestPerBranch
<1>1. SharedBranches => OnePullRequestPerBranch
  BY DEF SharedBranches, OnePullRequestPerBranch
<1> QED
  BY <1>1, BranchesShared, PTL

-----------------------------------------------------------------------------
(* Running forge events follow the current attempt, whose open pull request *)
(* they concern, through every retry and follow-up.                         *)
THEOREM FeedbackFollowsCurrent == StoreSpec => []FeedbackOwnsCurrentAttempt
<1> DEFINE Owns(f) == forge[f].status = "running" =>
                        forge[f].attempt = current /\ pr[current].state = "open"
<1>0. FeedbackOwnsCurrentAttempt <=> \A f \in Feedback : Owns(f)
  BY DEF FeedbackOwnsCurrentAttempt, ActiveFeedback
<1>1. StoreInit => FeedbackOwnsCurrentAttempt
  <2> SUFFICES ASSUME StoreInit, NEW f \in Feedback PROVE Owns(f)
    BY <1>0
  <2>1. forge[f].status = "pending"
    BY DEF StoreInit
  <2> QED
    BY <2>1
<1>2. StoreTypeOK /\ FeedbackOwnsCurrentAttempt /\ [StoreNext]_storeVars
        => FeedbackOwnsCurrentAttempt'
  <2> SUFFICES ASSUME StoreTypeOK, FeedbackOwnsCurrentAttempt, [StoreNext]_storeVars,
                      NEW f \in Feedback, forge'[f].status = "running"
               PROVE  forge'[f].attempt = current' /\ pr'[current'].state = "open"
    BY DEF FeedbackOwnsCurrentAttempt, ActiveFeedback
  <2>1. current \in Attempts /\ pr \in [Attempts -> PullRequestRows]
    BY DEF StoreTypeOK
  <2>2. forge[f].status = "running" =>
          forge[f].attempt = current /\ pr[current].state = "open"
    BY <1>0
  <2>3. CASE UNCHANGED <<current, pr, forge>>
    BY <2>2, <2>3
  <2>4. CASE ResultNext
    BY <2>1, <2>2, <2>4, ResultStep, OtherSteps
  <2>5. CASE ForgeNext
    <3>1. UNCHANGED <<current, pr>>
      BY <2>5, ForgeStep
    <3>2. forge'[f] = forge[f]
      <4>1. ASSUME NEW a \in Existing, FailRunningFeedback(a)
            PROVE  forge'[f] = forge[f]
        BY <4>1 DEF FailRunningFeedback, Outcome
      <4>2. ASSUME NEW batch \in SUBSET Feedback, FailPendingFeedback(batch)
            PROVE  forge'[f] = forge[f]
        BY <4>2 DEF FailPendingFeedback, Outcome
      <4>3. ASSUME NEW g \in Feedback, MarkForgeEventHandled(g)
            PROVE  forge'[f] = forge[f]
        BY <4>3 DEF MarkForgeEventHandled, Outcome, StoreTypeOK
      <4> QED
        BY <2>5, <4>1, <4>2, <4>3 DEF ForgeNext
    <3> QED
      BY <2>2, <3>1, <3>2
  <2>6. CASE AttemptNext
    <3>1. ASSUME NEW v \in Versions, NEW key \in Keys \cup {NoKey}, RetryTaskOnce(key, v)
          PROVE  forge'[f].attempt = current' /\ pr'[current'].state = "open"
      <4>1. f \in RunningFeedback(current)
        <5>1. f \notin RunningFeedback(current) => forge'[f] = forge[f]
          BY <3>1 DEF RetryTaskOnce
        <5> QED
          BY <2>2, <5>1 DEF RunningFeedback
      <4>2. /\ forge'[f].attempt = current + 1 /\ current + 1 \in Attempts
            /\ InsertAttempt(current + 1, v, branch[current], pr[current])
        BY <3>1, <4>1 DEF RetryTaskOnce
      <4>3. pr[current].state = "open"
        BY <2>2, <4>1 DEF RunningFeedback
      <4> QED
        BY <2>1, <4>2, <4>3 DEF InsertAttempt
    <3>2. ASSUME NEW v \in Versions, NEW batch \in SUBSET Feedback,
                 StartForgeEventAttempt(batch, v)
          PROVE  forge'[f].attempt = current' /\ pr'[current'].state = "open"
      <4>1. f \in batch
        <5>1. f \notin batch => forge'[f] = forge[f]
          BY <3>2 DEF StartForgeEventAttempt
        <5>2. forge[f].status # "running"
          BY <3>2 DEF StartForgeEventAttempt, CanFollowUp, ActiveFeedback
        <5> QED
          BY <5>1, <5>2
      <4>2. /\ forge'[f].attempt = current + 1 /\ current + 1 \in Attempts
            /\ pr[current].state = "open"
            /\ InsertAttempt(current + 1, v, branch[current], pr[current])
        BY <3>2, <4>1 DEF StartForgeEventAttempt, CanFollowUp
      <4> QED
        BY <2>1, <4>2 DEF InsertAttempt
    <3> QED
      BY <2>6, <3>1, <3>2 DEF AttemptNext
  <2>7. CASE ValidationNext \/ LogNext
    <3>1. UNCHANGED pr
      BY <2>7 DEF ValidationNext, RecordValidationResultOnce, RecordValidationStartedOnce,
                  MarkValidationComplete, LogNext, AppendWorkerEvent, MarkWorkerEventProcessed,
                  SaveAttemptSnapshot, MarkLogsExhausted, resultVars
    <3> QED
      BY <2>3, <2>7, <3>1, OtherSteps
  <2> QED
    BY <2>3, <2>4, <2>5, <2>6, <2>7, LifecycleStep DEF StoreNext, storeVars
<1> QED
  BY <1>1, <1>2, StoreTypeCorrect, PTL DEF StoreSpec


-----------------------------------------------------------------------------
(* The rows of an attempt that has a successor are immutable.               *)
THEOREM HistoryFrozen == StoreSpec => AttemptsAreHistory
<1> DEFINE Kept(p) == /\ attemptState'[p] = attemptState[p] /\ exhausted'[p] = exhausted[p]
                      /\ inbox'[p] = inbox[p] /\ processed'[p] = processed[p]
                      /\ runs'[p] = runs[p]
<1> DEFINE Frozen == \A a \in Attempts : a < current' =>
                       /\ attemptState'[a] = attemptState[a] /\ exhausted'[a] = exhausted[a]
                       /\ inbox'[a] = inbox[a] /\ processed'[a] = processed[a]
                       /\ runs'[a] = runs[a]
<1>1. StoreTypeOK /\ PredecessorsAreSilent /\ [StoreNext]_storeVars
        => [Frozen]_storeVars
  <2> SUFFICES ASSUME StoreTypeOK, PredecessorsAreSilent, StoreNext,
                      NEW p \in Attempts, p < current'
               PROVE  Kept(p)
    OBVIOUS
  <2>1. /\ current \in Attempts
        /\ attemptState \in [Attempts -> States] /\ exhausted \in [Attempts -> BOOLEAN]
        /\ inbox \in [Attempts -> SUBSET WorkerEvents]
        /\ processed \in [Attempts -> SUBSET WorkerEvents]
        /\ runs \in [Attempts -> SUBSET RunRows]
    BY DEF StoreTypeOK
  <2>2. CASE UNCHANGED <<attemptState, exhausted, inbox, processed, runs>>
    BY <2>2
  <2>3. CASE LifecycleNext
    <3>1. UNCHANGED <<current, exhausted, inbox, processed>>
      BY <2>3, LifecycleStep
    <3>2. p # current
      BY <2>1, <3>1
    <3>3. attemptState'[p] = attemptState[p]
      BY <2>1, <2>3, <3>2, LifecycleStep DEF MoveTo
    <3>4. runs'[p] = runs[p]
      BY <2>1, <2>3, <3>2 DEF LifecycleNext, Transition, TransitionClosingRuns,
                              TransitionValidating, StartRun, RequestCancellation
    <3> QED
      BY <3>1, <3>3, <3>4
  <2>4. CASE AttemptNext
    <3>1. /\ UNCHANGED <<exhausted, inbox, processed, runs>>
          /\ current' = current + 1
          /\ attemptState' = [attemptState EXCEPT ![current + 1] = "queued"]
      BY <2>4, AttemptStep
    <3> QED
      BY <2>1, <3>1
  <2>5. CASE ValidationNext
    <3>1. UNCHANGED <<current, attemptState, exhausted, inbox, processed>>
      BY <2>5 DEF ValidationNext, RecordValidationResultOnce, RecordValidationStartedOnce,
                  MarkValidationComplete, taskVars, attemptVars, eventVars
    <3>2. p # current
      BY <2>1, <3>1
    <3>3. runs'[p] = runs[p]
      BY <2>1, <2>5, <3>2 DEF ValidationNext, RecordValidationResultOnce, StartRun,
                              RecordValidationStartedOnce, MarkValidationComplete
    <3> QED
      BY <3>1, <3>3
  <2>6. CASE LogNext
    <3>1. UNCHANGED <<current, attemptState, runs>>
      BY <2>6 DEF LogNext, AppendWorkerEvent, MarkWorkerEventProcessed, SaveAttemptSnapshot,
                  MarkLogsExhausted, taskVars, attemptVars
    <3>2. p # current /\ exhausted[p] /\ inbox[p] \subseteq processed[p]
      BY <2>1, <3>1 DEF PredecessorsAreSilent, Pending
    <3>3. ASSUME NEW a \in Existing, NEW e \in WorkerEvents,
                 AppendWorkerEvent(a, e) \/ MarkWorkerEventProcessed(a, e)
          PROVE  exhausted'[p] = exhausted[p] /\ inbox'[p] = inbox[p] /\ processed'[p] = processed[p]
      <4>1. CASE AppendWorkerEvent(a, e)
        BY <2>1, <3>2, <4>1 DEF AppendWorkerEvent, Appendable, attemptVars
      <4>2. CASE MarkWorkerEventProcessed(a, e)
        BY <2>1, <3>2, <4>2 DEF MarkWorkerEventProcessed, attemptVars
      <4> QED
        BY <3>3, <4>1, <4>2
    <3>4. ASSUME NEW a \in Existing, NEW v \in Versions,
                 SaveAttemptSnapshot(a, v) \/ MarkLogsExhausted(a)
          PROVE  exhausted'[p] = exhausted[p] /\ inbox'[p] = inbox[p] /\ processed'[p] = processed[p]
      BY <2>1, <3>2, <3>4 DEF SaveAttemptSnapshot, MarkLogsExhausted, eventVars
    <3>5. ASSUME NEW a \in Existing, MarkLogsExhausted(a)
          PROVE  exhausted'[p] = exhausted[p] /\ inbox'[p] = inbox[p] /\ processed'[p] = processed[p]
      BY <2>1, <3>2, <3>5 DEF MarkLogsExhausted, eventVars
    <3> QED
      BY <2>6, <3>1, <3>3, <3>4, <3>5 DEF LogNext
  <2>7. CASE ResultNext
    BY <2>2, <2>7, OtherSteps, ResultStep
  <2> QED
    BY <2>2, <2>3, <2>4, <2>5, <2>6, <2>7, ForgeStep DEF StoreNext
<1> QED
  BY <1>1, StoreTypeCorrect, PredecessorsSilent, PTL DEF StoreSpec, AttemptsAreHistory

-----------------------------------------------------------------------------
(* A row not inserted yet holds nothing.                                    *)
FutureRows == \A a \in Attempts : a > current => pr[a] = NoPullRequest /\ snapshot[a] = NoVersion

(* Only an insert writes a row that did not exist. *)
LEMMA FutureRowsEmpty == StoreSpec => []FutureRows
<1>1. StoreInit => FutureRows
  <2>1. SUFFICES ASSUME StoreInit, NEW a \in Attempts PROVE pr[a] = NoPullRequest /\ snapshot[a] = NoVersion
    BY DEF FutureRows
  <2>2. pr = [b \in Attempts |-> NoPullRequest] /\ snapshot = [b \in Attempts |-> NoVersion]
    BY <2>1 DEF StoreInit
  <2> QED
    BY <2>2
<1>2. StoreTypeOK /\ FutureRows /\ [StoreNext]_storeVars => FutureRows'
  <2> SUFFICES ASSUME StoreTypeOK, FutureRows, [StoreNext]_storeVars,
                      NEW a \in Attempts, a > current'
               PROVE  pr'[a] = NoPullRequest /\ snapshot'[a] = NoVersion
    BY DEF FutureRows
  <2>1. /\ current \in Attempts /\ pr \in [Attempts -> PullRequestRows]
        /\ snapshot \in [Attempts -> Versions \cup {NoVersion}]
    BY DEF StoreTypeOK
  <2>2. CASE UNCHANGED <<current, pr, snapshot>>
    BY <2>2 DEF FutureRows
  <2>3. CASE AttemptNext
    <3>1. /\ current' = current + 1
          /\ \E v \in Versions : snapshot' = [snapshot EXCEPT ![current + 1] = v]
          /\ \/ pr' = [pr EXCEPT ![current + 1] = NoPullRequest]
             \/ pr' = [pr EXCEPT ![current + 1] = pr[current]]
      BY <2>3, AttemptStep
    <3> QED
      BY <2>1, <3>1 DEF FutureRows
  <2>4. CASE ResultNext
    <3>1. current' = current /\ snapshot' = snapshot
      BY <2>4, OtherSteps, ResultStep
    <3>2. a \notin Existing
      BY <2>1, <3>1 DEF Existing
    <3> QED
      BY <2>4, <3>1, <3>2, ResultStep DEF FutureRows
  <2>5. CASE ValidationNext
    BY <2>2, <2>5 DEF ValidationNext, RecordValidationResultOnce, RecordValidationStartedOnce,
                      MarkValidationComplete, taskVars, attemptVars, resultVars
  <2>6. CASE LogNext
    <3>1. UNCHANGED <<current, pr>>
      BY <2>6 DEF LogNext, AppendWorkerEvent, MarkWorkerEventProcessed, SaveAttemptSnapshot,
                  MarkLogsExhausted, taskVars, resultVars
    <3>2. a \notin Existing
      BY <2>1, <3>1 DEF Existing
    <3>3. snapshot'[a] = snapshot[a]
      BY <2>1, <2>6, <3>2 DEF LogNext, AppendWorkerEvent, MarkWorkerEventProcessed,
                              SaveAttemptSnapshot, MarkLogsExhausted, attemptVars
    <3> QED
      BY <3>1, <3>3 DEF FutureRows
  <2> QED
    BY <2>2, <2>3, <2>4, <2>5, <2>6, LifecycleStep, ForgeStep DEF StoreNext, storeVars
<1> QED
  BY <1>1, <1>2, StoreTypeCorrect, PTL DEF StoreSpec

(* Verified results, snapshots and retry keys are written once.             *)
THEOREM ReceiptsFinal == StoreSpec => ReceiptsAreFinal
<1> DEFINE Final == /\ \A a \in Attempts :
                         /\ git[a].state = "pushed" => git'[a] = git[a]
                         /\ pr[a].state = "open" => pr'[a] = pr[a]
                         /\ snapshot[a] # NoVersion => snapshot'[a] = snapshot[a]
                    /\ \A k \in Keys : intents[k] # 0 => intents'[k] = intents[k]
<1>1. StoreTypeOK /\ FutureRows /\ [StoreNext]_storeVars => [Final]_storeVars
  <2> SUFFICES ASSUME StoreTypeOK, FutureRows, StoreNext
               PROVE  Final
    OBVIOUS
  <2>1. /\ current \in Attempts /\ pr \in [Attempts -> PullRequestRows]
        /\ snapshot \in [Attempts -> Versions \cup {NoVersion}]
    BY DEF StoreTypeOK
  <2>2. CASE UNCHANGED <<git, pr, snapshot, intents>>
    BY <2>2
  <2>3. CASE AttemptNext
    <3> DEFINE next == current + 1
    <3>1. /\ git' = git /\ next \in Attempts
          /\ \E v \in Versions : snapshot' = [snapshot EXCEPT ![next] = v]
          /\ \/ pr' = [pr EXCEPT ![next] = NoPullRequest]
             \/ pr' = [pr EXCEPT ![next] = pr[current]]
      BY <2>3, AttemptStep
    <3>2. pr[next] = NoPullRequest /\ snapshot[next] = NoVersion
      BY <2>1, <3>1 DEF FutureRows
    <3>3. pr[next].state # "open"
      BY <3>2 DEF NoPullRequest
    <3>4. \A k \in Keys : intents[k] # 0 => intents'[k] = intents[k]
      <4>1. ASSUME NEW v \in Versions, NEW key \in Keys \cup {NoKey}, RetryTaskOnce(key, v)
            PROVE  \A k \in Keys : intents[k] # 0 => intents'[k] = intents[k]
        BY <4>1 DEF RetryTaskOnce, CanRetry
      <4>2. ASSUME NEW v \in Versions, NEW batch \in SUBSET Feedback,
                   StartForgeEventAttempt(batch, v)
            PROVE  intents' = intents
        BY <4>2 DEF StartForgeEventAttempt
      <4> QED
        BY <2>3, <4>1, <4>2 DEF AttemptNext
    <3>5. \A a \in Attempts : a # next => pr'[a] = pr[a] /\ snapshot'[a] = snapshot[a]
      BY <2>1, <3>1
    <3> HIDE DEF next
    <3> QED
      BY <3>1, <3>2, <3>3, <3>4, <3>5
  <2>4. CASE ResultNext
    BY <2>4, ResultStep, OtherSteps
  <2>5. CASE ValidationNext
    BY <2>2, <2>5 DEF ValidationNext, RecordValidationResultOnce, RecordValidationStartedOnce,
                      MarkValidationComplete, attemptVars, resultVars
  <2>6. CASE LogNext
    <3>1. UNCHANGED <<git, pr, intents>>
      BY <2>6 DEF LogNext, AppendWorkerEvent, MarkWorkerEventProcessed, SaveAttemptSnapshot,
                  MarkLogsExhausted, resultVars
    <3>2. \A a \in Attempts : snapshot[a] # NoVersion => snapshot'[a] = snapshot[a]
      BY <2>1, <2>6 DEF LogNext, AppendWorkerEvent, MarkWorkerEventProcessed,
                        SaveAttemptSnapshot, MarkLogsExhausted, attemptVars
    <3> QED
      BY <3>1, <3>2
  <2> QED
    BY <2>2, <2>3, <2>4, <2>5, <2>6, LifecycleStep, ForgeStep DEF StoreNext
<1> QED
  BY <1>1, StoreTypeCorrect, FutureRowsEmpty, PTL DEF StoreSpec, ReceiptsAreFinal

-----------------------------------------------------------------------------
(* The rows of one attempt, as a table: one running command, which has no   *)
(* result yet, and unique start and result events.                          *)
RunTable(rows) ==
  /\ \A r \in rows : r.state = "running" => r.result = NoEvent
  /\ \A r, s \in rows :
       r # s => /\ ~(r.state = "running" /\ s.state = "running")
                /\ r.start # s.start
                /\ r.result = s.result => r.result = NoEvent

(* Starting a command while none runs keeps the table. *)
LEMMA OpenedTable ==
  ASSUME NEW rows \in SUBSET RunRows, RunTable(rows), NEW e \in WorkerEvents,
         \A r \in rows : r.state # "running" /\ r.start # e
  PROVE  RunTable(rows \cup {Opened(e)})
  BY DEF RunTable, Opened, RunRows

(* So does the result of the running command, ... *)
LEMMA ClosedTable ==
  ASSUME NEW rows \in SUBSET RunRows, RunTable(rows), NEW e \in WorkerEvents,
         NEW verdict \in {"succeeded", "failed"}, NEW r \in rows, r.state = "running",
         \A s \in rows : s.result # e
  PROVE  RunTable((rows \ {r}) \cup {Closed(r, e, verdict)})
  BY DEF RunTable, Closed, RunRows

(* ... and closing it without one. *)
LEMMA AbandonedTable ==
  ASSUME NEW rows \in SUBSET RunRows, RunTable(rows), NEW r \in rows, r.state = "running"
  PROVE  RunTable((rows \ {r}) \cup {Closed(r, NoEvent, "failed")})
  BY DEF RunTable, Closed, RunRows

(* Every transaction keeps the table of every attempt. *)
LEMMA RunTablesKept == StoreSpec => [](\A a \in Attempts : RunTable(runs[a]))
<1> DEFINE Tables == \A a \in Attempts : RunTable(runs[a])
<1>1. StoreInit => Tables
  BY DEF StoreInit, RunTable
<1>2. StoreTypeOK /\ Tables /\ [StoreNext]_storeVars => Tables'
  <2> SUFFICES ASSUME StoreTypeOK, Tables, [StoreNext]_storeVars, NEW a \in Attempts
               PROVE  RunTable(runs'[a])
    OBVIOUS
  <2>1. runs \in [Attempts -> SUBSET RunRows] /\ current \in Attempts
    BY DEF StoreTypeOK
  <2>2. RunTable(runs[a]) /\ runs[a] \in SUBSET RunRows
    BY <2>1
  <2>3. CASE runs'[a] = runs[a]
    BY <2>2, <2>3
  <2>4. ASSUME NEW e \in WorkerEvents, NEW b \in Attempts, CanStartRun(b, e), StartRun(b, e)
        PROVE  RunTable(runs'[a])
    <3>1. CASE a = b
      <4>1. runs'[a] = runs[a] \cup {Opened(e)}
        BY <2>1, <2>4, <3>1 DEF StartRun
      <4>2. \A r \in runs[a] : r.state # "running" /\ r.start # e
        BY <2>4, <3>1 DEF CanStartRun, RunningRows, StartedEvents
      <4> QED
        BY <2>2, <4>1, <4>2, OpenedTable
    <3>2. CASE a # b
      BY <2>1, <2>3, <2>4, <3>2 DEF StartRun
    <3> QED
      BY <3>1, <3>2
  <2>5. ASSUME NEW b \in Existing, NEW e \in WorkerEvents,
               NEW verdict \in {"succeeded", "failed"},
               RecordValidationResultOnce(b, e, verdict)
        PROVE  RunTable(runs'[a])
    <3>1. PICK r \in RunningRows(b) :
            runs' = [runs EXCEPT ![b] = (@ \ {r}) \cup {Closed(r, e, verdict)}]
      BY <2>5 DEF RecordValidationResultOnce
    <3>2. CASE a = b
      <4>1. runs'[a] = (runs[a] \ {r}) \cup {Closed(r, e, verdict)}
        BY <2>1, <3>1, <3>2
      <4>2. r \in runs[a] /\ r.state = "running"
        BY <3>1, <3>2 DEF RunningRows
      <4>3. \A s \in runs[a] : s.result # e
        BY <2>5, <3>2 DEF RecordValidationResultOnce, ResultEvents
      <4> QED
        BY <2>2, <4>1, <4>2, <4>3, ClosedTable
    <3>3. CASE a # b
      BY <2>1, <2>3, <3>1, <3>3
    <3> QED
      BY <3>2, <3>3
  <2>6. ASSUME NEW to \in States, TransitionClosingRuns(state, to)
        PROVE  RunTable(runs'[a])
    <3>1. CASE a = current
      <4>1. PICK r \in runs[a] : r.state = "running"
        BY <2>6, <3>1 DEF TransitionClosingRuns, RunningRows
      <4>2. RunningRows(current) = {r}
        <5>1. \A s \in runs[a] : s.state = "running" => s = r
          BY <2>2, <4>1 DEF RunTable
        <5> QED
          BY <3>1, <4>1, <5>1 DEF RunningRows
      <4>3. runs'[a] = (runs[a] \ {r}) \cup {Closed(r, NoEvent, "failed")}
        BY <2>1, <2>6, <3>1, <4>2 DEF TransitionClosingRuns
      <4> QED
        BY <2>2, <4>1, <4>3, AbandonedTable
    <3>2. CASE a # current
      BY <2>1, <2>3, <2>6, <3>2 DEF TransitionClosingRuns
    <3> QED
      BY <3>1, <3>2
  <2> HIDE DEF Tables
  <2>7. CASE LifecycleNext
    <3>1. ASSUME NEW to \in States, Transition(state, to) PROVE runs' = runs
      BY <3>1 DEF Transition
    <3>2. RequestCancellation => runs' = runs
      BY DEF RequestCancellation
    <3>3. ASSUME NEW e \in WorkerEvents, TransitionValidating(state, e)
          PROVE  CanStartRun(current, e) /\ StartRun(current, e)
      BY <3>3 DEF TransitionValidating
    <3> QED
      BY <2>1, <2>3, <2>4, <2>6, <2>7, <3>1, <3>2, <3>3 DEF LifecycleNext
  <2>8. CASE ValidationNext
    <3>1. ASSUME NEW b \in Existing, NEW e \in WorkerEvents, RecordValidationStartedOnce(b, e)
          PROVE  b \in Attempts /\ CanStartRun(b, e) /\ StartRun(b, e)
      BY <2>1, <3>1 DEF RecordValidationStartedOnce
    <3>2. ASSUME NEW b, NEW verdict, MarkValidationComplete(b, verdict) PROVE runs' = runs
      BY <3>2 DEF MarkValidationComplete
    <3> QED
      BY <2>3, <2>4, <2>5, <2>8, <3>1, <3>2 DEF ValidationNext
  <2>9. CASE LogNext
    BY <2>3, <2>9 DEF LogNext, AppendWorkerEvent, MarkWorkerEventProcessed, SaveAttemptSnapshot,
                      MarkLogsExhausted
  <2>10. CASE AttemptNext \/ ForgeNext \/ ResultNext
    BY <2>3, <2>10, AttemptStep, ForgeStep, ResultStep
  <2>11. CASE UNCHANGED storeVars
    BY <2>3, <2>11 DEF storeVars
  <2> QED
    BY <2>7, <2>8, <2>9, <2>10, <2>11 DEF StoreNext
<1> QED
  BY <1>1, <1>2, StoreTypeCorrect, PTL DEF StoreSpec

(* One validation command runs at a time, and a replayed worker event never *)
(* starts or completes a second one.                                        *)
THEOREM CommandsOnce == StoreSpec => []CommandsRunOnce
<1>1. StoreTypeOK /\ (\A a \in Attempts : RunTable(runs[a])) => CommandsRunOnce
  BY ExistingRows DEF CommandsRunOnce, RunTable
<1> QED
  BY <1>1, RunTablesKept, StoreTypeCorrect, PTL


=============================================================================
