----------------------- MODULE TaskRefinementProofs -----------------------
(***************************************************************************)
(* The store implements TaskContract, for every value of the constants:    *)
(* the initial rows show the initial contract state, and each transaction  *)
(* is one step of the contract or changes nothing a client sees.           *)
(***************************************************************************)
EXTENDS TaskRefinement, TaskStoreProofs

USE DomainAssumption DEF DomainAssumption, Attempts, Contract!Attempts

(* A Git result is written only for an attempt that exists. *)
FutureGit == \A a \in Attempts : a > current => git[a] = NoGit

(* No transaction writes the Git result of a future attempt. *)
LEMMA FutureGitEmpty == StoreSpec => []FutureGit
<1>1. StoreInit => FutureGit
  BY DEF StoreInit, FutureGit
<1>2. StoreTypeOK /\ FutureGit /\ [StoreNext]_storeVars => FutureGit'
  <2> SUFFICES ASSUME StoreTypeOK, FutureGit, [StoreNext]_storeVars,
                      NEW p \in Attempts, p > current'
               PROVE  git'[p] = NoGit
    BY DEF FutureGit
  <2>1. current \in Attempts /\ git \in [Attempts -> GitRows]
    BY DEF StoreTypeOK
  <2>2. CASE UNCHANGED <<current, git>>
    BY <2>2 DEF FutureGit
  <2>3. CASE AttemptNext
    BY <2>1, <2>3, AttemptStep DEF FutureGit
  <2>4. CASE ResultNext
    <3>1. current' = current
      BY <2>4, OtherSteps
    <3>2. ASSUME NEW a \in Existing, NEW c \in Commits, NEW n \in Numbers,
                 RecordPullRequestCandidate(a, c, n) \/ RecordVerifiedPullRequest(a, c, n)
          PROVE  git'[p] = git[p]
      <4>1. p # a
        BY <2>1, <3>1 DEF Existing
      <4> QED
        BY <2>1, <3>2, <4>1 DEF RecordPullRequestCandidate, RecordVerifiedPullRequest
    <3> QED
      BY <2>4, <3>1, <3>2 DEF ResultNext, FutureGit
  <2>5. CASE ValidationNext
    BY <2>2, <2>5 DEF ValidationNext, RecordValidationResultOnce, RecordValidationStartedOnce,
                      MarkValidationComplete, taskVars, resultVars
  <2>6. CASE LogNext
    BY <2>2, <2>6 DEF LogNext, AppendWorkerEvent, MarkWorkerEventProcessed, SaveAttemptSnapshot,
                      MarkLogsExhausted, taskVars, resultVars
  <2> QED
    BY <2>2, <2>3, <2>4, <2>5, <2>6, LifecycleStep, ForgeStep DEF StoreNext, storeVars
<1> QED
  BY <1>1, <1>2, StoreTypeCorrect, PTL DEF StoreSpec

(* The machine enters PR_OPEN and READY from where a client expects, and    *)
(* never goes back.                                                         *)
LEMMA PhaseStep ==
  ASSUME NEW from, NEW to \in States, LegalTransition(from, to)
  PROVE  /\ from \notin Settled
         /\ to = "pr_open" => from \notin PullRequestStates
         /\ to \in {"ready", "waiting_ci", "waiting_review"} => from \in PullRequestStates
         /\ to \notin Settled \cup PullRequestStates => from \notin PullRequestStates
<1>1. from \notin Settled
  BY DEF LegalTransition, Settled
<1>2. CASE to \in {"failed", "cancelled"}
  BY <1>1, <1>2 DEF Settled
<1>3. CASE \E i \in 1..13 : lifecycle[i] = from /\ lifecycle[i + 1] = to
  <2>1. PICK i \in 1..13 : lifecycle[i] = from /\ lifecycle[i + 1] = to
    BY <1>3
  <2>2. i \in {1, 2, 3, 4, 5, 6, 7, 8, 9, 10, 11, 12, 13}
    OBVIOUS
  <2> QED
    BY <1>1, <2>1, <2>2 DEF lifecycle, Settled, PullRequestStates
<1> QED
  BY <1>2, <1>3 DEF LegalTransition

(* What a client sees of the pull request rows depends on the verified and  *)
(* open ones alone.                                                         *)
LEMMA ViewKept ==
  ASSUME \A p \in Attempts :
           /\ git'[p] = git[p] \/ (git[p].state # "pushed" /\ git'[p].state # "pushed")
           /\ pr'[p] = pr[p] \/ (pr[p].state # "open" /\ pr'[p].state # "open")
  PROVE  UNCHANGED <<Line, Receipt>>
<1>1. Line' = Line
  BY DEF Line
<1>2. Receipt' = Receipt
  BY DEF Receipt, DurablePullRequest
<1> QED
  BY <1>1, <1>2

(* The first rows show a task at work that has nothing yet. *)
LEMMA InitRefines == StoreInit => Contract!ContractInit
<1> SUFFICES ASSUME StoreInit PROVE Contract!ContractInit
  OBVIOUS
<1>1. Phase = "working"
  BY DEF StoreInit, Phase, Settled, PullRequestStates
<1>2. Line = [a \in Attempts |-> 0]
  BY DEF StoreInit, Line, NoPullRequest
<1>3. Receipt = [a \in Attempts |-> [number |-> 0, commit |-> NoCommit]]
  BY DEF StoreInit, Receipt, DurablePullRequest, NoPullRequest
<1> QED
  BY <1>1, <1>2, <1>3 DEF StoreInit, Contract!ContractInit, Contract!NoReceipt

(* A lifecycle transaction: forward, through the gate, or to an end. *)
LEMMA LifecycleRefines ==
  ASSUME StoreTypeOK, PullRequestIsDurable, LifecycleNext
  PROVE  [Contract!ContractNext]_(Contract!contractVars)
<1>1. UNCHANGED <<current, git, pr>>
  BY LifecycleStep
<1>2. UNCHANGED <<Line, Receipt>>
  BY <1>1, ViewKept
<1>3. current \in Attempts /\ cancelRequested \in BOOLEAN
  BY DEF StoreTypeOK
<1>4. DurablePullRequest(current) => Receipt[current] # Contract!NoReceipt
  <2>1. DurablePullRequest(current) => Receipt[current].number # 0
    BY <1>3 DEF Receipt, DurablePullRequest
  <2> QED
    BY <2>1 DEF Contract!NoReceipt
<1>5. ASSUME NEW to \in States, CanTransition(state, to), MoveTo(to)
      PROVE  [Contract!ContractNext]_(Contract!contractVars)
  <2>1. /\ LegalTransition(state, to) /\ cancelRequested => to = "cancelled"
        /\ to \in {"pr_open", "ready"} => DurablePullRequest(current)
        /\ state' = to
    BY <1>5 DEF CanTransition, MoveTo
  <2>1a. LegalTransition(state, to)
    BY <1>5 DEF CanTransition
  <2>1b. cancelRequested => to = "cancelled"
    BY <1>5 DEF CanTransition
  <2>2. to # "cancelled" => ~cancelRequested /\ cancelRequested' = cancelRequested
    BY <1>3, <1>5, <2>1b DEF MoveTo
  <2>3. to = "cancelled" => cancelRequested' = FALSE
    BY <1>5 DEF MoveTo
  <2>4. state \notin Settled
    BY <2>1a, PhaseStep
  <2>5. Phase \in {"working", "published"}
    BY <2>4 DEF Phase
  <2>6. CASE to = "failed"
    <3>1. Phase' = "failed"
      BY <2>1, <2>6 DEF Phase, Settled
    <3> QED
      BY <1>1, <1>2, <2>2, <2>5, <2>6, <3>1
      DEF Contract!ContractNext, Contract!GiveUp, Contract!Live
  <2>7. CASE to = "cancelled"
    <3>1. Phase' = "cancelled"
      BY <2>1, <2>7 DEF Phase, Settled
    <3> QED
      BY <1>1, <1>2, <2>3, <2>5, <2>7, <3>1
      DEF Contract!ContractNext, Contract!Cancel, Contract!Live
  <2>8. CASE to = "ready"
    <3>1. Phase = "published" /\ Phase' = "ready"
      BY <2>1, <2>1a, <2>4, <2>8, PhaseStep DEF Phase, Settled
    <3> QED
      BY <1>1, <1>2, <1>4, <2>1, <2>2, <2>8, <3>1 DEF Contract!ContractNext, Contract!Advance
  <2>9. CASE to = "pr_open"
    <3>1. Phase = "working" /\ Phase' = "published"
      BY <2>1, <2>1a, <2>4, <2>9, PhaseStep DEF Phase, Settled, PullRequestStates
    <3> QED
      BY <1>1, <1>2, <1>4, <2>1, <2>2, <2>9, <3>1 DEF Contract!ContractNext, Contract!Advance
  <2>10. CASE to \notin {"failed", "cancelled", "ready", "pr_open"}
    <3>1. Phase' = Phase
      BY <2>1, <2>1a, <2>4, <2>10, PhaseStep DEF Phase, Settled, PullRequestStates
    <3> QED
      BY <1>1, <1>2, <2>2, <2>10, <3>1 DEF Contract!contractVars
  <2> QED
    BY <2>6, <2>7, <2>8, <2>9, <2>10
<1>6. CASE RequestCancellation
  <2>1. /\ state \notin Settled /\ state' = state /\ cancelRequested' = TRUE
    BY <1>6 DEF RequestCancellation
  <2>2. Phase' = Phase /\ Phase \in {"working", "published"}
    BY <2>1 DEF Phase
  <2> QED
    BY <1>1, <1>2, <2>1, <2>2 DEF Contract!ContractNext, Contract!AskCancel, Contract!Live
<1>7. ASSUME NEW to \in States, Transition(state, to) \/ TransitionClosingRuns(state, to)
      PROVE  CanTransition(state, to) /\ MoveTo(to)
  BY <1>7 DEF Transition, TransitionClosingRuns
<1>8. ASSUME NEW e \in WorkerEvents, TransitionValidating(state, e)
      PROVE  CanTransition(state, "validating") /\ MoveTo("validating") /\ "validating" \in States
  BY <1>8 DEF TransitionValidating, States
<1> QED
  BY <1>5, <1>6, <1>7, <1>8 DEF LifecycleNext

(* A new attempt is another round, with the pull request it continues. *)
LEMMA AttemptRefines ==
  ASSUME StoreTypeOK, FutureRows, FutureGit, PullRequestIsDurable, CancellationIsLive, AttemptNext
  PROVE  Contract!ContractNext
<1> DEFINE next == current + 1
<1>1. /\ current \in Attempts /\ cancelRequested \in BOOLEAN
      /\ pr \in [Attempts -> PullRequestRows]
  BY DEF StoreTypeOK
<1>2. /\ next \in Attempts /\ current' = next /\ state' = "queued" /\ git' = git
  BY AttemptStep
<1>3. Phase' = "working"
  BY <1>2 DEF Phase, Settled, PullRequestStates
<1>4. Receipt' = Receipt
  <2>1. git[next].state # "pushed"
    BY <1>1, <1>2 DEF FutureGit, NoGit
  <2>2. \A p \in Attempts : p # next => pr'[p] = pr[p]
    BY <1>1, AttemptStep
  <2> QED
    BY <1>2, <2>1, <2>2 DEF Receipt, DurablePullRequest
<1>5. ASSUME NEW row, NEW v, NEW lineage, InsertAttempt(next, v, lineage, row)
      PROVE  Line' = [Line EXCEPT ![next] = IF row.state = "open" THEN row.number ELSE 0]
  <2>1. pr' = [pr EXCEPT ![next] = row]
    BY <1>5 DEF InsertAttempt
  <2> QED
    BY <1>1, <1>2, <2>1 DEF Line
<1>6. ASSUME NEW v \in Versions, NEW key \in Keys \cup {NoKey}, RetryTaskOnce(key, v)
      PROVE  Contract!ContractNext
  <2>1. state = "failed" /\ cancelRequested' = FALSE
    BY <1>6 DEF RetryTaskOnce, CanRetry, LegalRetry
  <2>2. Phase = "failed" /\ cancelRequested = FALSE
    BY <1>1, <2>1 DEF Phase, Settled, CancellationIsLive
  <2>3. \E n \in {0, Line[current]} : Line' = [Line EXCEPT ![next] = n]
    <3>1. \/ InsertAttempt(next, v, next, NoPullRequest)
          \/ pr[current].state = "open" /\ InsertAttempt(next, v, branch[current], pr[current])
      BY <1>6 DEF RetryTaskOnce, CanRetry
    <3>2. CASE InsertAttempt(next, v, next, NoPullRequest)
      BY <1>5, <3>2 DEF NoPullRequest
    <3>3. CASE pr[current].state = "open" /\ InsertAttempt(next, v, branch[current], pr[current])
      <4>1. Line[current] = pr[current].number
        BY <1>1, <3>3 DEF Line
      <4> QED
        BY <1>5, <3>3, <4>1
    <3> QED
      BY <3>1, <3>2, <3>3
  <2> QED
    BY <1>2, <1>3, <1>4, <2>1, <2>2, <2>3 DEF Contract!ContractNext, Contract!Again
<1>7. ASSUME NEW v \in Versions, NEW batch \in SUBSET Feedback, StartForgeEventAttempt(batch, v)
      PROVE  Contract!ContractNext
  <2>1. /\ state \in PullRequestStates /\ ~cancelRequested /\ cancelRequested' = cancelRequested
        /\ InsertAttempt(next, v, branch[current], pr[current])
    BY <1>7 DEF StartForgeEventAttempt, CanFollowUp, LegalFollowUp
  <2>2. Phase \in {"published", "ready"}
    BY <2>1 DEF Phase, Settled, PullRequestStates
  <2>3. Line[current] = pr[current].number /\ Line[current] # 0 /\ pr[current].state = "open"
    BY <1>1, <2>1 DEF PullRequestIsDurable, DurablePullRequest, Line
  <2>4. Line' = [Line EXCEPT ![next] = Line[current]]
    BY <1>5, <2>1, <2>3
  <2> QED
    BY <1>2, <1>3, <1>4, <2>1, <2>2, <2>3, <2>4 DEF Contract!ContractNext, Contract!Again
<1> QED
  BY <1>6, <1>7 DEF AttemptNext

(* Verifying a candidate writes the receipt; recording one shows nothing. *)
LEMMA ResultRefines ==
  ASSUME StoreTypeOK, ResultNext
  PROVE  [Contract!ContractNext]_(Contract!contractVars)
<1>1. UNCHANGED <<state, current, cancelRequested>>
  BY OtherSteps
<1>2. Phase' = Phase
  BY <1>1 DEF Phase
<1>3. git \in [Attempts -> GitRows] /\ pr \in [Attempts -> PullRequestRows]
  BY DEF StoreTypeOK
<1>4. ASSUME UNCHANGED <<Line, Receipt>>
      PROVE  UNCHANGED Contract!contractVars
  BY <1>1, <1>2, <1>4 DEF Contract!contractVars
<1>5. ASSUME NEW a \in Existing, NEW c \in Commits, NEW n \in Numbers,
             RecordPullRequestCandidate(a, c, n)
      PROVE  UNCHANGED <<Line, Receipt>>
  <2>1. git' = [git EXCEPT ![a] = IF @.state = "pushed" THEN @
                                  ELSE [state |-> "candidate", sha |-> c]]
    BY <1>5 DEF RecordPullRequestCandidate
  <2>2. pr' = [pr EXCEPT ![a] = IF @ = NoPullRequest
                                THEN [state |-> "reported", number |-> n] ELSE @]
    BY <1>5 DEF RecordPullRequestCandidate
  <2>3. \A p \in Attempts : git'[p] = git[p] \/ (git[p].state # "pushed" /\ git'[p].state # "pushed")
    BY <1>3, <2>1
  <2>4. \A p \in Attempts : pr'[p] = pr[p] \/ (pr[p].state # "open" /\ pr'[p].state # "open")
    BY <1>3, <2>2 DEF NoPullRequest
  <2> QED
    BY <2>3, <2>4, ViewKept
<1>6. ASSUME NEW a \in Existing, NEW c \in Commits, NEW n \in Numbers,
             RecordVerifiedPullRequest(a, c, n)
      PROVE  [Contract!ContractNext]_(Contract!contractVars)
  <2>1. /\ git' = [git EXCEPT ![a] = [state |-> "pushed", sha |-> c]]
        /\ pr' = [pr EXCEPT ![a] = [state |-> "open", number |-> n]]
        /\ a \in Attempts /\ n > 0
    BY <1>6, ExistingRows DEF RecordVerifiedPullRequest
  <2>2. CASE git[a] = [state |-> "pushed", sha |-> c] /\ pr[a] = [state |-> "open", number |-> n]
    <3>1. UNCHANGED <<Line, Receipt>>
      BY <1>3, <2>1, <2>2, ViewKept
    <3> QED
      BY <1>4, <3>1
  <2>3. CASE git[a] = [state |-> "candidate", sha |-> c] /\ pr[a].number = n
    <3>1. Receipt[a] = Contract!NoReceipt
      BY <2>1, <2>3 DEF Receipt, DurablePullRequest, Contract!NoReceipt
    <3>2. Line[a] \in {0, n}
      BY <2>1, <2>3 DEF Line
    <3>3. Line' = [Line EXCEPT ![a] = n]
      BY <1>3, <2>1 DEF Line
    <3>4. Receipt' = [Receipt EXCEPT ![a] = [number |-> n, commit |-> c]]
      BY <1>3, <2>1 DEF Receipt, DurablePullRequest
    <3>5. Contract!Verify(a, n, c)
      BY <1>1, <1>2, <3>1, <3>2, <3>3, <3>4 DEF Contract!Verify
    <3> QED
      BY <2>1, <3>5 DEF Contract!ContractNext
  <2> QED
    BY <1>6, <2>2, <2>3 DEF RecordVerifiedPullRequest, CanRecordVerified
<1> QED
  BY <1>4, <1>5, <1>6 DEF ResultNext

(* The outcome of a forge event may ask for a cancellation. *)
LEMMA ForgeRefines ==
  ASSUME StoreTypeOK, StoreTypeOK', ForgeNext
  PROVE  [Contract!ContractNext]_(Contract!contractVars)
<1>1. /\ UNCHANGED <<state, current, git, pr>>
      /\ cancelRequested => cancelRequested'
      /\ cancelRequested' => cancelRequested \/ state \notin Settled
  BY ForgeStep
<1>2. UNCHANGED <<Phase, Line, Receipt>>
  <2>1. Phase' = Phase
    BY <1>1 DEF Phase
  <2> QED
    BY <1>1, <2>1, ViewKept
<1>3. cancelRequested \in BOOLEAN /\ cancelRequested' \in BOOLEAN
  BY DEF StoreTypeOK
<1>4. CASE cancelRequested' = cancelRequested
  BY <1>1, <1>2, <1>4 DEF Contract!contractVars
<1>5. CASE cancelRequested' # cancelRequested
  <2>1. cancelRequested' = TRUE /\ state \notin Settled
    BY <1>1, <1>3, <1>5
  <2>2. Phase \in {"working", "published"}
    BY <2>1 DEF Phase
  <2> QED
    BY <1>1, <1>2, <2>1, <2>2 DEF Contract!ContractNext, Contract!AskCancel, Contract!Live
<1> QED
  BY <1>4, <1>5

(* Validation and log transactions are invisible. *)
LEMMA InnerSteps ==
  ASSUME ValidationNext \/ LogNext
  PROVE  UNCHANGED Contract!contractVars
<1>1. UNCHANGED <<state, current, cancelRequested>>
  BY OtherSteps
<1>2. UNCHANGED <<git, pr>>
  BY DEF ValidationNext, RecordValidationResultOnce, RecordValidationStartedOnce,
         MarkValidationComplete, LogNext, AppendWorkerEvent, MarkWorkerEventProcessed,
         SaveAttemptSnapshot, MarkLogsExhausted, resultVars
<1>3. Phase' = Phase
  BY <1>1 DEF Phase
<1> QED
  BY <1>1, <1>2, <1>3, ViewKept DEF Contract!contractVars

(* The store keeps the contract: whatever callers do in whatever order, a   *)
(* client sees only steps TaskContract allows.                              *)
THEOREM StoreKeepsContract == StoreSpec => KeepsContract
<1>1. (StoreTypeOK /\ StoreTypeOK' /\ FutureRows /\ FutureGit
         /\ PullRequestIsDurable /\ CancellationIsLive /\ [StoreNext]_storeVars)
        => [Contract!ContractNext]_(Contract!contractVars)
  <2> SUFFICES ASSUME StoreTypeOK, StoreTypeOK', FutureRows, FutureGit,
                      PullRequestIsDurable, CancellationIsLive, [StoreNext]_storeVars
               PROVE  [Contract!ContractNext]_(Contract!contractVars)
    OBVIOUS
  <2>1. CASE UNCHANGED storeVars
    <3>1. UNCHANGED <<Phase, Line, Receipt>>
      <4>1. Phase' = Phase
        BY <2>1 DEF storeVars, Phase
      <4> QED
        BY <2>1, <4>1, ViewKept DEF storeVars
    <3> QED
      BY <2>1, <3>1 DEF storeVars, Contract!contractVars
  <2> QED
    BY <2>1, LifecycleRefines, AttemptRefines, ResultRefines, ForgeRefines, InnerSteps
    DEF StoreNext
<1> QED
  BY <1>1, InitRefines, StoreTypeCorrect, FutureRowsEmpty, FutureGitEmpty, PullRequestDurable,
     CancellationLive, PTL DEF StoreSpec, KeepsContract, Contract!ContractSpec

-----------------------------------------------------------------------------
(* The other contract: what becomes of feedback *)

(* Nobody's fate changes where the rows of forge events and the attempt stay. *)
LEMMA FeedbackUnchanged ==
  ASSUME UNCHANGED <<forge, current>> PROVE UNCHANGED FeedbackView!feedbackVars
BY DEF FeedbackView!feedbackVars, FeedbackFate, FeedbackRound

(* What is in work in the contract are the rows that run. *)
LEMMA WorkingIsActive ==
  /\ FeedbackView!Working = ActiveFeedback
  /\ FeedbackView!Waiting = {f \in Feedback : forge[f].status = "pending"}
  /\ FeedbackOwnsCurrentAttempt => ActiveFeedback = RunningFeedback(current)
BY DEF FeedbackView!Working, FeedbackView!Waiting, FeedbackFate, ActiveFeedback, RunningFeedback,
       FeedbackOwnsCurrentAttempt

(* A batch that is written into the next attempt is in the next round.      *)
LEMMA NextRoundView ==
  ASSUME NEW batch \in SUBSET Feedback, current' = current + 1,
         forge' = [f \in Feedback |-> IF f \in batch THEN [status |-> "running", attempt |-> current + 1]
                                      ELSE forge[f]]
  PROVE  FeedbackView!NextRound(batch)
BY DEF FeedbackView!NextRound, FeedbackFate, FeedbackRound

(* A retry takes over what runs, and a follow-up starts when nothing does.  *)
LEMMA AttemptKeepsFeedback ==
  ASSUME StoreTypeOK, FeedbackOwnsCurrentAttempt, AttemptNext
  PROVE  FeedbackView!FeedbackNext
<1>1. ASSUME NEW v \in Versions, NEW key \in Keys \cup {NoKey}, RetryTaskOnce(key, v)
      PROVE  FeedbackView!CarryOn
  <2>1. /\ current' = current + 1 /\ RunningFeedback(current) \in SUBSET Feedback
        /\ forge' = [f \in Feedback |-> IF f \in RunningFeedback(current)
                                         THEN [status |-> "running", attempt |-> current + 1]
                                         ELSE forge[f]]
    BY <1>1 DEF RetryTaskOnce, InsertAttempt, RunningFeedback
  <2>2. FeedbackView!NextRound(RunningFeedback(current))
    BY <2>1, NextRoundView
  <2> QED
    BY <2>2, WorkingIsActive DEF FeedbackView!CarryOn
<1>2. ASSUME NEW v \in Versions, NEW batch \in SUBSET Feedback, StartForgeEventAttempt(batch, v)
      PROVE  FeedbackView!Begin
  <2>1. /\ current' = current + 1
        /\ forge' = [f \in Feedback |-> IF f \in batch THEN [status |-> "running", attempt |-> current + 1]
                                         ELSE forge[f]]
    BY <1>2 DEF StartForgeEventAttempt, InsertAttempt
  <2>2. FeedbackView!NextRound(batch)
    BY <2>1, NextRoundView
  <2>3. batch \in SUBSET FeedbackView!Waiting
    BY <1>2, WorkingIsActive DEF StartForgeEventAttempt, Unassociated
  <2>4. FeedbackView!Working = {}
    BY <1>2, WorkingIsActive DEF StartForgeEventAttempt, CanFollowUp
  <2> QED
    BY <2>2, <2>3, <2>4 DEF FeedbackView!Begin
<1> QED
  BY <1>1, <1>2 DEF AttemptNext, FeedbackView!FeedbackNext

(* An outcome that is written for some events is their outcome in the       *)
(* contract, in the round they have.                                        *)
LEMMA OutcomeView ==
  ASSUME StoreTypeOK, UNCHANGED current, NEW batch \in SUBSET Feedback,
         NEW status \in {"handled", "failed"},
         forge' = [f \in Feedback |-> IF f \in batch THEN Outcome(f, status) ELSE forge[f]]
  PROVE  FeedbackView!Becomes(batch, status)
<1>1. \A f \in Feedback : forge'[f].attempt = forge[f].attempt
                          /\ forge'[f].status = IF f \in batch THEN status ELSE forge[f].status
  BY DEF Outcome
<1>2. FeedbackRound' = FeedbackRound
  BY <1>1 DEF FeedbackRound
<1>3. FeedbackFate' = [f \in Feedback |-> IF f \in batch THEN status ELSE FeedbackFate[f]]
  BY <1>1 DEF FeedbackFate
<1> QED
  BY <1>2, <1>3 DEF FeedbackView!Becomes

(* A running batch fails whole, because all that runs does so for one       *)
(* attempt; an event that is handled again stays as it is.                  *)
LEMMA ForgeKeepsFeedback ==
  ASSUME StoreTypeOK, FeedbackOwnsCurrentAttempt, ForgeNext
  PROVE  [FeedbackView!FeedbackNext]_(FeedbackView!feedbackVars)
<1>0. UNCHANGED current /\ forge \in [Feedback -> FeedbackRows]
  BY ForgeStep DEF StoreTypeOK
<1>1. ASSUME NEW a \in Existing, FailRunningFeedback(a) PROVE FeedbackView!FailRound
  <2>1. RunningFeedback(a) = ActiveFeedback
    BY <1>1 DEF FailRunningFeedback, RunningFeedback, ActiveFeedback, FeedbackOwnsCurrentAttempt
  <2>2. FeedbackView!Becomes(ActiveFeedback, "failed")
    <3>1. forge' = [f \in Feedback |-> IF f \in ActiveFeedback THEN Outcome(f, "failed") ELSE forge[f]]
      BY <1>1, <2>1 DEF FailRunningFeedback
    <3> QED
      BY <1>0, <3>1, OutcomeView DEF ActiveFeedback
  <2> QED
    BY <2>2, WorkingIsActive DEF FeedbackView!FailRound
<1>2. ASSUME NEW batch \in SUBSET Feedback, FailPendingFeedback(batch)
      PROVE  FeedbackView!FailWaiting
  <2>1. batch \in SUBSET FeedbackView!Waiting
    BY <1>2, WorkingIsActive DEF FailPendingFeedback, Unassociated
  <2>2. forge' = [f \in Feedback |-> IF f \in batch THEN Outcome(f, "failed") ELSE forge[f]]
    BY <1>2 DEF FailPendingFeedback
  <2> QED
    BY <1>0, <2>1, <2>2, OutcomeView DEF FeedbackView!FailWaiting
<1>3. ASSUME NEW f \in Feedback, MarkForgeEventHandled(f)
      PROVE  FeedbackView!Answer \/ UNCHANGED forge
  <2>1. /\ forge[f].status \in {"pending", "running", "handled"}
        /\ forge' = [forge EXCEPT ![f] = Outcome(f, "handled")]
    BY <1>0, <1>3 DEF MarkForgeEventHandled, FeedbackRows
  <2>2. CASE forge[f].status = "handled"
    <3>1. Outcome(f, "handled") = forge[f]
      BY <1>0, <2>2 DEF Outcome, FeedbackRows
    <3> QED
      BY <1>0, <2>1, <3>1
  <2>3. CASE forge[f].status \in {"pending", "running"}
    <3>1. f \in FeedbackView!Waiting \cup FeedbackView!Working
      BY <2>3, WorkingIsActive DEF ActiveFeedback
    <3>2. forge' = [g \in Feedback |-> IF g \in {f} THEN Outcome(g, "handled") ELSE forge[g]]
      BY <1>0, <2>1
    <3>3. FeedbackView!Becomes({f}, "handled")
      BY <1>0, <3>2, OutcomeView
    <3> QED
      BY <3>1, <3>3 DEF FeedbackView!Answer
  <2> QED
    BY <2>1, <2>2, <2>3
<1> QED
  BY <1>0, <1>1, <1>2, <1>3, FeedbackUnchanged DEF ForgeNext, FeedbackView!FeedbackNext

(* The store keeps the contract about feedback, whoever calls it: it is the *)
(* one that InboxKeepsContract shows of the inbox.                          *)
THEOREM StoreKeepsFeedback == StoreSpec => KeepsFeedback
<1>1. StoreInit => FeedbackView!FeedbackInit
  <2> SUFFICES ASSUME StoreInit PROVE FeedbackView!FeedbackInit
    OBVIOUS
  <2>1. /\ current = 1
        /\ forge = [f \in Feedback |-> [status |-> "pending", attempt |-> 0]]
    BY DEF StoreInit
  <2> QED
    BY <2>1 DEF FeedbackView!FeedbackInit, FeedbackFate, FeedbackRound
<1>2. StoreTypeOK /\ FeedbackOwnsCurrentAttempt /\ [StoreNext]_storeVars
      => [FeedbackView!FeedbackNext]_(FeedbackView!feedbackVars)
  <2> SUFFICES ASSUME StoreTypeOK, FeedbackOwnsCurrentAttempt, [StoreNext]_storeVars
               PROVE  [FeedbackView!FeedbackNext]_(FeedbackView!feedbackVars)
    OBVIOUS
  <2>1. CASE UNCHANGED storeVars \/ LifecycleNext \/ ValidationNext \/ LogNext \/ ResultNext
    <3>1. UNCHANGED storeVars => UNCHANGED <<forge, current>>
      BY DEF storeVars
    <3>2. LifecycleNext => UNCHANGED <<forge, current>>
      BY DEF LifecycleNext, Transition, TransitionClosingRuns, TransitionValidating,
         MoveTo, RequestCancellation
    <3>3. ValidationNext => UNCHANGED <<forge, current>>
      BY DEF ValidationNext, RecordValidationResultOnce, RecordValidationStartedOnce,
         MarkValidationComplete, taskVars
    <3>4. LogNext => UNCHANGED <<forge, current>>
      BY DEF LogNext, AppendWorkerEvent, MarkWorkerEventProcessed, SaveAttemptSnapshot,
         MarkLogsExhausted, taskVars
    <3>5. ResultNext => UNCHANGED <<forge, current>>
      BY DEF ResultNext, RecordPullRequestCandidate, RecordVerifiedPullRequest, taskVars
    <3> QED
      BY <2>1, <3>1, <3>2, <3>3, <3>4, <3>5, FeedbackUnchanged
  <2> QED
    BY <2>1, AttemptKeepsFeedback, ForgeKeepsFeedback DEF StoreNext
<1> QED
  BY <1>1, <1>2, StoreTypeCorrect, FeedbackFollowsCurrent, PTL
  DEF StoreSpec, KeepsFeedback, FeedbackView!FeedbackSpec

=============================================================================
