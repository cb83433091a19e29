------------------------ MODULE SecretCleanupProofs ------------------------
(* The safety of Secret cleanup, for any number of goroutines, passes, Jobs *)
(* and Secrets.                                                             *)
EXTENDS SecretCleanup, TLAPS

Versions == [uid : Nat, finished : BOOLEAN]
Rows == [state : {"none", "open", "done"}, generation : Nat, jobUID : Nat, secretUID : Nat,
         eligible : BOOLEAN]
Steps == {"idle", "observe", "ineligible", "cancel", "keep", "schedule", "guard", "mark", "list",
          "start", "waiting", "row", "get", "bind", "reread", "delete", "complete"}
Contexts == [pc : Steps, job : Versions, copy : Rows, blocked : {"idle", "schedule", "list"},
             for : Nat, seen : Nat, bound : BOOLEAN, cancelled : BOOLEAN]

CleanupTypeOK ==
  /\ settled \in BOOLEAN
  /\ job \in [history : Seq(Versions), watched : Nat, here : BOOLEAN]
  /\ secret \in [uid : Nat, here : BOOLEAN, ours : BOOLEAN]
  /\ row \in Rows
  /\ entry \in Runs \cup {NoRun}
  /\ thread \in [Threads -> Contexts]

(* What a goroutine found out stays true until it acts: nothing creates a   *)
(* Job or a Secret once the attempt is over, and a UID is used once.        *)
Justified(c) ==
  /\ c.pc \in {"guard", "get", "bind", "reread", "delete", "complete"} => settled
  /\ c.pc = "delete" => ~JobRunning /\ c.bound
  /\ c.pc = "complete" => ~OwnSecret
  /\ c.pc \in {"bind", "reread"} \/ c.bound =>
       c.seen <= secret.uid /\ (c.seen = secret.uid => secret.ours)

CompleteIsFinal == row.state = "done" => settled /\ ~OwnSecret

CleanupInv ==
  /\ CleanupTypeOK
  /\ \A t \in Threads : Justified(thread[t])
  /\ CompleteIsFinal
  /\ OneCleanup

(* What a step may do to the attempt, its Job and its Secret. *)
WorldStep ==
  /\ settled => settled' /\ (JobRunning' => JobRunning) /\ (OwnSecret' => OwnSecret)
  /\ secret.uid <= secret'.uid
  /\ secret'.uid = secret.uid /\ secret.ours => secret'.ours

(* A finding survives such a step (secretCleanupStillEligible, the guard). *)
LEMMA FindingsLast ==
  ASSUME CleanupTypeOK, CleanupTypeOK', WorldStep, \A u \in Threads : Justified(thread'[u])
  PROVE  (\A u \in Threads : Justified(thread[u]))'
<1> SUFFICES ASSUME NEW u \in Threads PROVE Justified(thread[u])'
  OBVIOUS
<1>1. Justified(thread'[u]) /\ thread'[u].seen \in Nat
  BY DEF CleanupTypeOK, Contexts
<1>2. secret.uid \in Nat /\ secret'.uid \in Nat
  BY DEF CleanupTypeOK
<1> QED
  BY <1>1, <1>2 DEF Justified, WorldStep

(* A thread moves on by one context, or stops (Continue, End). *)
LEMMA ThreadMoves ==
  ASSUME CleanupInv, NEW t \in Threads, NEW c \in Contexts, Justified(c),
         thread' = [thread EXCEPT ![t] = c]
  PROVE  /\ thread' \in [Threads -> Contexts]
         /\ \A u \in Threads : Justified(thread'[u])
         /\ (t \in Runs => thread[t].pc # "idle" /\ c.cancelled = thread[t].cancelled)
            /\ UNCHANGED entry => OneCleanup'
<1>1. thread \in [Threads -> Contexts] /\ Runs \subseteq Threads
  BY DEF CleanupInv, CleanupTypeOK, Threads
<1>2. thread' \in [Threads -> Contexts] /\ \A u \in Threads : Justified(thread'[u])
  BY <1>1 DEF CleanupInv
<1>3. ASSUME t \in Runs => thread[t].pc # "idle" /\ c.cancelled = thread[t].cancelled,
             UNCHANGED entry
      PROVE  OneCleanup'
  BY <1>1, <1>3 DEF CleanupInv, OneCleanup
<1> QED
  BY <1>2, <1>3

(* An idle thread is typed and justified. *)
LEMMA IdleContext == Idle \in Contexts /\ Justified(Idle) /\ Idle.pc = "idle"
BY DEF Idle, Contexts, Steps, NoVersion, NoRow, Versions, Rows, Justified

(* The same for Continue, which stops a cancelled goroutine. *)
LEMMA ThreadContinues ==
  ASSUME CleanupInv, NEW t \in Threads, NEW c \in Contexts, Justified(c), Continue(t, c)
  PROVE  /\ thread' \in [Threads -> Contexts]
         /\ \A u \in Threads : Justified(thread'[u])
         /\ (t \in Runs => thread[t].pc # "idle" /\ c.cancelled = thread[t].cancelled)
            /\ UNCHANGED entry => OneCleanup'
<1>1. CASE Stops(t, c.pc)
  <2>1. thread' = [thread EXCEPT ![t] = Idle]
    BY <1>1 DEF Continue
  <2>2. thread \in [Threads -> Contexts] /\ Runs \subseteq Threads
    BY DEF CleanupInv, CleanupTypeOK, Threads
  <2>3. UNCHANGED entry => OneCleanup'
    BY <2>1, <2>2, IdleContext DEF CleanupInv, OneCleanup
  <2> QED
    BY <2>1, <2>3, IdleContext, ThreadMoves
<1>2. CASE ~Stops(t, c.pc)
  <2>1. thread' = [thread EXCEPT ![t] = c]
    BY <1>2 DEF Continue
  <2> QED
    BY <2>1, ThreadMoves
<1> QED
  BY <1>1, <1>2

(* And for a goroutine that ends. *)
LEMMA ThreadEnds ==
  ASSUME CleanupInv, NEW t \in Threads, End(t)
  PROVE  /\ thread' \in [Threads -> Contexts] /\ entry' \in Runs \cup {NoRun}
         /\ \A u \in Threads : Justified(thread'[u])
         /\ OneCleanup'
<1>1. thread' = [thread EXCEPT ![t] = Idle] /\ entry' = (IF entry = t THEN NoRun ELSE entry)
  BY DEF End
<1>2. thread \in [Threads -> Contexts] /\ Runs \subseteq Threads /\ entry \in Runs \cup {NoRun}
  BY DEF CleanupInv, CleanupTypeOK, Threads
<1>3. OneCleanup'
  BY <1>1, <1>2, IdleContext DEF CleanupInv, OneCleanup
<1> QED
  BY <1>1, <1>2, <1>3, IdleContext, ThreadMoves

(* The last Job that bore the name. *)
LEMMA CurrentIsVersion == CleanupTypeOK => Current \in Versions
<1> SUFFICES ASSUME CleanupTypeOK PROVE Current \in Versions
  OBVIOUS
<1>1. job.history \in Seq(Versions)
  BY DEF CleanupTypeOK
<1>2. job.history # <<>> => job.history[Len(job.history)] \in Versions
  BY <1>1
<1>3. NoVersion \in Versions
  BY DEF NoVersion, Versions
<1> QED
  BY <1>2, <1>3 DEF Current

(* What the rest of the controller, Kubernetes and operators do. *)
LEMMA OutsideKeeps == ASSUME CleanupInv, OutsideNext PROVE CleanupInv'
<1> USE DEF CleanupInv
<1>1. UNCHANGED <<thread, entry>>
  BY DEF OutsideNext, CreateSecret, RegisterSecretCleanup, CreateJob, JobFinishes, JobRemoved,
         Settle, ReplaceSecret, KeepThreads
<1>2. CleanupTypeOK' /\ WorldStep /\ CompleteIsFinal'
  <2> USE DEF CleanupTypeOK, WorldStep, CompleteIsFinal, JobRunning, OwnSecret, Current
  <2>1. CASE CreateSecret
    BY <1>1, <2>1 DEF CreateSecret
  <2>2. CASE RegisterSecretCleanup
    <3>1. row' \in Rows /\ (row'.state = "done" => row.state = "done")
      BY <2>2 DEF RegisterSecretCleanup, NoRow, Rows
    <3> QED
      BY <1>1, <2>2, <3>1 DEF RegisterSecretCleanup
  <2>3. CASE CreateJob
    <3>1. job' \in [history : Seq(Versions), watched : Nat, here : BOOLEAN]
      <4>1. [uid |-> Current.uid + 1, finished |-> FALSE] \in Versions
        BY CurrentIsVersion DEF Versions
      <4>2. job.history \in Seq(Versions)
        OBVIOUS
      <4>3. Append(job.history, [uid |-> Current.uid + 1, finished |-> FALSE]) \in Seq(Versions)
        BY <4>1, <4>2
      <4> HIDE DEF Current
      <4> QED
        BY <2>3, <4>3 DEF CreateJob
    <3> QED
      BY <1>1, <2>3, <3>1 DEF CreateJob
  <2>4. CASE JobFinishes
    <3> DEFINE version == [uid |-> Current.uid, finished |-> TRUE]
    <3>1. version \in Versions /\ job.history \in Seq(Versions)
      BY CurrentIsVersion DEF Versions
    <3>2. Append(job.history, version) \in Seq(Versions)
      BY <3>1
    <3>3. job' = [job EXCEPT !.history = Append(job.history, version)]
      BY <2>4 DEF JobFinishes
    <3> HIDE DEF version
    <3>4. job' \in [history : Seq(Versions), watched : Nat, here : BOOLEAN]
      BY <3>2, <3>3
    <3>5. JobRunning
      BY <2>4 DEF JobFinishes
    <3> QED
      BY <1>1, <2>4, <3>4, <3>5 DEF JobFinishes
  <2>5. CASE JobRemoved
    <3>1. job' = [job EXCEPT !.here = FALSE]
      BY <2>5 DEF JobRemoved
    <3>2. job' \in [history : Seq(Versions), watched : Nat, here : BOOLEAN] /\ ~job'.here
      BY <3>1
    <3> QED
      BY <1>1, <2>5, <3>2 DEF JobRemoved
  <2>6. CASE Settle
    BY <1>1, <2>6 DEF Settle
  <2>7. CASE ReplaceSecret
    BY <1>1, <2>7 DEF ReplaceSecret
  <2> QED
    BY <2>1, <2>2, <2>3, <2>4, <2>5, <2>6, <2>7 DEF OutsideNext
<1>3. \A u \in Threads : Justified(thread'[u])
  BY <1>1
<1>4. OneCleanup'
  BY <1>1 DEF OneCleanup
<1> QED
  BY <1>2, <1>3, <1>4, FindingsLast

(* Everything else leaves the attempt and the Secret's owner alone. *)
LEMMA ThreadKeeps ==
  ASSUME CleanupInv, UNCHANGED settled, secret' = secret, JobRunning' = JobRunning,
         job' \in [history : Seq(Versions), watched : Nat, here : BOOLEAN],
         row' \in Rows, row'.state = "done" => row.state = "done" \/ (settled /\ ~OwnSecret),
         entry' \in Runs \cup {NoRun}, thread' \in [Threads -> Contexts],
         \A u \in Threads : Justified(thread'[u]), OneCleanup'
  PROVE  CleanupInv'
<1>1. CleanupTypeOK' /\ WorldStep /\ CompleteIsFinal'
  BY DEF CleanupInv, CleanupTypeOK, WorldStep, CompleteIsFinal, OwnSecret
<1> QED
  BY <1>1, FindingsLast DEF CleanupInv

(* KeepWorld, with what it says of the derived states. *)
LEMMA WorldKept ==
  ASSUME CleanupInv, KeepWorld
  PROVE  /\ UNCHANGED settled /\ secret' = secret /\ JobRunning' = JobRunning
         /\ job' \in [history : Seq(Versions), watched : Nat, here : BOOLEAN]
BY DEF CleanupInv, CleanupTypeOK, KeepWorld, JobRunning, Current

(* A step in which thread t goes on with the context c. *)
LEMMA GoesOn ==
  ASSUME CleanupInv, NEW t \in Threads, NEW c \in Contexts, Justified(c), Continue(t, c),
         thread[t].pc # "idle", c.cancelled = thread[t].cancelled,
         UNCHANGED entry, KeepWorld,
         row' \in Rows, row'.state = "done" => row.state = "done"
  PROVE  CleanupInv'
<1>1. thread' \in [Threads -> Contexts] /\ (\A u \in Threads : Justified(thread'[u])) /\ OneCleanup'
  BY ThreadContinues
<1>2. entry' \in Runs \cup {NoRun}
  BY DEF CleanupInv, CleanupTypeOK
<1> QED
  BY <1>1, <1>2, WorldKept, ThreadKeeps

(* The same when only the step of t changes, and when it is blocked. *)
LEMMA GoesTo ==
  ASSUME CleanupInv, NEW t \in Threads, NEW pc \in Steps, Goto(t, pc), thread[t].pc # "idle",
         Justified([thread[t] EXCEPT !.pc = pc]),
         UNCHANGED entry, KeepWorld,
         row' \in Rows, row'.state = "done" => row.state = "done"
  PROVE  CleanupInv'
<1> DEFINE c == [thread[t] EXCEPT !.pc = pc]
<1>1. thread[t] \in Contexts
  BY DEF CleanupInv, CleanupTypeOK
<1>2. c \in Contexts /\ c.cancelled = thread[t].cancelled
  BY <1>1 DEF Contexts
<1>3. Continue(t, c)
  BY DEF Goto
<1> HIDE DEF c
<1> QED
  BY <1>2, <1>3, GoesOn DEF c

(* A step in which goroutine t ends.                                        *)
LEMMA EndsKeeping ==
  ASSUME CleanupInv, NEW t \in Threads, End(t), KeepWorld,
         row' \in Rows, row'.state = "done" => row.state = "done" \/ (settled /\ ~OwnSecret)
  PROVE  CleanupInv'
<1>1. thread' \in [Threads -> Contexts] /\ entry' \in Runs \cup {NoRun}
      /\ (\A u \in Threads : Justified(thread'[u])) /\ OneCleanup'
  BY ThreadEnds
<1> QED
  BY <1>1, WorldKept, ThreadKeeps

(* A step in which thread t is blocked: a goroutine ends, a pass goes on.   *)
LEMMA BlockedKeeps ==
  ASSUME CleanupInv, NEW t \in Threads, Blocked(t), thread[t].pc # "idle", KeepWorld,
         row' \in Rows, row'.state = "done" => row.state = "done"
  PROVE  CleanupInv'
<1>1. CASE t \in Runs
  BY <1>1, EndsKeeping DEF Blocked
<1>2. CASE t \notin Runs
  <2>1. thread[t] \in Contexts /\ Justified(thread[t])
    BY DEF CleanupInv, CleanupTypeOK
  <2>2. thread[t].blocked \in Steps /\ thread[t].blocked \in {"idle", "schedule", "list"}
    BY <2>1 DEF Contexts, Steps
  <2>3. Justified([thread[t] EXCEPT !.pc = thread[t].blocked])
    BY <2>1, <2>2 DEF Justified, Contexts
  <2> QED
    BY <1>2, <2>2, <2>3, GoesTo DEF Blocked
<1> QED
  BY <1>1, <1>2

(* Passes over the Job (observeJob, scheduleSecretCleanup, recover).        *)
LEMMA PassKeeps == ASSUME CleanupInv, NEW t \in Passes, PassNext(t) PROVE CleanupInv'
<1>0. t \in Threads /\ t \notin Runs /\ thread[t] \in Contexts /\ Justified(thread[t])
  BY CleanupAssumption DEF Threads, CleanupInv, CleanupTypeOK
<1>00. row \in Rows /\ entry \in Runs \cup {NoRun} /\ thread \in [Threads -> Contexts]
  BY DEF CleanupInv, CleanupTypeOK
<1>1. CASE BeginPass(t)
  <2>1. PICK c \in Contexts :
          /\ thread' = [thread EXCEPT ![t] = c] /\ Justified(c)
          /\ UNCHANGED <<settled, secret, row, entry>>
          /\ \E w \in Nat : job' = [job EXCEPT !.watched = w] \/ job' = job
    <3>1. CASE ~job.here /\ thread' = [thread EXCEPT ![t].pc = "list"] /\ UNCHANGED job
      <4> DEFINE c == [thread[t] EXCEPT !.pc = "list"]
      <4>1. c \in Contexts /\ Justified(c) /\ thread' = [thread EXCEPT ![t] = c]
        BY <1>0, <1>00, <3>1 DEF Contexts, Steps, Justified
      <4> QED
        BY <1>1, <3>1, <4>1 DEF BeginPass
    <3>2. ASSUME NEW i \in Delivered(t),
                 thread' = [thread EXCEPT ![t] = [Idle EXCEPT !.pc = "observe",
                                                   !.job = job.history[i], !.blocked = "schedule"]],
                 job' = IF t = "watch" THEN [job EXCEPT !.watched = i] ELSE job
          PROVE  \E c \in Contexts :
                   /\ thread' = [thread EXCEPT ![t] = c] /\ Justified(c)
                   /\ UNCHANGED <<settled, secret, row, entry>>
                   /\ \E w \in Nat : job' = [job EXCEPT !.watched = w] \/ job' = job
      <4> DEFINE c == [Idle EXCEPT !.pc = "observe", !.job = job.history[i], !.blocked = "schedule"]
      <4>1. i \in Nat /\ job.history[i] \in Versions
        BY DEF Delivered, CleanupInv, CleanupTypeOK
      <4>2. c \in Contexts /\ Justified(c)
        BY <4>1, IdleContext DEF Contexts, Steps, Justified, Idle
      <4> HIDE DEF c
      <4>3. /\ thread' = [thread EXCEPT ![t] = c]
            /\ \E w \in Nat : job' = [job EXCEPT !.watched = w] \/ job' = job
        BY <3>2, <4>1 DEF c
      <4> QED
        BY <1>1, <4>2, <4>3 DEF BeginPass
    <3> QED
      BY <1>1, <3>1, <3>2 DEF BeginPass
  <2>2. /\ job' \in [history : Seq(Versions), watched : Nat, here : BOOLEAN]
        /\ JobRunning' = JobRunning
    BY <2>1 DEF CleanupInv, CleanupTypeOK, JobRunning, Current
  <2>3. /\ thread' \in [Threads -> Contexts]
        /\ (\A u \in Threads : Justified(thread'[u])) /\ OneCleanup'
    BY <1>0, <2>1, ThreadMoves
  <2> QED
    BY <1>00, <2>1, <2>2, <2>3, ThreadKeeps
<1>2. CASE Schedule(t)
  <2> DEFINE c == [thread[t] EXCEPT !.pc = IF settled THEN "guard" ELSE "ineligible",
                                   !.copy = [NoRow EXCEPT !.jobUID = thread[t].job.uid],
                                   !.job = NoVersion, !.blocked = "list"]
  <2>1. [NoRow EXCEPT !.jobUID = thread[t].job.uid] \in Rows /\ NoVersion \in Versions
    BY <1>0 DEF Contexts, NoRow, Rows, NoVersion, Versions
  <2>2. c \in Contexts /\ c.cancelled = thread[t].cancelled
    BY <1>0, <2>1 DEF Contexts, Steps
  <2>3. Justified(c)
    BY <1>0 DEF Contexts, Justified
  <2>4. Continue(t, c) /\ thread[t].pc # "idle" /\ UNCHANGED <<entry, row>> /\ KeepWorld
    BY <1>2 DEF Schedule, At
  <2> HIDE DEF c
  <2> QED
    BY <1>0, <1>00, <2>2, <2>3, <2>4, GoesOn
<1>3. CASE List(t)
  <2>1. KeepWorld /\ UNCHANGED <<row, entry>> /\ thread[t].pc # "idle"
    BY <1>3 DEF List, At
  <2>2. CASE row.state # "open"
    <3>1. thread' = [thread EXCEPT ![t] = Idle]
      BY <1>3, <2>2 DEF List
    <3>2. /\ thread' \in [Threads -> Contexts]
          /\ (\A u \in Threads : Justified(thread'[u])) /\ OneCleanup'
      BY <1>0, <2>1, <3>1, IdleContext, ThreadMoves
    <3> QED
      BY <1>00, <2>1, <3>2, WorldKept, ThreadKeeps
  <2>3. CASE row.state = "open"
    <3> DEFINE c == [thread[t] EXCEPT !.pc = IF settled THEN "guard" ELSE "ineligible",
                                     !.copy = row, !.blocked = "idle"]
    <3>1. c \in Contexts /\ c.cancelled = thread[t].cancelled
      BY <1>0, <1>00 DEF Contexts, Steps
    <3>2. Justified(c)
      BY <1>0 DEF Contexts, Justified
    <3>3. Continue(t, c)
      BY <1>3, <2>3 DEF List
    <3> HIDE DEF c
    <3> QED
      BY <1>0, <1>00, <2>1, <3>1, <3>2, <3>3, GoesOn
  <2> QED
    BY <2>2, <2>3
<1>4. CASE MarkEligible(t)
  <2>1. KeepWorld /\ thread[t].pc = "mark"
    BY <1>4 DEF MarkEligible, At
  <2>2. CASE Goto(t, "start") /\ UNCHANGED <<row, entry>>
    <3>1. Justified([thread[t] EXCEPT !.pc = "start"]) /\ "start" \in Steps
      BY <1>0 DEF Justified, Contexts, Steps
    <3> QED
      BY <1>0, <1>00, <2>1, <2>2, <3>1, GoesTo
  <2>3. CASE /\ row' = [row EXCEPT !.eligible = TRUE] /\ UNCHANGED entry
             /\ Continue(t, [thread[t] EXCEPT !.pc = "start", !.copy = row'])
    <3> DEFINE c == [thread[t] EXCEPT !.pc = "start", !.copy = row']
    <3>1. row' \in Rows /\ row'.state = row.state
      BY <1>00, <2>3 DEF Rows
    <3>2. c \in Contexts /\ c.cancelled = thread[t].cancelled
      BY <1>0, <3>1 DEF Contexts, Steps
    <3>3. Justified(c)
      BY <1>0 DEF Contexts, Justified
    <3>4. Continue(t, c)
      BY <2>3
    <3> HIDE DEF c
    <3> QED
      BY <1>0, <2>1, <2>3, <3>1, <3>2, <3>3, <3>4, GoesOn
  <2>4. CASE Blocked(t) /\ UNCHANGED row
    BY <1>0, <1>00, <2>1, <2>4, BlockedKeeps
  <2> QED
    BY <1>4, <2>2, <2>3, <2>4 DEF MarkEligible
<1>5. CASE StartCleanup(t)
  <2>1. KeepWorld /\ UNCHANGED row
    BY <1>5 DEF StartCleanup
  <2> DEFINE pass == [thread[t] EXCEPT !.pc = thread[t].blocked]
  <2>2. pass \in Contexts /\ Justified(pass)
    BY <1>0 DEF Contexts, Steps, Justified
  <2>3. CASE entry # NoRun
    <3>1. thread' = [thread EXCEPT ![t] = pass] /\ UNCHANGED entry
      BY <1>5, <2>3 DEF StartCleanup
    <3> HIDE DEF pass
    <3>2. /\ thread' \in [Threads -> Contexts]
          /\ (\A u \in Threads : Justified(thread'[u])) /\ OneCleanup'
      BY <1>0, <2>2, <3>1, ThreadMoves
    <3> QED
      BY <1>00, <2>1, <3>1, <3>2, WorldKept, ThreadKeeps
  <2>4. CASE entry = NoRun
    <3> DEFINE r == CHOOSE free \in Runs : At(free, "idle")
               new == [Idle EXCEPT !.pc = "waiting", !.copy = thread[t].copy,
                                   !.for = thread[t].copy.jobUID]
    <3>1. \E free \in Runs : At(free, "idle")
      BY <1>5, <2>4 DEF StartCleanup
    <3>2. r \in Runs
      BY <3>1
    <3>3. thread' = [thread EXCEPT ![t] = pass, ![r] = new] /\ entry' = r
      BY <1>5, <2>4 DEF StartCleanup
    <3>4. new \in Contexts /\ Justified(new)
      BY <1>0, IdleContext DEF Contexts, Steps, Justified, Idle, Rows
    <3>5. r \in Threads
      BY <3>2 DEF Threads
    <3> HIDE DEF r, new, pass
    <3>6. thread' \in [Threads -> Contexts] /\ \A u \in Threads : Justified(thread'[u])
      BY <1>0, <1>00, <2>2, <3>3, <3>4, <3>5 DEF CleanupInv
    <3>7. OneCleanup'
      <4> SUFFICES ASSUME NEW q \in Runs, q # r, thread'[q].pc # "idle" PROVE thread'[q].cancelled
        BY <3>3 DEF OneCleanup
      <4>1. q \in Threads /\ q # t
        BY <1>0 DEF Threads
      <4>2. thread'[q] = thread[q]
        BY <1>00, <3>3, <4>1
      <4> QED
        BY <2>4, <4>2, CleanupAssumption DEF CleanupInv, OneCleanup
    <3> QED
      BY <1>00, <2>1, <3>2, <3>3, <3>6, <3>7, WorldKept, ThreadKeeps
  <2> QED
    BY <2>3, <2>4
<1> QED
  BY <1>1, <1>2, <1>3, <1>4, <1>5 DEF PassNext

(* What passes and goroutines share (observeJob, the guard).                *)
LEMMA SharedKeeps == ASSUME CleanupInv, NEW t \in Threads, ThreadNext(t) PROVE CleanupInv'
<1>0. /\ thread[t] \in Contexts /\ Justified(thread[t]) /\ Runs \subseteq Threads
      /\ row \in Rows /\ entry \in Runs \cup {NoRun} /\ thread \in [Threads -> Contexts]
  BY DEF Threads, CleanupInv, CleanupTypeOK
<1>00. \A pc \in {"keep", "ineligible", "cancel", "mark"} :
         pc \in Steps /\ Justified([thread[t] EXCEPT !.pc = pc])
  BY <1>0 DEF Steps, Contexts, Justified
<1>1. CASE ObserveJob(t)
  <2>1. row' = ObserveRow(row, thread[t].job.uid) /\ thread[t].job.uid \in Nat
    BY <1>0, <1>1 DEF ObserveJob, Contexts, Versions
  <2>2. row' \in Rows /\ (row'.state = "done" => row.state = "done")
    <3>1. NoRow \in Rows /\ NoRow.state = "none" /\ row.generation \in Nat
      BY <1>0 DEF NoRow, Rows
    <3>2. CASE row.state = "none"
      <4>1. row' = [NoRow EXCEPT !.state = "open", !.jobUID = thread[t].job.uid]
        BY <2>1, <3>2 DEF ObserveRow
      <4> QED
        BY <2>1, <3>1, <4>1 DEF Rows
    <3>3. CASE row.state # "none" /\ row.jobUID = thread[t].job.uid
      BY <1>0, <2>1, <3>3 DEF ObserveRow
    <3>4. CASE row.state # "none" /\ row.jobUID # thread[t].job.uid
      <4>1. row' = [NoRow EXCEPT !.state = "open", !.jobUID = thread[t].job.uid,
                                 !.generation = row.generation + 1]
        BY <2>1, <3>4 DEF ObserveRow
      <4>2. row.generation + 1 \in Nat
        BY <3>1
      <4> QED
        BY <2>1, <3>1, <4>1, <4>2 DEF Rows
    <3> QED
      BY <3>2, <3>3, <3>4
  <2>3. PICK pc \in {"keep", "ineligible"} : Goto(t, pc)
    BY <1>1 DEF ObserveJob
  <2> QED
    BY <1>00, <1>1, <2>2, <2>3, GoesTo DEF ObserveJob, At
<1>2. CASE MarkIneligible(t)
  <2>1. row' \in Rows /\ (row'.state = "done" => row.state = "done")
    <3>1. row.generation + 1 \in Nat
      BY <1>0 DEF Rows
    <3>2. row' = row \/ row' = [row EXCEPT !.eligible = FALSE, !.secretUID = 0,
                                           !.generation = row.generation + 1]
      BY <1>2 DEF MarkIneligible, Ineligible
    <3>3. ASSUME row' = [row EXCEPT !.eligible = FALSE, !.secretUID = 0,
                                   !.generation = row.generation + 1]
          PROVE  row' \in Rows /\ row'.state = row.state
      BY <1>0, <3>1, <3>3 DEF Rows
    <3> QED
      BY <1>0, <3>2, <3>3
  <2> QED
    BY <1>00, <1>2, <2>1, GoesTo DEF MarkIneligible, At
<1>3. CASE Cancel(t)
  <2>1. KeepWorld /\ UNCHANGED row /\ thread[t].pc # "idle"
    BY <1>3 DEF Cancel, At
  <2>2. CASE Blocked(t)
    BY <1>0, <2>1, <2>2, BlockedKeeps
  <2>3. CASE /\ entry # NoRun /\ entry' = NoRun
             /\ thread' = [thread EXCEPT ![entry].cancelled = TRUE,
                                         ![t] = IF t \in Runs THEN Idle
                                                ELSE [@ EXCEPT !.pc = thread[t].blocked]]
    <3> DEFINE stopped == [thread[entry] EXCEPT !.cancelled = TRUE]
               pass == [thread[t] EXCEPT !.pc = thread[t].blocked]
    <3>1. entry \in Threads /\ stopped \in Contexts /\ stopped.cancelled /\ Justified(stopped)
      BY <1>0, <2>3 DEF CleanupInv, Justified, Contexts
    <3>2. pass \in Contexts /\ Justified(pass)
      BY <1>0 DEF Justified, Contexts, Steps
    <3>3. /\ t \in Runs => thread'[t] = Idle
          /\ t \notin Runs => thread'[t] = pass
          /\ entry # t => thread'[entry] = stopped
          /\ \A u \in Threads \ {t, entry} : thread'[u] = thread[u]
          /\ DOMAIN thread' = Threads /\ thread' = [u \in Threads |-> thread'[u]]
      BY <1>0, <2>3, <3>1
    <3> HIDE DEF stopped, pass
    <3>4. \A u \in Threads : thread'[u] \in Contexts /\ Justified(thread'[u])
      BY <1>0, <3>1, <3>2, <3>3, IdleContext DEF CleanupInv
    <3>5. thread' \in [Threads -> Contexts]
      BY <3>3, <3>4
    <3>6. OneCleanup'
      <4> SUFFICES ASSUME NEW q \in Runs, thread'[q].pc # "idle" PROVE thread'[q].cancelled
        BY DEF OneCleanup
      <4>1. q # t
        BY <3>3, IdleContext
      <4> QED
        BY <1>0, <3>1, <3>3, <4>1 DEF CleanupInv, OneCleanup
    <3> QED
      BY <1>0, <2>1, <2>3, <3>4, <3>5, <3>6, WorldKept, ThreadKeeps
  <2> QED
    BY <1>3, <2>2, <2>3 DEF Cancel
<1>4. CASE Guard(t)
  <2>1. KeepWorld /\ UNCHANGED row /\ thread[t].pc = "guard"
    BY <1>4 DEF Guard, At
  <2>2. settled
    BY <1>0, <2>1 DEF Justified
  <2>3. CASE /\ ~job.here \/ (Current.uid = thread[t].copy.jobUID /\ Current.finished)
             /\ Goto(t, IF t \in Passes THEN "mark"
                        ELSE IF thread[t].bound THEN "delete" ELSE "get")
             /\ UNCHANGED entry
    <3>1. ~JobRunning
      BY <2>3 DEF JobRunning
    <3>2. "delete" \in Steps /\ "get" \in Steps
          /\ Justified([thread[t] EXCEPT !.pc = "get"])
          /\ (thread[t].bound => Justified([thread[t] EXCEPT !.pc = "delete"]))
      BY <1>0, <2>2, <3>1 DEF Justified, Contexts, Steps
    <3>3. CASE Goto(t, "mark")
      BY <1>0, <1>00, <2>1, <2>3, <3>3, GoesTo
    <3>4. CASE thread[t].bound /\ Goto(t, "delete")
      BY <1>0, <2>1, <2>3, <3>2, <3>4, GoesTo
    <3>5. CASE Goto(t, "get")
      BY <1>0, <2>1, <2>3, <3>2, <3>5, GoesTo
    <3> QED
      BY <2>3, <3>3, <3>4, <3>5
  <2>4. CASE Continue(t, [thread[t] EXCEPT !.pc = "observe", !.job = Current]) /\ UNCHANGED entry
    <3> DEFINE c == [thread[t] EXCEPT !.pc = "observe", !.job = Current]
    <3>1. c \in Contexts /\ Justified(c) /\ c.cancelled = thread[t].cancelled
      BY <1>0, CurrentIsVersion DEF CleanupInv, Contexts, Steps, Justified
    <3>2. Continue(t, c)
      BY <2>4
    <3> HIDE DEF c
    <3> QED
      BY <1>0, <2>1, <2>4, <3>1, <3>2, GoesOn
  <2>5. CASE Goto(t, "ineligible") /\ UNCHANGED entry
    BY <1>0, <1>00, <2>1, <2>5, GoesTo
  <2>6. CASE Blocked(t)
    BY <1>0, <2>1, <2>6, BlockedKeeps
  <2> QED
    BY <1>4, <2>3, <2>4, <2>5, <2>6 DEF Guard
<1> QED
  BY <1>1, <1>2, <1>3, <1>4 DEF ThreadNext

(* The cleanup goroutine (the wait, the second look, the deletion).         *)
LEMMA RunKeeps == ASSUME CleanupInv, NEW r \in Runs, RunNext(r) PROVE CleanupInv'
<1>0. /\ r \in Threads /\ thread[r] \in Contexts /\ Justified(thread[r]) /\ Runs \subseteq Threads
      /\ row \in Rows /\ entry \in Runs \cup {NoRun} /\ thread \in [Threads -> Contexts]
      /\ secret \in [uid : Nat, here : BOOLEAN, ours : BOOLEAN]
  BY DEF Threads, CleanupInv, CleanupTypeOK
<1>1. CASE Wake(r)
  <2>1. Justified([thread[r] EXCEPT !.pc = "row"]) /\ "row" \in Steps
    BY <1>0 DEF Justified, Contexts, Steps
  <2> QED
    BY <1>0, <1>1, <2>1, GoesTo DEF Wake, At
<1>2. CASE CheckRow(r)
  <2>1. KeepWorld /\ UNCHANGED row /\ thread[r].pc = "row"
    BY <1>2 DEF CheckRow, At
  <2>2. CASE settled /\ Goto(r, "guard") /\ UNCHANGED entry
    <3>1. Justified([thread[r] EXCEPT !.pc = "guard"]) /\ "guard" \in Steps
      BY <1>0, <2>2 DEF Justified, Contexts, Steps
    <3> QED
      BY <1>0, <2>1, <2>2, <3>1, GoesTo
  <2>3. CASE End(r)
    BY <1>0, <2>1, <2>3, EndsKeeping
  <2> QED
    BY <1>2, <2>2, <2>3 DEF CheckRow
<1>3. CASE GetSecret(r)
  <2>1. KeepWorld /\ UNCHANGED <<row, entry>> /\ thread[r].pc = "get" /\ settled
    BY <1>0, <1>3 DEF GetSecret, At, Justified
  <2>2. CASE ~OwnSecret /\ Goto(r, "complete")
    <3>1. Justified([thread[r] EXCEPT !.pc = "complete"]) /\ "complete" \in Steps
      BY <1>0, <2>1, <2>2 DEF Justified, Contexts, Steps
    <3> QED
      BY <1>0, <2>1, <2>2, <3>1, GoesTo
  <2>3. CASE OwnSecret /\ Continue(r, [thread[r] EXCEPT !.pc = "bind", !.seen = secret.uid])
    <3> DEFINE c == [thread[r] EXCEPT !.pc = "bind", !.seen = secret.uid]
    <3>1. c \in Contexts /\ c.cancelled = thread[r].cancelled
      BY <1>0 DEF Contexts, Steps
    <3>2. Justified(c)
      BY <1>0, <2>1, <2>3 DEF Justified, Contexts, OwnSecret
    <3>3. Continue(r, c)
      BY <2>3
    <3> HIDE DEF c
    <3> QED
      BY <1>0, <2>1, <3>1, <3>2, <3>3, GoesOn
  <2>4. CASE Goto(r, "row")
    <3>1. Justified([thread[r] EXCEPT !.pc = "row"]) /\ "row" \in Steps
      BY <1>0 DEF Justified, Contexts, Steps
    <3> QED
      BY <1>0, <2>1, <2>4, <3>1, GoesTo
  <2> QED
    BY <1>3, <2>2, <2>3, <2>4 DEF GetSecret
<1>4. CASE BindSecret(r)
  <2>1. KeepWorld /\ thread[r].pc = "bind" /\ settled
    BY <1>0, <1>4 DEF BindSecret, At, Justified
  <2>2. CASE End(r) /\ UNCHANGED row
    BY <1>0, <2>1, <2>2, EndsKeeping
  <2>3. CASE /\ row' = [row EXCEPT !.secretUID = thread[r].seen,
                                   !.generation = IF row.secretUID \in {0, thread[r].seen}
                                                  THEN @ ELSE @ + 1]
             /\ Goto(r, "reread") /\ UNCHANGED entry
    <3>1. row' \in Rows /\ row'.state = row.state
      <4>1. thread[r].seen \in Nat /\ row.generation \in Nat /\ row.generation + 1 \in Nat
        BY <1>0 DEF Contexts, Rows
      <4>2. CASE row.secretUID \in {0, thread[r].seen}
        <5>1. row' = [row EXCEPT !.secretUID = thread[r].seen, !.generation = row.generation]
          BY <2>3, <4>2
        <5> QED
          BY <1>0, <4>1, <5>1 DEF Rows
      <4>3. CASE row.secretUID \notin {0, thread[r].seen}
        <5>1. row' = [row EXCEPT !.secretUID = thread[r].seen, !.generation = row.generation + 1]
          BY <2>3, <4>3
        <5> QED
          BY <1>0, <4>1, <5>1 DEF Rows
      <4> QED
        BY <4>2, <4>3
    <3>2. Justified([thread[r] EXCEPT !.pc = "reread"]) /\ "reread" \in Steps
      BY <1>0, <2>1 DEF Justified, Contexts, Steps
    <3> QED
      BY <1>0, <2>1, <2>3, <3>1, <3>2, GoesTo
  <2> QED
    BY <1>4, <2>2, <2>3 DEF BindSecret
<1>5. CASE Reread(r)
  <2>1. KeepWorld /\ UNCHANGED row /\ thread[r].pc = "reread"
    BY <1>5 DEF Reread, At
  <2>2. CASE End(r)
    BY <1>0, <2>1, <2>2, EndsKeeping
  <2>3. CASE /\ Continue(r, [thread[r] EXCEPT !.pc = "row", !.copy = row, !.bound = TRUE])
             /\ UNCHANGED entry
    <3> DEFINE c == [thread[r] EXCEPT !.pc = "row", !.copy = row, !.bound = TRUE]
    <3>1. c \in Contexts /\ c.cancelled = thread[r].cancelled
      BY <1>0 DEF Contexts, Steps
    <3>2. Justified(c)
      BY <1>0, <2>1 DEF Justified, Contexts
    <3>3. Continue(r, c)
      BY <2>3
    <3> HIDE DEF c
    <3> QED
      BY <1>0, <2>1, <2>3, <3>1, <3>2, <3>3, GoesOn
  <2> QED
    BY <1>5, <2>2, <2>3 DEF Reread
<1>6. CASE DeleteSecret(r)
  <2>1. UNCHANGED <<settled, job, row, entry>> /\ thread[r].pc = "delete"
    BY <1>6 DEF DeleteSecret, At
  <2>2. CASE secret' = [secret EXCEPT !.here = FALSE] /\ Goto(r, "complete")
    <3> DEFINE c == [thread[r] EXCEPT !.pc = "complete"]
    <3>1. c \in Contexts /\ c.cancelled = thread[r].cancelled
      BY <1>0 DEF Contexts, Steps
    <3>2. \E last \in {c, Idle} : thread' = [thread EXCEPT ![r] = last]
      BY <2>2 DEF Goto, Continue
    <3>3. c.pc = "complete"
      BY <1>0 DEF Contexts
    <3> HIDE DEF c
    <3>4. /\ settled /\ JobRunning' = JobRunning /\ ~OwnSecret'
          /\ secret'.uid = secret.uid /\ secret'.ours = secret.ours
      BY <1>0, <2>1, <2>2 DEF Justified, JobRunning, Current, OwnSecret
    <3>5. ASSUME NEW u \in Threads PROVE Justified(thread[u])'
      <4>1. CASE u # r
        <5>1. thread'[u] = thread[u] /\ Justified(thread[u])
          BY <1>0, <3>2, <4>1 DEF CleanupInv
        <5> QED
          BY <2>1, <3>4, <5>1 DEF Justified
      <4>2. CASE u = r
        <5>1. CASE thread'[r] = Idle
          BY <4>2, <5>1 DEF Justified, Idle
        <5>2. CASE thread'[r] = c
          <6>1. c.bound = thread[r].bound /\ c.seen = thread[r].seen
            BY <1>0 DEF c, Contexts
          <6> QED
            BY <1>0, <2>1, <3>3, <3>4, <4>2, <5>2, <6>1 DEF Justified
        <5> QED
          BY <1>0, <3>2, <5>1, <5>2
      <4> QED
        BY <4>1, <4>2
    <3>6. CleanupTypeOK'
      <4>1. thread' \in [Threads -> Contexts]
        BY <1>0, <3>1, <3>2, IdleContext
      <4>2. secret' \in [uid : Nat, here : BOOLEAN, ours : BOOLEAN]
        BY <1>0, <2>2
      <4> QED
        BY <2>1, <4>1, <4>2 DEF CleanupInv, CleanupTypeOK
    <3>7. OneCleanup'
      BY <1>0, <2>1, <3>1, <3>2, IdleContext DEF CleanupInv, OneCleanup
    <3>8. CompleteIsFinal'
      BY <2>1, <3>4 DEF CleanupInv, CompleteIsFinal
    <3> QED
      BY <3>5, <3>6, <3>7, <3>8 DEF CleanupInv
  <2>3. CASE UNCHANGED secret /\ Continue(r, [thread[r] EXCEPT !.pc = "row", !.bound = FALSE])
    <3> DEFINE c == [thread[r] EXCEPT !.pc = "row", !.bound = FALSE]
    <3>1. c \in Contexts /\ c.cancelled = thread[r].cancelled
      BY <1>0 DEF Contexts, Steps
    <3>2. Justified(c)
      BY <1>0, <2>1 DEF Justified, Contexts
    <3>3. Continue(r, c) /\ KeepWorld
      BY <2>1, <2>3 DEF KeepWorld
    <3> HIDE DEF c
    <3> QED
      BY <1>0, <2>1, <3>1, <3>2, <3>3, GoesOn
  <2> QED
    BY <1>6, <2>2, <2>3 DEF DeleteSecret
<1>7. CASE CompleteCleanup(r)
  <2>1. KeepWorld /\ End(r) /\ settled /\ ~OwnSecret
    BY <1>0, <1>7 DEF CompleteCleanup, At, Justified
  <2>2. row' \in Rows
    BY <1>0, <1>7 DEF CompleteCleanup, Rows
  <2> QED
    BY <1>0, <2>1, <2>2, EndsKeeping
<1> QED
  BY <1>1, <1>2, <1>3, <1>4, <1>5, <1>6, <1>7 DEF RunNext

(* Every step of every thread, of the rest of the controller and of the     *)
(* cluster keeps the invariant.                                             *)
LEMMA CleanupInvariant == CleanupSpec => []CleanupInv
<1>1. CleanupInit => CleanupInv
  <2> SUFFICES ASSUME CleanupInit PROVE CleanupInv
    OBVIOUS
  <2>1. CleanupTypeOK
    <3>1. NoRow \in Rows
      BY DEF NoRow, Rows
    <3>2. job \in [history : Seq(Versions), watched : Nat, here : BOOLEAN]
          /\ secret \in [uid : Nat, here : BOOLEAN, ours : BOOLEAN]
      BY DEF CleanupInit
    <3> QED
      BY <3>1, <3>2, IdleContext DEF CleanupInit, CleanupTypeOK
  <2>2. (\A t \in Threads : Justified(thread[t])) /\ OneCleanup
    BY IdleContext DEF CleanupInit, OneCleanup, Threads
  <2>3. CompleteIsFinal
    BY DEF CleanupInit, CompleteIsFinal, NoRow
  <2> QED
    BY <2>1, <2>2, <2>3 DEF CleanupInv
<1>2. CleanupInv /\ [CleanupNext]_cleanupVars => CleanupInv'
  <2> SUFFICES ASSUME CleanupInv, [CleanupNext]_cleanupVars PROVE CleanupInv'
    OBVIOUS
  <2>1. CASE Crash
    <3>1. KeepWorld /\ UNCHANGED row /\ entry' = NoRun /\ thread' = [t \in Threads |-> Idle]
      BY <2>1 DEF Crash
    <3>2. (\A u \in Threads : Justified(thread'[u])) /\ OneCleanup'
          /\ thread' \in [Threads -> Contexts]
      BY <3>1, IdleContext DEF OneCleanup, Threads
    <3>3. row' \in Rows
      BY <3>1 DEF CleanupInv, CleanupTypeOK
    <3> QED
      BY <3>1, <3>2, <3>3, WorldKept, ThreadKeeps
  <2>2. CASE UNCHANGED cleanupVars
    <3>1. CleanupTypeOK' /\ WorldStep
      BY <2>2 DEF CleanupInv, CleanupTypeOK, cleanupVars, WorldStep, JobRunning, Current, OwnSecret
    <3>2. CompleteIsFinal' /\ OneCleanup'
      BY <2>2 DEF CleanupInv, CompleteIsFinal, OneCleanup, OwnSecret, cleanupVars
    <3>3. \A u \in Threads : Justified(thread'[u])
      BY <2>2 DEF CleanupInv, cleanupVars
    <3> QED
      BY <3>1, <3>2, <3>3, FindingsLast DEF CleanupInv
  <2> QED
    BY <2>1, <2>2, OutsideKeeps, PassKeeps, SharedKeeps, RunKeeps DEF CleanupNext
<1> QED
  BY <1>1, <1>2, PTL DEF CleanupSpec

(* A cleanup that is recorded as complete has left no Secret of the attempt *)
(* behind (CompleteSecretCleanup).                                          *)
THEOREM CompletedMeansGone == CleanupSpec => []CompleteMeansGone
<1>1. CleanupInv => CompleteMeansGone
  BY DEF CleanupInv, CompleteIsFinal, CompleteMeansGone
<1> QED
  BY <1>1, CleanupInvariant, PTL

(* One goroutine at most cleans up an attempt (startSecretCleanup).         *)
THEOREM OneCleaner == CleanupSpec => []OneCleanup
  BY CleanupInvariant, PTL DEF CleanupInv

(* Cleanup deletes a Secret only if it is the attempt's and no worker needs *)
(* it any more (startSecretCleanup).                                        *)
THEOREM OrphansOnly == CleanupSpec => OnlyOrphansAreDeleted
<1> DEFINE Deletes == secret.here /\ ~secret'.here => settled /\ ~JobRunning /\ secret.ours
<1>1. CleanupInv /\ [CleanupNext]_cleanupVars => [Deletes]_cleanupVars
  <2> SUFFICES ASSUME CleanupInv, CleanupNext, secret' # secret, secret.here, ~secret'.here
               PROVE  settled /\ ~JobRunning /\ secret.ours
    BY DEF cleanupVars
  <2>0. secret \in [uid : Nat, here : BOOLEAN, ours : BOOLEAN]
    BY DEF CleanupInv, CleanupTypeOK
  <2>1. PICK r \in Runs : DeleteSecret(r)
    <3>1. CASE OutsideNext
      BY <2>0, <3>1 DEF OutsideNext, CreateSecret, RegisterSecretCleanup, CreateJob, JobFinishes,
                 JobRemoved, Settle, ReplaceSecret
    <3>2. CASE Crash
      BY <3>2 DEF Crash, KeepWorld
    <3>3. ASSUME NEW t \in Passes, PassNext(t) PROVE FALSE
      BY <3>3 DEF PassNext, BeginPass, Schedule, List, MarkEligible, StartCleanup, KeepWorld
    <3>4. ASSUME NEW t \in Threads, ThreadNext(t) PROVE FALSE
      BY <3>4 DEF ThreadNext, ObserveJob, MarkIneligible, Cancel, Guard, KeepWorld
    <3>5. ASSUME NEW r \in Runs, RunNext(r), ~DeleteSecret(r) PROVE FALSE
      BY <3>5 DEF RunNext, Wake, CheckRow, GetSecret, BindSecret, Reread, CompleteCleanup, KeepWorld
    <3> QED
      BY <3>1, <3>2, <3>3, <3>4, <3>5 DEF CleanupNext
  <2>2. thread[r].pc = "delete" /\ Justified(thread[r])
    BY <2>1 DEF DeleteSecret, At, CleanupInv, Threads
  <2>3. secret.uid = thread[r].seen
    BY <2>1 DEF DeleteSecret
  <2> QED
    BY <2>2, <2>3 DEF Justified
<1> QED
  BY <1>1, CleanupInvariant, PTL DEF CleanupSpec, OnlyOrphansAreDeleted

=============================================================================
