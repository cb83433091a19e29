------------------------------ MODULE Cluster ------------------------------
(***************************************************************************)
(* The Kubernetes objects of one task as the controller uses them: the Job *)
(* of an attempt, its worker Pod and its task Secret.  Not code of the     *)
(* repository: the API's rules, and the Job spec of                        *)
(* internal/kubernetes/jobs/jobs.go (backoffLimit 0, restartPolicy Never,  *)
(* one Pod per Job, foreground deletion).                                  *)
(*                                                                         *)
(* A Job name is a function of the attempt, so an attempt has at most one  *)
(* Job at a time; a Job deleted and created again is a new generation with *)
(* a new UID.  Generations are numbered 1, 2, ... in creation order.       *)
(***************************************************************************)
EXTENDS Worker

CONSTANTS
  MaxJobs,   \* bound on the Jobs ever created for the task
  MaxLines,  \* bound on the events a worker prints before it dies
  Expiry     \* may a Job be deleted by its TTL or an operator?

ASSUME ClusterAssumption ==
  /\ MaxJobs \in Nat \ {0} /\ MaxLines \in 0..MaxLog /\ Expiry \in BOOLEAN

VARIABLES
  jobs,          \* generation -> attempt, status, deletion timestamp
  pods,          \* generation -> phase and log of its Pod
  secrets        \* attempts whose task Secret exists

clusterVars == <<jobs, pods, secrets>>

Jobs == 1..MaxJobs

JobStatuses == {"none", "pending", "active", "complete", "failed", "gone"}
PodPhases == {"none", "running", "succeeded", "failed", "gone"}
JobRows == [attempt : 0..MaxAttempts, status : JobStatuses, deleting : BOOLEAN]

NoJob == [attempt |-> 0, status |-> "none", deleting |-> FALSE]
NoPod == [phase |-> "none", log |-> <<>>]

ClusterTypeOK ==
  /\ jobs \in [Jobs -> JobRows]
  /\ pods \in [Jobs -> [phase : PodPhases, log : Seq(Events)]]
  /\ \A g \in Jobs : Len(pods[g].log) <= MaxLines
  /\ secrets \subseteq Attempts

ClusterInit ==
  /\ jobs = [g \in Jobs |-> NoJob]
  /\ pods = [g \in Jobs |-> NoPod]
  /\ secrets = {}

(* The Job object an API read of attempt a's name returns, if any. *)
JobOf(a) == {g \in Jobs : jobs[g].attempt = a /\ jobs[g].status # "gone"}

PodPresent(g) == pods[g].phase \in {"running", "succeeded", "failed"}

(* Pods owned by the Job name of attempt a, whatever the UID. *)
PodsOf(a) == {g \in Jobs : jobs[g].attempt = a /\ PodPresent(g)}

JobFinished(status) == status \in {"complete", "failed"}

-----------------------------------------------------------------------------
(* API calls *)

(* Mutant: the Job carries the number of the next attempt. *)
CreateJobNext(a) ==
  /\ JobOf(a) = {}
  /\ \E g \in Jobs : /\ jobs[g] = NoJob
                    /\ jobs' = [jobs EXCEPT ![g] = [attempt |-> a + 1, status |-> "pending",
                                                   deleting |-> FALSE]]

CreateJob(a) ==
  /\ JobOf(a) = {}
  /\ \E g \in Jobs :
       /\ jobs[g] = NoJob /\ \A h \in 1..(g - 1) : jobs[h] # NoJob
       /\ jobs' = [jobs EXCEPT ![g] = [attempt |-> a, status |-> "pending", deleting |-> FALSE]]

DeleteJob(g) == jobs' = [jobs EXCEPT ![g].deleting = TRUE]

-----------------------------------------------------------------------------
(* What happens in the cluster *)

(* The Job controller starts one Pod for a Job that is not being deleted. *)
PodStarts(g) ==
  /\ jobs[g].status = "pending" /\ ~jobs[g].deleting
  /\ jobs' = [jobs EXCEPT ![g].status = "active"]
  /\ pods' = [pods EXCEPT ![g].phase = "running"]
  /\ UNCHANGED secrets

WorkerPrints(g, origin) ==
  /\ pods[g].phase = "running" /\ Len(pods[g].log) < MaxLines
  /\ \E e \in Events :
       /\ MayPrint(pods[g].log, e, origin)
       /\ pods' = [pods EXCEPT ![g].log = Append(@, e)]
  /\ UNCHANGED <<jobs, secrets>>

(* The worker exits, or is killed and counts as failed. *)
WorkerExits(g) ==
  /\ pods[g].phase = "running"
  /\ \E phase \in {"failed"} \cup (IF Succeeded(pods[g].log) THEN {"succeeded"} ELSE {}) :
       pods' = [pods EXCEPT ![g].phase = phase]
  /\ UNCHANGED <<jobs, secrets>>

(* Evicted, collected, or killed with its Job: the Pod and its log are gone. *)
PodRemoved(g) ==
  /\ PodPresent(g)
  /\ pods' = [pods EXCEPT ![g].phase = "gone"]
  /\ UNCHANGED <<jobs, secrets>>

(* backoffLimit 0: the first Pod that does not succeed fails the Job. *)
JobFinishes(g) ==
  /\ jobs[g].status = "active"
  /\ \/ pods[g].phase = "succeeded" /\ jobs' = [jobs EXCEPT ![g].status = "complete"]
     \/ pods[g].phase \in {"failed", "gone"} /\ jobs' = [jobs EXCEPT ![g].status = "failed"]
  /\ UNCHANGED <<pods, secrets>>

(* activeDeadlineSeconds: the Job fails and its Pod is deleted. *)
DeadlinePasses(g) ==
  /\ jobs[g].status \in {"pending", "active"}
  /\ jobs' = [jobs EXCEPT ![g].status = "failed"]
  /\ pods' = [pods EXCEPT ![g].phase = IF PodPresent(g) THEN "gone" ELSE @]
  /\ UNCHANGED secrets

(* ttlSecondsAfterFinished, or an operator. *)
JobExpires(g) ==
  /\ Expiry /\ jobs[g].status \notin {"none", "gone"} /\ ~jobs[g].deleting
  /\ DeleteJob(g)
  /\ UNCHANGED <<pods, secrets>>

(* Foreground deletion: the Job goes after its Pod. *)
JobRemoved(g) ==
  /\ jobs[g].deleting /\ jobs[g].status # "gone" /\ ~PodPresent(g)
  /\ jobs' = [jobs EXCEPT ![g].status = "gone"]
  /\ UNCHANGED <<pods, secrets>>

=============================================================================
