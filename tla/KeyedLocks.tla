----------------------------- MODULE KeyedLocks -----------------------------
(***************************************************************************)
(* internal/controller/locks.go: the lock per task ID that serializes the  *)
(* operations of module Controller.  An entry is created on first use,     *)
(* counts the goroutines that hold or await it, and is dropped from the    *)
(* map with the last of them.  Its token is a channel of capacity one: a   *)
(* full channel is a held lock.                                            *)
(*                                                                         *)
(* A step is one critical section of `mu`, or one channel operation.  An   *)
(* entry no goroutine and no key refers to is garbage; it stands for a     *)
(* freshly allocated one when it is used again.                            *)
(***************************************************************************)
EXTENDS Integers, FiniteSets

CONSTANTS
  Goroutines,
  TaskIDs,
  LockEntries,  \* addresses of keyedLock values
  NoLockEntry

ASSUME LocksAssumption ==
  /\ IsFiniteSet(Goroutines)
  /\ TaskIDs # {}
  /\ NoLockEntry \notin LockEntries

VARIABLES
  locks,  \* keyedLocks.locks: task ID -> its entry
  refs,   \* entry -> goroutines that hold or await it
  token,  \* entry -> is its channel full?
  at,     \* goroutine -> where in lock, its caller or unlock it is
  mine    \* goroutine -> its key and entry

lockVars == <<locks, refs, token, at, mine>>

Outside == [key |-> CHOOSE k \in TaskIDs : TRUE, entry |-> NoLockEntry]

LocksTypeOK ==
  /\ locks \in [TaskIDs -> LockEntries \cup {NoLockEntry}]
  /\ refs \in [LockEntries -> Nat]
  /\ token \in [LockEntries -> BOOLEAN]
  /\ at \in [Goroutines -> {"outside", "waiting", "holding", "releasing"}]
  /\ mine \in [Goroutines -> [key : TaskIDs, entry : LockEntries \cup {NoLockEntry}]]

LocksInit ==
  /\ locks = [k \in TaskIDs |-> NoLockEntry]
  /\ refs = [e \in LockEntries |-> 0]
  /\ token = [e \in LockEntries |-> FALSE]
  /\ at = [g \in Goroutines |-> "outside"]
  /\ mine = [g \in Goroutines |-> Outside]

(* The goroutines that refer to an entry. *)
Users(e) == {g \in Goroutines : at[g] # "outside" /\ mine[g].entry = e}

Garbage(e) == Users(e) = {} /\ \A k \in TaskIDs : locks[k] # e

-----------------------------------------------------------------------------

(* lock, first half: find or create the entry and count oneself. *)
Enter(g, k, e) ==
  /\ at[g] = "outside"
  /\ \/ locks[k] = e /\ refs' = [refs EXCEPT ![e] = @ + 1] /\ UNCHANGED token
     \/ /\ locks[k] = NoLockEntry /\ Garbage(e)
        /\ refs' = [refs EXCEPT ![e] = 1]
        /\ token' = [token EXCEPT ![e] = FALSE]
  /\ locks' = [locks EXCEPT ![k] = e]
  /\ at' = [at EXCEPT ![g] = "waiting"]
  /\ mine' = [mine EXCEPT ![g] = [key |-> k, entry |-> e]]

(* entry.token <- struct{}{} *)
Acquire(g) ==
  /\ at[g] = "waiting" /\ ~token[mine[g].entry]
  /\ token' = [token EXCEPT ![mine[g].entry] = TRUE]
  /\ at' = [at EXCEPT ![g] = "holding"]
  /\ UNCHANGED <<locks, refs, mine>>

(* Mutant: a goroutine whose context expired does not give its count back. *)
ExpireSilently(g) ==
  /\ at[g] = "waiting"
  /\ at' = [at EXCEPT ![g] = "outside"]
  /\ mine' = [mine EXCEPT ![g] = Outside]
  /\ UNCHANGED <<locks, refs, token>>

(* <-ctx.Done() *)
Expire(g) ==
  /\ at[g] = "waiting"
  /\ at' = [at EXCEPT ![g] = "releasing"]
  /\ UNCHANGED <<locks, refs, token, mine>>

(* Mutant: the token stays in the channel. *)
UnlockKeepingToken(g) ==
  /\ at[g] = "holding"
  /\ at' = [at EXCEPT ![g] = "releasing"]
  /\ UNCHANGED <<locks, refs, token, mine>>

(* <-entry.token, which never blocks the holder *)
Unlock(g) ==
  /\ at[g] = "holding" /\ token[mine[g].entry]
  /\ token' = [token EXCEPT ![mine[g].entry] = FALSE]
  /\ at' = [at EXCEPT ![g] = "releasing"]
  /\ UNCHANGED <<locks, refs, mine>>

(* Mutant: the entry is dropped by whoever leaves. *)
ReleaseAlways(g) ==
  /\ at[g] = "releasing"
  /\ refs' = [refs EXCEPT ![mine[g].entry] = @ - 1]
  /\ locks' = [locks EXCEPT ![mine[g].key] = NoLockEntry]
  /\ at' = [at EXCEPT ![g] = "outside"]
  /\ mine' = [mine EXCEPT ![g] = Outside]
  /\ UNCHANGED token

(* release: the last one drops the entry. *)
Release(g) ==
  /\ at[g] = "releasing"
  /\ refs' = [refs EXCEPT ![mine[g].entry] = @ - 1]
  /\ locks' = IF refs[mine[g].entry] = 1
              THEN [locks EXCEPT ![mine[g].key] = NoLockEntry] ELSE locks
  /\ at' = [at EXCEPT ![g] = "outside"]
  /\ mine' = [mine EXCEPT ![g] = Outside]
  /\ UNCHANGED token

LocksNext == \E g \in Goroutines :
  \/ \E k \in TaskIDs, e \in LockEntries : Enter(g, k, e)
  \/ Acquire(g) \/ Expire(g) \/ Unlock(g) \/ Release(g)

LocksSpec == LocksInit /\ [][LocksNext]_lockVars

(* A holder returns: every API call under the lock has a deadline.  A Go    *)
(* channel serves blocked senders in order, so a goroutine that waits for   *)
(* a token freed again and again gets it.                                   *)
LocksFairness == \A g \in Goroutines :
  SF_lockVars(Acquire(g)) /\ WF_lockVars(Unlock(g)) /\ WF_lockVars(Release(g))

FairLocksSpec == LocksSpec /\ LocksFairness

-----------------------------------------------------------------------------

Inside(g) == at[g] = "holding"

(* Two operations never work on one task at a time, although entries are    *)
(* dropped and created again while others wait or give up.                  *)
OneOperationPerTask ==
  \A g, h \in Goroutines :
    Inside(g) /\ Inside(h) /\ mine[g].key = mine[h].key => g = h

(* No leak and no orphan: a task has an entry exactly while some goroutine  *)
(* holds or awaits its lock, and they all refer to that entry.              *)
EntriesAreExact ==
  \A k \in TaskIDs :
    LET users == {g \in Goroutines : at[g] # "outside" /\ mine[g].key = k}
    IN IF users = {} THEN locks[k] = NoLockEntry
       ELSE \A g \in users : mine[g].entry = locks[k]

(* An operation that waits gets the lock or gives up. *)
WaitingEnds == \A g \in Goroutines : at[g] = "waiting" ~> at[g] # "waiting"

=============================================================================
