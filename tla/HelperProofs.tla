---------------------------- MODULE HelperProofs ----------------------------
(* The theorems about the two helpers that stand alone: the controller's    *)
(* locks (KeyedLocks), for any finite set of goroutines and any tasks and   *)
(* entries, and the client's tunnel (PortForward), for any Pods, ports and  *)
(* number of faults.                                                        *)
EXTENDS KeyedLocks, PortForward, FiniteSetTheorems, TLAPS

-----------------------------------------------------------------------------
(* KeyedLocks *)

(* The inductive invariant.  Rooted: whoever holds or awaits a lock refers  *)
(* to the entry the map has for its key.  Unshared: two keys never have the *)
(* same entry.  Needed: an entry in the map has a user.  Counted: refs      *)
(* counts the users.  HeldOnce: a holder fills its entry's channel, alone.  *)
Rooted ==
  \A g \in Goroutines : at[g] # "outside" =>
    mine[g].entry \in LockEntries /\ locks[mine[g].key] = mine[g].entry

Unshared ==
  \A k, l \in TaskIDs : locks[k] = locks[l] /\ locks[k] # NoLockEntry => k = l

Needed ==
  \A k \in TaskIDs : locks[k] # NoLockEntry =>
    \E g \in Goroutines : at[g] # "outside" /\ mine[g].key = k

Counted == \A e \in LockEntries : refs[e] = Cardinality(Users(e))

HeldOnce ==
  /\ \A g \in Goroutines : Inside(g) => token[mine[g].entry] = TRUE
  /\ \A g, h \in Goroutines : Inside(g) /\ Inside(h) /\ mine[g].entry = mine[h].entry => g = h

LocksInv == LocksTypeOK /\ Rooted /\ Unshared /\ Needed /\ Counted /\ HeldOnce

-----------------------------------------------------------------------------
(* Facts about users *)

(* The users of an entry are finitely many goroutines. *)
LEMMA UsersFinite ==
  ASSUME NEW e
  PROVE  IsFiniteSet(Users(e)) /\ Cardinality(Users(e)) \in Nat
<1>1. Users(e) \subseteq Goroutines
  BY DEF Users
<1> QED
  BY <1>1, LocksAssumption, FS_Subset, FS_CardinalityType

(* A goroutine that enters is counted. *)
LEMMA UsersEnter ==
  ASSUME LocksTypeOK, NEW g \in Goroutines, NEW e \in LockEntries, NEW k \in TaskIDs,
         at[g] = "outside",
         at' = [at EXCEPT ![g] = "waiting"],
         mine' = [mine EXCEPT ![g] = [key |-> k, entry |-> e]]
  PROVE  /\ Cardinality(Users(e)') = Cardinality(Users(e)) + 1
         /\ \A d \in LockEntries \ {e} : Users(d)' = Users(d)
<1>1. Users(e)' = Users(e) \cup {g}
  BY DEF Users, LocksTypeOK
<1>2. g \notin Users(e)
  BY DEF Users
<1>3. \A d \in LockEntries \ {e} : Users(d)' = Users(d)
  BY DEF Users, LocksTypeOK
<1> QED
  BY <1>1, <1>2, <1>3, UsersFinite, FS_AddElement

(* A goroutine that stays between entering and leaving changes no count. *)
LEMMA UsersStay ==
  ASSUME LocksTypeOK, NEW g \in Goroutines, NEW to,
         at[g] # "outside", to # "outside",
         at' = [at EXCEPT ![g] = to], UNCHANGED mine
  PROVE  \A d \in LockEntries : Users(d)' = Users(d)
BY DEF Users, LocksTypeOK

(* A goroutine that leaves is no longer counted. *)
LEMMA UsersLeave ==
  ASSUME LocksTypeOK, NEW g \in Goroutines, NEW e \in LockEntries,
         at[g] # "outside", mine[g].entry = e,
         at' = [at EXCEPT ![g] = "outside"],
         mine' = [mine EXCEPT ![g] = Outside]
  PROVE  /\ Cardinality(Users(e)') = Cardinality(Users(e)) - 1
         /\ \A d \in LockEntries \ {e} : Users(d)' = Users(d)
<1>1. Users(e)' = Users(e) \ {g}
  BY DEF Users, LocksTypeOK
<1>2. g \in Users(e)
  BY DEF Users
<1>3. \A d \in LockEntries \ {e} : Users(d)' = Users(d)
  BY DEF Users, LocksTypeOK
<1>4. Cardinality(Users(e) \ {g}) = Cardinality(Users(e)) - 1
  BY <1>2, UsersFinite, FS_RemoveElement
<1> QED
  BY <1>1, <1>3, <1>4

(* The last user of an entry is alone. *)
LEMMA LastUser ==
  ASSUME NEW e, NEW g \in Users(e), Cardinality(Users(e)) = 1
  PROVE  Users(e) = {g}
<1>1. PICK x : Users(e) = {x}
  BY UsersFinite, FS_Singleton
<1> QED
  BY <1>1

-----------------------------------------------------------------------------
(* The initial states *)

(* An empty map is consistent. *)
LEMMA InitInv == LocksInit => LocksInv
<1> SUFFICES ASSUME LocksInit PROVE LocksInv
  OBVIOUS
<1>1. Outside \in [key : TaskIDs, entry : LockEntries \cup {NoLockEntry}]
  BY LocksAssumption DEF Outside
<1>2. LocksTypeOK
  BY <1>1 DEF LocksInit, LocksTypeOK
<1>3. Rooted /\ Unshared /\ Needed /\ HeldOnce
  BY DEF LocksInit, Rooted, Unshared, Needed, HeldOnce, Inside
<1>4. \A e \in LockEntries : Users(e) = {}
  BY DEF LocksInit, Users
<1>5. Counted
  BY <1>4, FS_EmptySet DEF LocksInit, Counted
<1> QED
  BY <1>2, <1>3, <1>5 DEF LocksInv

-----------------------------------------------------------------------------
(* One lemma per action *)

(* lock, first half: a new entry was garbage, a shared one has the key.    *)
LEMMA EnterInv ==
  ASSUME LocksInv, NEW g \in Goroutines, NEW k \in TaskIDs, NEW e \in LockEntries,
         Enter(g, k, e)
  PROVE  LocksInv'
<1> USE DEF LocksInv
<1> DEFINE self == [key |-> k, entry |-> e]
<1>1. /\ at[g] = "outside"
      /\ at' = [at EXCEPT ![g] = "waiting"]
      /\ mine' = [mine EXCEPT ![g] = self]
      /\ locks' = [locks EXCEPT ![k] = e]
  BY DEF Enter
<1>2. /\ Cardinality(Users(e)') = Cardinality(Users(e)) + 1
      /\ \A d \in LockEntries \ {e} : Users(d)' = Users(d)
  BY <1>1, UsersEnter
<1>3. e # NoLockEntry
  BY LocksAssumption
<1>4. LocksTypeOK'
  <2>1. refs' \in [LockEntries -> Nat]
    <3>1. CASE refs' = [refs EXCEPT ![e] = @ + 1]
      BY <3>1 DEF LocksTypeOK
    <3>2. CASE refs' = [refs EXCEPT ![e] = 1]
      BY <3>2 DEF LocksTypeOK
    <3> QED
      BY <3>1, <3>2 DEF Enter
  <2>2. token' \in [LockEntries -> BOOLEAN]
    BY DEF Enter, LocksTypeOK
  <2>3. self \in [key : TaskIDs, entry : LockEntries \cup {NoLockEntry}]
    OBVIOUS
  <2>4. mine' \in [Goroutines -> [key : TaskIDs, entry : LockEntries \cup {NoLockEntry}]]
    <3> HIDE DEF self
    <3> QED
      BY <2>3, <1>1 DEF LocksTypeOK
  <2> QED
    BY <2>1, <2>2, <2>4, <1>1 DEF LocksTypeOK
<1>5. /\ at'[g] = "waiting" /\ mine'[g] = self
      /\ \A h \in Goroutines \ {g} : at'[h] = at[h] /\ mine'[h] = mine[h]
      /\ locks'[k] = e /\ \A l \in TaskIDs \ {k} : locks'[l] = locks[l]
  BY <1>1 DEF LocksTypeOK
<1>6. locks[k] = e \/ (locks[k] = NoLockEntry /\ Garbage(e))
  BY DEF Enter
<1>7. Rooted'
  <2> SUFFICES ASSUME NEW h \in Goroutines, at'[h] # "outside"
               PROVE  mine'[h].entry \in LockEntries /\ locks'[mine'[h].key] = mine'[h].entry
    BY DEF Rooted
  <2>1. CASE h = g
    BY <2>1, <1>5
  <2>2. CASE h # g
    <3>1. mine[h].entry \in LockEntries /\ locks[mine[h].key] = mine[h].entry
      BY <2>2, <1>5 DEF Rooted
    <3>2. mine[h].key \in TaskIDs
      BY DEF LocksTypeOK
    <3>3. mine[h].entry # NoLockEntry
      BY <3>1, LocksAssumption
    <3>4. locks'[mine[h].key] = mine[h].entry
      BY <3>1, <3>2, <3>3, <1>5, <1>6
    <3> QED
      BY <3>1, <3>4, <2>2, <1>5
  <2> QED
    BY <2>1, <2>2
<1>8. Unshared'
  BY <1>5, <1>6 DEF Unshared, Garbage
<1>9. Needed'
  <2> SUFFICES ASSUME NEW l \in TaskIDs, locks'[l] # NoLockEntry
               PROVE  \E h \in Goroutines : at'[h] # "outside" /\ mine'[h].key = l
    BY DEF Needed
  <2>1. CASE l = k
    BY <2>1, <1>5
  <2>2. CASE l # k
    <3>1. PICK h \in Goroutines : at[h] # "outside" /\ mine[h].key = l
      BY <2>2, <1>5 DEF Needed
    <3> QED
      BY <3>1, <1>1, <1>5
  <2> QED
    BY <2>1, <2>2
<1>10. Counted'
  <2>1. \A d \in LockEntries \ {e} : refs'[d] = refs[d]
    BY DEF Enter, LocksTypeOK
  <2>2. refs'[e] = Cardinality(Users(e)) + 1
    <3>1. CASE refs' = [refs EXCEPT ![e] = @ + 1]
      BY <3>1 DEF Counted, LocksTypeOK
    <3>2. CASE Garbage(e) /\ refs' = [refs EXCEPT ![e] = 1]
      BY <3>2, FS_EmptySet DEF Garbage, LocksTypeOK
    <3> QED
      BY <3>1, <3>2 DEF Enter
  <2> QED
    BY <2>1, <2>2, <1>2 DEF Counted
<1>11. HeldOnce'
  <2>1. \A h \in Goroutines : Inside(h)' => h # g /\ Inside(h)
    BY <1>5 DEF Inside
  <2>2. \A h \in Goroutines : Inside(h)' => token'[mine[h].entry] = TRUE
    <3> SUFFICES ASSUME NEW h \in Goroutines, Inside(h)
                 PROVE  token'[mine[h].entry] = TRUE
      BY <2>1
    <3>1. token[mine[h].entry] = TRUE /\ mine[h].entry \in LockEntries
      BY DEF HeldOnce, Rooted, Inside
    <3>2. CASE UNCHANGED token
      BY <3>1, <3>2
    <3>3. CASE Garbage(e) /\ token' = [token EXCEPT ![e] = FALSE]
      <4>1. mine[h].entry # e
        BY <3>3 DEF Garbage, Users, Inside
      <4> QED
        BY <4>1, <3>1, <3>3 DEF LocksTypeOK
    <3> QED
      BY <3>2, <3>3 DEF Enter
  <2> QED
    BY <2>1, <2>2, <1>5 DEF HeldOnce
<1> QED
  BY <1>4, <1>7, <1>8, <1>9, <1>10, <1>11

(* What a step of a goroutine that stays a user leaves alone. *)
LEMMA StayInv ==
  ASSUME LocksInv, NEW g \in Goroutines, NEW to \in {"waiting", "holding", "releasing"},
         at[g] # "outside", at' = [at EXCEPT ![g] = to],
         token' \in [LockEntries -> BOOLEAN], UNCHANGED <<locks, refs, mine>>
  PROVE  LocksTypeOK' /\ Rooted' /\ Unshared' /\ Needed' /\ Counted'
<1> USE DEF LocksInv
<1>1. \A d \in LockEntries : Users(d)' = Users(d)
  BY UsersStay
<1>2. LocksTypeOK'
  BY DEF LocksTypeOK
<1>3. \A h \in Goroutines : at'[h] # "outside" <=> at[h] # "outside"
  BY DEF LocksTypeOK
<1>4. Rooted' /\ Unshared' /\ Needed'
  BY <1>3 DEF Rooted, Unshared, Needed
<1>5. Counted'
  BY <1>1 DEF Counted
<1> QED
  BY <1>2, <1>4, <1>5

(* The channel was empty, so nobody held the entry. *)
LEMMA AcquireInv ==
  ASSUME LocksInv, NEW g \in Goroutines, Acquire(g)
  PROVE  LocksInv'
<1> USE DEF LocksInv
<1> DEFINE e == mine[g].entry
<1>1. /\ at[g] = "waiting" /\ token[e] # TRUE /\ e \in LockEntries
      /\ at' = [at EXCEPT ![g] = "holding"]
      /\ token' = [token EXCEPT ![e] = TRUE]
      /\ UNCHANGED <<locks, refs, mine>>
  BY DEF Acquire, Rooted, LocksTypeOK
<1>2. token' \in [LockEntries -> BOOLEAN]
  BY <1>1 DEF LocksTypeOK
<1>3. LocksTypeOK' /\ Rooted' /\ Unshared' /\ Needed' /\ Counted'
  BY <1>1, <1>2, StayInv
<1>4. \A h \in Goroutines \ {g} : Inside(h)' => Inside(h) /\ mine[h].entry # e
  BY <1>1 DEF Inside, HeldOnce, LocksTypeOK
<1>5. \A h \in Goroutines : Inside(h)' => mine[h].entry \in LockEntries
  BY <1>1, <1>4 DEF Inside, Rooted
<1>6. HeldOnce'
  BY <1>1, <1>4, <1>5 DEF HeldOnce, LocksTypeOK
<1> QED
  BY <1>3, <1>6

(* A waiter that gives up stays counted until it releases. *)
LEMMA ExpireInv ==
  ASSUME LocksInv, NEW g \in Goroutines, Expire(g)
  PROVE  LocksInv'
<1> USE DEF LocksInv
<1>1. /\ at[g] = "waiting" /\ at' = [at EXCEPT ![g] = "releasing"]
      /\ UNCHANGED <<locks, refs, token, mine>>
  BY DEF Expire
<1>2. LocksTypeOK' /\ Rooted' /\ Unshared' /\ Needed' /\ Counted'
  BY <1>1, StayInv DEF LocksTypeOK
<1>3. HeldOnce'
  BY <1>1 DEF HeldOnce, Inside, LocksTypeOK
<1> QED
  BY <1>2, <1>3

(* The only holder empties the channel. *)
LEMMA UnlockInv ==
  ASSUME LocksInv, NEW g \in Goroutines, Unlock(g)
  PROVE  LocksInv'
<1> USE DEF LocksInv
<1> DEFINE e == mine[g].entry
<1>1. /\ Inside(g) /\ at[g] = "holding" /\ e \in LockEntries
      /\ at' = [at EXCEPT ![g] = "releasing"]
      /\ token' = [token EXCEPT ![e] = FALSE]
      /\ UNCHANGED <<locks, refs, mine>>
  BY DEF Unlock, Rooted, Inside
<1>2. token' \in [LockEntries -> BOOLEAN]
  BY <1>1 DEF LocksTypeOK
<1>3. LocksTypeOK' /\ Rooted' /\ Unshared' /\ Needed' /\ Counted'
  BY <1>1, <1>2, StayInv
<1>4. \A h \in Goroutines : Inside(h)' => h # g /\ Inside(h)
  BY <1>1 DEF Inside, LocksTypeOK
<1>5. \A h \in Goroutines : Inside(h)' => mine[h].entry # e /\ mine[h].entry \in LockEntries
  BY <1>1, <1>4 DEF HeldOnce, Rooted, Inside
<1>6. HeldOnce'
  BY <1>1, <1>4, <1>5 DEF HeldOnce, LocksTypeOK
<1> QED
  BY <1>3, <1>6

(* release: the entry goes with its last user, and only then. *)
LEMMA ReleaseInv ==
  ASSUME LocksInv, NEW g \in Goroutines, Release(g)
  PROVE  LocksInv'
<1> USE DEF LocksInv
<1>0. PICK e \in LockEntries, k \in TaskIDs :
        mine[g].entry = e /\ mine[g].key = k /\ locks[k] = e
  BY DEF Release, Rooted, LocksTypeOK
<1>1. /\ at[g] = "releasing" /\ mine[g].entry = e /\ mine[g].key = k /\ locks[k] = e
      /\ at' = [at EXCEPT ![g] = "outside"]
      /\ mine' = [mine EXCEPT ![g] = Outside]
      /\ UNCHANGED token
  BY <1>0 DEF Release
<1>2. /\ Cardinality(Users(e)') = Cardinality(Users(e)) - 1
      /\ \A d \in LockEntries \ {e} : Users(d)' = Users(d)
  BY <1>1, UsersLeave
<1>3. /\ at'[g] = "outside"
      /\ \A h \in Goroutines \ {g} : at'[h] = at[h] /\ mine'[h] = mine[h]
      /\ \A l \in TaskIDs \ {k} : locks'[l] = locks[l]
  BY <1>1 DEF Release, LocksTypeOK
<1>4. refs[e] = Cardinality(Users(e)) /\ g \in Users(e)
  BY <1>1 DEF Counted, Users
<1>5. /\ refs'[e] = Cardinality(Users(e)')
      /\ refs' \in [LockEntries -> Int]
      /\ \A d \in LockEntries \ {e} : refs'[d] = refs[d]
  BY <1>1, <1>2, <1>4 DEF Release, LocksTypeOK
<1>6. Counted'
  <2>1. \A d \in LockEntries \ {e} : refs'[d] = Cardinality(Users(d)')
    BY <1>2, <1>5 DEF Counted
  <2> QED
    BY <2>1, <1>5 DEF Counted
<1>7. LocksTypeOK'
  <2>1. \A d \in LockEntries : Cardinality(Users(d)') \in Nat
    <3> SUFFICES ASSUME NEW d \in LockEntries PROVE Cardinality(Users(d)') \in Nat
      OBVIOUS
    <3>1. Users(d)' \subseteq Goroutines
      BY DEF Users
    <3> QED
      BY <3>1, LocksAssumption, FS_Subset, FS_CardinalityType
  <2>2. refs' \in [LockEntries -> Nat]
    BY <2>1, <1>5, <1>6 DEF Counted
  <2>3. Outside \in [key : TaskIDs, entry : LockEntries \cup {NoLockEntry}]
    BY LocksAssumption DEF Outside
  <2> QED
    BY <2>2, <2>3, <1>1 DEF Release, LocksTypeOK
<1>8. \A h \in Goroutines \ {g} : at[h] # "outside" /\ mine[h].key = k => h \in Users(e)
  BY <1>1 DEF Rooted, Users
<1>9. \/ Users(e) = {g} /\ locks'[k] = NoLockEntry
      \/ Users(e) # {g} /\ locks'[k] = e
  <2>1. CASE refs[e] = 1
    BY <2>1, <1>1, <1>4, LastUser DEF Release, LocksTypeOK
  <2>2. CASE refs[e] # 1
    <3>1. Users(e) # {g}
      BY <2>2, <1>4, FS_Singleton
    <3> QED
      BY <3>1, <2>2, <1>1 DEF Release
  <2> QED
    BY <2>1, <2>2
<1>10. Rooted'
  <2> SUFFICES ASSUME NEW h \in Goroutines, at'[h] # "outside"
               PROVE  mine'[h].entry \in LockEntries /\ locks'[mine'[h].key] = mine'[h].entry
    BY DEF Rooted
  <2>1. /\ h # g /\ at[h] # "outside" /\ mine'[h] = mine[h] /\ mine[h].key \in TaskIDs
        /\ mine[h].entry \in LockEntries /\ locks[mine[h].key] = mine[h].entry
    BY <1>3 DEF Rooted, LocksTypeOK
  <2>2. CASE mine[h].key = k
    BY <2>1, <2>2, <1>1, <1>8, <1>9
  <2>3. CASE mine[h].key # k
    BY <2>1, <2>3, <1>3
  <2> QED
    BY <2>2, <2>3
<1>11. Unshared'
  BY <1>1, <1>3, <1>9 DEF Unshared
<1>12. Needed'
  <2> SUFFICES ASSUME NEW l \in TaskIDs, locks'[l] # NoLockEntry
               PROVE  \E h \in Goroutines : at'[h] # "outside" /\ mine'[h].key = l
    BY DEF Needed
  <2>1. CASE l = k
    <3>1. Users(e) # {g}
      BY <2>1, <1>9
    <3>2. PICK h \in Users(e) : h # g
      BY <3>1, <1>4
    <3>3. h \in Goroutines /\ at[h] # "outside" /\ mine[h].entry = e
      BY <3>2 DEF Users
    <3>4. mine[h].key \in TaskIDs /\ locks[mine[h].key] = e
      BY <3>3 DEF Rooted, LocksTypeOK
    <3>5. mine[h].key = k
      BY <3>4, <1>1, LocksAssumption DEF Unshared
    <3> QED
      BY <2>1, <3>2, <3>3, <3>5, <1>3
  <2>2. CASE l # k
    <3>1. PICK h \in Goroutines : at[h] # "outside" /\ mine[h].key = l
      BY <2>2, <1>3 DEF Needed
    <3>2. h # g
      BY <2>2, <3>1, <1>1
    <3> QED
      BY <3>1, <3>2, <1>3
  <2> QED
    BY <2>1, <2>2
<1>13. HeldOnce'
  BY <1>1, <1>3 DEF HeldOnce, Inside
<1> QED
  BY <1>6, <1>7, <1>10, <1>11, <1>12, <1>13

-----------------------------------------------------------------------------
(* The theorems *)

(* Every step of the specification keeps the invariant. *)
LEMMA NextInv == LocksInv /\ [LocksNext]_lockVars => LocksInv'
<1> SUFFICES ASSUME LocksInv, [LocksNext]_lockVars PROVE LocksInv'
  OBVIOUS
<1>1. ASSUME NEW g \in Goroutines, NEW k \in TaskIDs, NEW e \in LockEntries, Enter(g, k, e)
      PROVE  LocksInv'
  BY <1>1, EnterInv
<1>2. ASSUME NEW g \in Goroutines, Acquire(g) PROVE LocksInv'
  BY <1>2, AcquireInv
<1>3. ASSUME NEW g \in Goroutines, Expire(g) PROVE LocksInv'
  BY <1>3, ExpireInv
<1>4. ASSUME NEW g \in Goroutines, Unlock(g) PROVE LocksInv'
  BY <1>4, UnlockInv
<1>5. ASSUME NEW g \in Goroutines, Release(g) PROVE LocksInv'
  BY <1>5, ReleaseInv
<1>6. CASE UNCHANGED lockVars
  <2>1. \A e \in LockEntries : Users(e)' = Users(e)
    BY <1>6 DEF lockVars, Users
  <2> QED
    BY <1>6, <2>1 DEF lockVars, LocksInv, LocksTypeOK, Rooted, Unshared, Needed, Counted,
                      HeldOnce, Inside
<1> QED
  BY <1>1, <1>2, <1>3, <1>4, <1>5, <1>6 DEF LocksNext

(* The inductive invariant holds of every behaviour of locks.go. *)
THEOREM LocksInvariant == LocksSpec => []LocksInv
BY InitInv, NextInv, PTL DEF LocksSpec

(* Reference counts never go negative and every goroutine's entry is one of *)
(* the map's (keyedLocks.lock and release).                                 *)
THEOREM LocksTypeCorrect == LocksSpec => []LocksTypeOK
<1>1. LocksInv => LocksTypeOK
  BY DEF LocksInv
<1> QED
  BY <1>1, LocksInvariant, PTL

(* At most one operation holds a task's lock: two holders with one key have *)
(* the entry of that key, and an entry has one holder.                      *)
THEOREM MutualExclusion == LocksSpec => []OneOperationPerTask
<1>1. LocksInv => OneOperationPerTask
  BY DEF LocksInv, OneOperationPerTask, Rooted, HeldOnce, Inside
<1> QED
  BY <1>1, LocksInvariant, PTL

(* A task has an entry exactly while a goroutine holds or awaits its lock,  *)
(* and all of them share it (release drops it with the last).               *)
THEOREM NoLeakNoOrphan == LocksSpec => []EntriesAreExact
<1>1. LocksInv => EntriesAreExact
  BY DEF LocksInv, EntriesAreExact, Rooted, Needed
<1> QED
  BY <1>1, LocksInvariant, PTL

-----------------------------------------------------------------------------
(* PortForward *)

LoopSteps == {"resolve", "ready", "abandon", "discard", "abandoned", "discarded",
              "wait", "backoff", "done", "failed"}

Tunnels ==
  [fwd : {"none", "dialing", "bound", "ended"}, pod : Pods \cup {0}, bound : Ports \cup {0},
   broken : BOOLEAN, cancelled : BOOLEAN, once : BOOLEAN, stopping : BOOLEAN,
   finished : BOOLEAN, done : BOOLEAN, waitErr : BOOLEAN,
   observer : {"select", "mark", "mark and stop", "stop", "done"}, port : Ports \cup {0},
   err : BOOLEAN, ready : BOOLEAN, readyErr : BOOLEAN, localPort : Ports \cup {0}]

TunnelOK == tunnel \in Tunnels /\ eligible \subseteq Pods

(* A tunnel that is asked to stop is a tunnel (requestStop).                *)
LEMMA RequestStopType == ASSUME NEW t \in Tunnels PROVE RequestStop(t) \in Tunnels
<1>1. [t EXCEPT !.once = TRUE] \in Tunnels
  BY DEF Tunnels
<1>2. [t EXCEPT !.once = TRUE, !.stopping = TRUE, !.cancelled = TRUE] \in Tunnels
  BY DEF Tunnels
<1> QED
  BY <1>1, <1>2 DEF RequestStop

(* A tunnel has a place in its run, flags, an observer and ports.           *)
LEMMA TunnelFields ==
  ASSUME NEW t \in Tunnels
  PROVE  /\ t.broken \in BOOLEAN /\ t.stopping \in BOOLEAN /\ t.waitErr \in BOOLEAN
         /\ t.err \in BOOLEAN /\ t.finished \in BOOLEAN
         /\ t.port \in Ports \cup {0} /\ t.bound \in Ports \cup {0}
BY DEF Tunnels

LoopOK == loop \in [pc : LoopSteps, port : Ports \cup {0}]

(* done is closed after ForwardPorts has returned. *)
DoneMeansEnded ==
  /\ tunnel.done => tunnel.finished
  /\ tunnel.finished => tunnel.fwd = "ended"

(* A listener is bound once, to the port kept so far. *)
BoundOnce ==
  tunnel.bound # 0 => tunnel.fwd # "dialing" /\ loop.port \in {0, tunnel.bound}

(* The observer's way to readiness: it reports once, and what it reports    *)
(* without an error is the port of the listener.                            *)
ReadyOnce ==
  /\ tunnel.observer = "mark" /\ ~tunnel.err => tunnel.port = tunnel.bound /\ tunnel.bound # 0
  /\ tunnel.observer = "mark and stop" => tunnel.err
  /\ tunnel.ready <=> tunnel.observer \in {"stop", "done"}
  /\ tunnel.ready /\ ~tunnel.readyErr => tunnel.localPort = tunnel.bound /\ tunnel.bound # 0

(* run waits for a tunnel that is ready at the port it keeps. *)
InUse == At("wait") => tunnel.ready /\ tunnel.localPort = loop.port /\ loop.port \in Ports

ForwardInv ==
  /\ TunnelOK /\ LoopOK /\ DoneMeansEnded /\ BoundOnce /\ ReadyOnce /\ InUse
  /\ NothingLeaks

(* Every step of the loop, of a tunnel's goroutines, of the owner and of the *)
(* cluster keeps the invariant (PortForward.run, portForwardTunnel).         *)
LEMMA ForwardInvariant == ForwardSpec => []ForwardInv
<1>1. ForwardInit => ForwardInv
  <2>1. ForwardInit => TunnelOK
    BY DEF ForwardInit, NoTunnel, Tunnels, TunnelOK
  <2>2. ForwardInit => LoopOK
    BY DEF ForwardInit, LoopOK, LoopSteps
  <2>3. ForwardInit => DoneMeansEnded
    BY DEF ForwardInit, NoTunnel, DoneMeansEnded
  <2>4. ForwardInit => BoundOnce
    BY DEF ForwardInit, NoTunnel, BoundOnce
  <2>5. ForwardInit => ReadyOnce
    BY DEF ForwardInit, NoTunnel, ReadyOnce
  <2>6. ForwardInit => InUse
    BY DEF ForwardInit, InUse, At
  <2>7. ForwardInit => NothingLeaks
    BY DEF ForwardInit, NoTunnel, NothingLeaks, Alive
  <2> QED
    BY <2>1, <2>2, <2>3, <2>4, <2>5, <2>6, <2>7 DEF ForwardInv
<1>2. ForwardInv /\ [ForwardNext]_forwardVars => ForwardInv'
  <2> SUFFICES ASSUME ForwardInv, [ForwardNext]_forwardVars PROVE ForwardInv'
    OBVIOUS
  <2>0. TunnelOK /\ LoopOK /\ DoneMeansEnded /\ BoundOnce /\ ReadyOnce /\ InUse /\ NothingLeaks
    BY DEF ForwardInv
  <2>1. ASSUME NEW port \in Ports, Bind(port) PROVE ForwardInv'
    <3>1. TunnelOK'
      BY <2>0, <2>1 DEF Bind, TunnelOK, Tunnels
    <3>2. LoopOK'
      BY <2>0, <2>1 DEF Bind, LoopOK, LoopSteps
    <3>3. DoneMeansEnded'
      BY <2>0, <2>1 DEF Bind, DoneMeansEnded
    <3>4. BoundOnce'
      BY <2>1 DEF Bind, BoundOnce
    <3>5. ReadyOnce'
      BY <2>0, <2>1 DEF Bind, TunnelOK, Tunnels, ReadyOnce, BoundOnce
    <3>6. InUse'
      BY <2>0, <2>1 DEF Bind, At, TunnelOK, Tunnels, InUse
    <3>7. NothingLeaks'
      BY <2>0, <2>1 DEF Bind, Alive, NothingLeaks
    <3> QED
      BY <3>1, <3>2, <3>3, <3>4, <3>5, <3>6, <3>7 DEF ForwardInv
  <2>2. CASE ForwardReturns
    <3>1. TunnelOK'
      BY <2>0, <2>2 DEF ForwardReturns, TunnelOK, Tunnels
    <3>2. LoopOK'
      BY <2>0, <2>2 DEF ForwardReturns, LoopOK, LoopSteps
    <3>3. DoneMeansEnded'
      BY <2>0, <2>2 DEF ForwardReturns, TunnelOK, Tunnels, DoneMeansEnded
    <3>4. BoundOnce'
      BY <2>0, <2>2 DEF ForwardReturns, TunnelOK, Tunnels, BoundOnce
    <3>5. ReadyOnce'
      BY <2>0, <2>2 DEF ForwardReturns, TunnelOK, Tunnels, ReadyOnce
    <3>6. InUse'
      BY <2>0, <2>2 DEF ForwardReturns, At, TunnelOK, Tunnels, InUse
    <3>7. NothingLeaks'
      BY <2>0, <2>2 DEF ForwardReturns, NothingLeaks
    <3> QED
      BY <3>1, <3>2, <3>3, <3>4, <3>5, <3>6, <3>7 DEF ForwardInv
  <2>3. CASE Finish
    <3>1. TunnelOK'
      <4>1. PICK e \in BOOLEAN : tunnel' = [tunnel EXCEPT !.finished = TRUE, !.waitErr = e]
        BY <2>0, <2>3, TunnelFields DEF Finish, TunnelOK
      <4>2. tunnel' \in Tunnels
        BY <2>0, <4>1 DEF TunnelOK, Tunnels
      <4> QED
        BY <2>0, <2>3, <4>2 DEF Finish, TunnelOK
    <3>2. LoopOK'
      BY <2>0, <2>3 DEF Finish, LoopOK, LoopSteps
    <3>3. DoneMeansEnded'
      BY <2>3 DEF Finish, DoneMeansEnded
    <3>4. BoundOnce'
      BY <2>0, <2>3 DEF Finish, BoundOnce
    <3>5. ReadyOnce'
      BY <2>0, <2>3 DEF Finish, TunnelOK, Tunnels, ReadyOnce
    <3>6. InUse'
      BY <2>0, <2>3 DEF Finish, At, TunnelOK, Tunnels, InUse
    <3>7. NothingLeaks'
      BY <2>3 DEF Finish, Alive, NothingLeaks
    <3> QED
      BY <3>1, <3>2, <3>3, <3>4, <3>5, <3>6, <3>7 DEF ForwardInv
  <2>4. CASE CloseDone
    <3>1. TunnelOK'
      BY <2>0, <2>4 DEF CloseDone, TunnelOK, Tunnels
    <3>2. LoopOK'
      BY <2>0, <2>4 DEF CloseDone, LoopOK, LoopSteps
    <3>3. DoneMeansEnded'
      BY <2>0, <2>4 DEF CloseDone, DoneMeansEnded
    <3>4. BoundOnce'
      BY <2>0, <2>4 DEF CloseDone, BoundOnce
    <3>5. ReadyOnce'
      BY <2>0, <2>4 DEF CloseDone, TunnelOK, Tunnels, ReadyOnce
    <3>6. InUse'
      BY <2>0, <2>4 DEF CloseDone, At, TunnelOK, Tunnels, InUse
    <3>7. NothingLeaks'
      BY <2>0, <2>4 DEF CloseDone, Alive, NothingLeaks
    <3> QED
      BY <3>1, <3>2, <3>3, <3>4, <3>5, <3>6, <3>7 DEF ForwardInv
  <2>5. CASE ObserveBound
    <3>1. TunnelOK'
      BY <2>0, <2>5 DEF ObserveBound, TunnelOK, Tunnels
    <3>2. LoopOK'
      BY <2>0, <2>5 DEF ObserveBound, LoopOK, LoopSteps
    <3>3. DoneMeansEnded'
      BY <2>0, <2>5 DEF ObserveBound, TunnelOK, Tunnels, DoneMeansEnded
    <3>4. BoundOnce'
      BY <2>0, <2>5 DEF ObserveBound, TunnelOK, Tunnels, BoundOnce
    <3>5. ReadyOnce'
      BY <2>0, <2>5 DEF ObserveBound, TunnelOK, Tunnels, ReadyOnce
    <3>6. InUse'
      BY <2>0, <2>5 DEF ObserveBound, At, InUse, ReadyOnce
    <3>7. NothingLeaks'
      BY <2>0, <2>5 DEF ObserveBound, Alive, TunnelOK, Tunnels, NothingLeaks
    <3> QED
      BY <3>1, <3>2, <3>3, <3>4, <3>5, <3>6, <3>7 DEF ForwardInv
  <2>6. CASE ObserveDone
    <3>1. TunnelOK'
      BY <2>0, <2>6 DEF ObserveDone, TunnelOK, Tunnels
    <3>2. LoopOK'
      BY <2>0, <2>6 DEF ObserveDone, LoopOK, LoopSteps
    <3>3. DoneMeansEnded'
      BY <2>0, <2>6 DEF ObserveDone, DoneMeansEnded
    <3>4. BoundOnce'
      BY <2>0, <2>6 DEF ObserveDone, BoundOnce
    <3>5. ReadyOnce'
      BY <2>0, <2>6 DEF ObserveDone, ReadyOnce
    <3>6. InUse'
      BY <2>0, <2>6 DEF ObserveDone, At, InUse
    <3>7. NothingLeaks'
      BY <2>0, <2>6 DEF ObserveDone, Alive, NothingLeaks
    <3> QED
      BY <3>1, <3>2, <3>3, <3>4, <3>5, <3>6, <3>7 DEF ForwardInv
  <2>7. CASE MarkReady
    <3>1. TunnelOK'
      <4>1. PICK e \in BOOLEAN, port \in Ports \cup {0}, where \in {"done", "stop"} :
              tunnel' = [tunnel EXCEPT !.ready = TRUE, !.readyErr = e,
                                       !.localPort = port, !.observer = where]
        <5>1. \E late \in BOOLEAN, where \in {"done", "stop"} :
                tunnel' = [tunnel EXCEPT !.ready = TRUE, !.readyErr = tunnel.err \/ late,
                                         !.localPort = IF late THEN 0 ELSE tunnel.port,
                                         !.observer = where]
          BY <2>7 DEF MarkReady
        <5> QED
          BY <2>0, <5>1, TunnelFields DEF TunnelOK
      <4>2. tunnel' \in Tunnels
        BY <2>0, <4>1 DEF TunnelOK, Tunnels
      <4> QED
        BY <2>0, <2>7, <4>2 DEF MarkReady, TunnelOK
    <3>2. LoopOK'
      BY <2>0, <2>7 DEF MarkReady, LoopOK, LoopSteps
    <3>3. DoneMeansEnded'
      BY <2>0, <2>7 DEF MarkReady, TunnelOK, Tunnels, DoneMeansEnded
    <3>4. BoundOnce'
      BY <2>0, <2>7 DEF MarkReady, TunnelOK, Tunnels, BoundOnce
    <3>5. ReadyOnce'
      BY <2>0, <2>7 DEF MarkReady, TunnelOK, Tunnels, ReadyOnce
    <3>6. InUse'
      BY <2>0, <2>7 DEF MarkReady, At, InUse, ReadyOnce
    <3>7. NothingLeaks'
      BY <2>0, <2>7 DEF MarkReady, Alive, TunnelOK, Tunnels, NothingLeaks
    <3> QED
      BY <3>1, <3>2, <3>3, <3>4, <3>5, <3>6, <3>7 DEF ForwardInv
  <2>8. CASE StopUnread
    <3>1. TunnelOK'
      <4> DEFINE t == RequestStop(tunnel)
      <4>1. t \in Tunnels
        BY <2>0, RequestStopType DEF TunnelOK
      <4>2. tunnel' = [t EXCEPT !.observer = "done"] /\ eligible' = eligible
        BY <2>8 DEF StopUnread
      <4> HIDE DEF t
      <4>3. tunnel' \in Tunnels
        BY <4>1, <4>2 DEF Tunnels
      <4> QED
        BY <2>0, <4>2, <4>3 DEF TunnelOK
    <3>2. LoopOK'
      BY <2>0, <2>8 DEF StopUnread, LoopOK, LoopSteps
    <3>3. DoneMeansEnded'
      BY <2>0, <2>8 DEF StopUnread, RequestStop, DoneMeansEnded
    <3>4. BoundOnce'
      BY <2>0, <2>8 DEF StopUnread, RequestStop, BoundOnce
    <3>5. ReadyOnce'
      BY <2>0, <2>8 DEF StopUnread, RequestStop, ReadyOnce
    <3>6. InUse'
      BY <2>0, <2>8 DEF StopUnread, RequestStop, At, InUse
    <3>7. NothingLeaks'
      BY <2>0, <2>8 DEF StopUnread, RequestStop, Alive, NothingLeaks
    <3> QED
      BY <3>1, <3>2, <3>3, <3>4, <3>5, <3>6, <3>7 DEF ForwardInv
  <2>9. CASE Watch
    <3>1. TunnelOK'
      BY <2>0, <2>9, RequestStopType DEF Watch, TunnelOK
    <3>2. LoopOK'
      BY <2>0, <2>9 DEF Watch, LoopOK, LoopSteps
    <3>3. DoneMeansEnded'
      BY <2>0, <2>9 DEF Watch, RequestStop, DoneMeansEnded
    <3>4. BoundOnce'
      BY <2>0, <2>9 DEF Watch, RequestStop, BoundOnce
    <3>5. ReadyOnce'
      BY <2>0, <2>9 DEF Watch, RequestStop, TunnelOK, Tunnels, ReadyOnce
    <3>6. InUse'
      BY <2>0, <2>9 DEF Watch, RequestStop, At, TunnelOK, Tunnels, InUse
    <3>7. NothingLeaks'
      BY <2>0, <2>9 DEF Watch, RequestStop, Alive, NothingLeaks
    <3> QED
      BY <3>1, <3>2, <3>3, <3>4, <3>5, <3>6, <3>7 DEF ForwardInv
  <2>10. CASE Resolve
    <3>1. TunnelOK'
      <4>1. PICK first \in Pods : tunnel' = [NoTunnel EXCEPT !.fwd = "dialing", !.pod = first]
        BY <2>0, <2>10 DEF Resolve, TunnelOK
      <4>2. NoTunnel \in Tunnels
        BY DEF NoTunnel, Tunnels
      <4>3. tunnel' \in Tunnels
        BY <4>1, <4>2 DEF Tunnels
      <4> QED
        BY <2>0, <2>10, <4>3 DEF Resolve, TunnelOK
    <3>2. LoopOK'
      BY <2>0, <2>10 DEF Resolve, Go, LoopOK, LoopSteps
    <3>3. DoneMeansEnded'
      BY <2>10 DEF Resolve, NoTunnel, DoneMeansEnded
    <3>4. BoundOnce'
      BY <2>10 DEF Resolve, NoTunnel, BoundOnce
    <3>5. ReadyOnce'
      BY <2>10 DEF Resolve, NoTunnel, TunnelOK, Tunnels, ReadyOnce
    <3>6. InUse'
      BY <2>10 DEF Resolve, Go, At, LoopOK, InUse
    <3>7. NothingLeaks'
      BY <2>10 DEF Resolve, Go, LoopOK, NothingLeaks
    <3> QED
      BY <3>1, <3>2, <3>3, <3>4, <3>5, <3>6, <3>7 DEF ForwardInv
  <2>11. CASE ResolveFails
    <3>1. TunnelOK'
      BY <2>0, <2>11 DEF ResolveFails, TunnelOK
    <3>2. LoopOK'
      BY <2>0, <2>11 DEF ResolveFails, StartFails, Go, LoopOK, LoopSteps
    <3>3. DoneMeansEnded'
      BY <2>0, <2>11 DEF ResolveFails, DoneMeansEnded
    <3>4. BoundOnce'
      BY <2>0, <2>11 DEF ResolveFails, StartFails, Go, LoopOK, BoundOnce
    <3>5. ReadyOnce'
      BY <2>0, <2>11 DEF ResolveFails, ReadyOnce
    <3>6. InUse'
      BY <2>0, <2>11 DEF ResolveFails, StartFails, Go, At, LoopOK, InUse
    <3>7. NothingLeaks'
      BY <2>0, <2>11 DEF ResolveFails, Alive, At, NothingLeaks
    <3> QED
      BY <3>1, <3>2, <3>3, <3>4, <3>5, <3>6, <3>7 DEF ForwardInv
  <2>12. CASE Ready
    <3>1. tunnel' = tunnel /\ eligible' = eligible /\ tunnel.ready /\ loop.pc = "ready"
      BY <2>12 DEF Ready, At
    <3>2. CASE tunnel.readyErr
      <4>1. loop' = [loop EXCEPT !.pc = "abandon"]
        BY <2>12, <3>2 DEF Ready, Go
      <4>2. TunnelOK'
        BY <2>0, <3>1, <4>1 DEF TunnelOK
      <4>3. LoopOK'
        BY <2>0, <3>1, <4>1 DEF LoopOK, LoopSteps
      <4>4. DoneMeansEnded'
        BY <2>0, <3>1, <4>1 DEF DoneMeansEnded
      <4>5. BoundOnce'
        BY <2>0, <3>1, <4>1 DEF BoundOnce, LoopOK
      <4>6. ReadyOnce'
        BY <2>0, <3>1, <4>1 DEF ReadyOnce
      <4>7. InUse'
        BY <3>1, <4>1 DEF InUse, At, LoopOK
      <4>8. NothingLeaks'
        BY <3>1, <4>1 DEF NothingLeaks
      <4> QED
        BY <4>2, <4>3, <4>4, <4>5, <4>6, <4>7, <4>8 DEF ForwardInv
    <3>3. CASE ~tunnel.readyErr /\ loop.port = 0
      <4>1. loop' = [pc |-> "wait", port |-> tunnel.localPort]
        BY <2>12, <3>3 DEF Ready
      <4>2. TunnelOK'
        BY <2>0, <3>1, <3>3, <4>1 DEF TunnelOK
      <4>3. LoopOK'
        BY <2>0, <3>1, <3>3, <4>1 DEF LoopOK, LoopSteps, TunnelOK, Tunnels
      <4>4. DoneMeansEnded'
        BY <2>0, <3>1, <3>3, <4>1 DEF DoneMeansEnded
      <4>5. BoundOnce'
        BY <2>0, <3>1, <3>3, <4>1 DEF BoundOnce, ReadyOnce
      <4>6. ReadyOnce'
        BY <2>0, <3>1, <3>3, <4>1 DEF ReadyOnce
      <4>7. InUse'
        BY <2>0, <3>1, <3>3, <4>1 DEF InUse, ReadyOnce, TunnelOK, Tunnels
      <4>8. NothingLeaks'
        BY <3>1, <3>3, <4>1 DEF NothingLeaks
      <4> QED
        BY <4>2, <4>3, <4>4, <4>5, <4>6, <4>7, <4>8 DEF ForwardInv
    <3>4. CASE ~tunnel.readyErr /\ loop.port # 0
      <4>1. loop' = [loop EXCEPT !.pc = "discard"] \/ loop' = [loop EXCEPT !.pc = "wait"]
        BY <2>12, <3>4 DEF Ready, Go
      <4>2. TunnelOK'
        BY <2>0, <3>1, <3>4, <4>1 DEF TunnelOK
      <4>3. LoopOK'
        BY <2>0, <3>1, <3>4, <4>1 DEF LoopOK, LoopSteps
      <4>4. DoneMeansEnded'
        BY <2>0, <3>1, <3>4, <4>1 DEF DoneMeansEnded
      <4>5. BoundOnce'
        BY <2>0, <3>1, <3>4, <4>1 DEF BoundOnce, LoopOK
      <4>6. ReadyOnce'
        BY <2>0, <3>1, <3>4, <4>1 DEF ReadyOnce
      <4>7. InUse'
        BY <2>0, <3>1, <3>4, <4>1 DEF InUse, BoundOnce, ReadyOnce, LoopOK
      <4>8. NothingLeaks'
        BY <2>0, <3>1, <3>4, <4>1 DEF NothingLeaks, LoopOK
      <4> QED
        BY <4>2, <4>3, <4>4, <4>5, <4>6, <4>7, <4>8 DEF ForwardInv
    <3> QED
      BY <3>2, <3>3, <3>4
  <2>13. CASE ReadyFails
    <3>1. TunnelOK'
      BY <2>0, <2>13 DEF ReadyFails, TunnelOK
    <3>2. LoopOK'
      BY <2>0, <2>13 DEF ReadyFails, Go, LoopOK, LoopSteps
    <3>3. DoneMeansEnded'
      BY <2>0, <2>13 DEF ReadyFails, DoneMeansEnded
    <3>4. BoundOnce'
      BY <2>0, <2>13 DEF ReadyFails, Go, LoopOK, BoundOnce
    <3>5. ReadyOnce'
      BY <2>0, <2>13 DEF ReadyFails, ReadyOnce
    <3>6. InUse'
      BY <2>13 DEF ReadyFails, Go, At, LoopOK, InUse
    <3>7. NothingLeaks'
      BY <2>13 DEF ReadyFails, Go, LoopOK, NothingLeaks
    <3> QED
      BY <3>1, <3>2, <3>3, <3>4, <3>5, <3>6, <3>7 DEF ForwardInv
  <2>14. CASE Abandon
    <3>1. TunnelOK'
      BY <2>0, <2>14, RequestStopType DEF Abandon, TunnelOK
    <3>2. LoopOK'
      BY <2>0, <2>14 DEF Abandon, Go, LoopOK, LoopSteps
    <3>3. DoneMeansEnded'
      BY <2>0, <2>14 DEF Abandon, RequestStop, DoneMeansEnded
    <3>4. BoundOnce'
      BY <2>0, <2>14 DEF Abandon, RequestStop, Go, LoopOK, BoundOnce
    <3>5. ReadyOnce'
      BY <2>0, <2>14 DEF Abandon, RequestStop, TunnelOK, Tunnels, ReadyOnce
    <3>6. InUse'
      BY <2>0, <2>14 DEF Abandon, Go, At, LoopOK, InUse
    <3>7. NothingLeaks'
      BY <2>0, <2>14 DEF Abandon, Go, LoopOK, NothingLeaks
    <3> QED
      BY <3>1, <3>2, <3>3, <3>4, <3>5, <3>6, <3>7 DEF ForwardInv
  <2>15. CASE Abandoned
    <3>1. TunnelOK'
      BY <2>0, <2>15 DEF Abandoned, TunnelOK
    <3>2. LoopOK'
      BY <2>0, <2>15 DEF Abandoned, StartFails, Go, LoopOK, LoopSteps
    <3>3. DoneMeansEnded'
      BY <2>0, <2>15 DEF Abandoned, DoneMeansEnded
    <3>4. BoundOnce'
      BY <2>0, <2>15 DEF Abandoned, StartFails, Go, LoopOK, BoundOnce
    <3>5. ReadyOnce'
      BY <2>0, <2>15 DEF Abandoned, ReadyOnce
    <3>6. InUse'
      BY <2>0, <2>15 DEF Abandoned, StartFails, Go, At, LoopOK, InUse
    <3>7. NothingLeaks'
      BY <2>0, <2>15 DEF Abandoned, Alive, NothingLeaks, DoneMeansEnded
    <3> QED
      BY <3>1, <3>2, <3>3, <3>4, <3>5, <3>6, <3>7 DEF ForwardInv
  <2>16. CASE TunnelEnds
    <3>1. TunnelOK'
      BY <2>0, <2>16 DEF TunnelEnds, TunnelOK
    <3>2. LoopOK'
      BY <2>0, <2>16 DEF TunnelEnds, Go, LoopOK, LoopSteps
    <3>3. DoneMeansEnded'
      BY <2>0, <2>16 DEF TunnelEnds, DoneMeansEnded
    <3>4. BoundOnce'
      BY <2>0, <2>16 DEF TunnelEnds, Go, LoopOK, BoundOnce
    <3>5. ReadyOnce'
      BY <2>0, <2>16 DEF TunnelEnds, ReadyOnce
    <3>6. InUse'
      BY <2>0, <2>16 DEF TunnelEnds, Go, LoopOK, InUse
    <3>7. NothingLeaks'
      BY <2>0, <2>16 DEF TunnelEnds, Alive, NothingLeaks, DoneMeansEnded
    <3> QED
      BY <3>1, <3>2, <3>3, <3>4, <3>5, <3>6, <3>7 DEF ForwardInv
  <2>17. CASE BackoffEnds
    <3>1. TunnelOK'
      BY <2>0, <2>17 DEF BackoffEnds, TunnelOK
    <3>2. LoopOK'
      BY <2>0, <2>17 DEF BackoffEnds, Go, LoopOK, LoopSteps
    <3>3. DoneMeansEnded'
      BY <2>0, <2>17 DEF BackoffEnds, DoneMeansEnded
    <3>4. BoundOnce'
      BY <2>0, <2>17 DEF BackoffEnds, Go, LoopOK, BoundOnce
    <3>5. ReadyOnce'
      BY <2>0, <2>17 DEF BackoffEnds, ReadyOnce
    <3>6. InUse'
      BY <2>0, <2>17 DEF BackoffEnds, Go, At, LoopOK, InUse
    <3>7. NothingLeaks'
      BY <2>0, <2>17 DEF BackoffEnds, Alive, At, NothingLeaks
    <3> QED
      BY <3>1, <3>2, <3>3, <3>4, <3>5, <3>6, <3>7 DEF ForwardInv
  <2>18. CASE Close \/ PodStarts \/ PodStops
    <3>1. TunnelOK'
      BY <2>0, <2>18 DEF Close, PodStarts, PodStops, TunnelOK
    <3>2. LoopOK'
      BY <2>0, <2>18 DEF Close, PodStarts, PodStops, LoopOK, LoopSteps
    <3>3. DoneMeansEnded'
      BY <2>0, <2>18 DEF Close, PodStarts, PodStops, DoneMeansEnded
    <3>4. BoundOnce'
      BY <2>0, <2>18 DEF Close, PodStarts, PodStops, BoundOnce
    <3>5. ReadyOnce'
      BY <2>0, <2>18 DEF Close, PodStarts, PodStops, ReadyOnce
    <3>6. InUse'
      BY <2>0, <2>18 DEF Close, PodStarts, PodStops, At, InUse
    <3>7. NothingLeaks'
      BY <2>0, <2>18 DEF Close, PodStarts, PodStops, Alive, NothingLeaks
    <3> QED
      BY <3>1, <3>2, <3>3, <3>4, <3>5, <3>6, <3>7 DEF ForwardInv
  <2>19. CASE UNCHANGED forwardVars
    <3>1. TunnelOK'
      BY <2>0, <2>19 DEF forwardVars, TunnelOK
    <3>2. LoopOK'
      BY <2>0, <2>19 DEF forwardVars, LoopOK, LoopSteps
    <3>3. DoneMeansEnded'
      BY <2>0, <2>19 DEF forwardVars, DoneMeansEnded
    <3>4. BoundOnce'
      BY <2>0, <2>19 DEF forwardVars, BoundOnce
    <3>5. ReadyOnce'
      BY <2>0, <2>19 DEF forwardVars, ReadyOnce
    <3>6. InUse'
      BY <2>0, <2>19 DEF forwardVars, At, InUse
    <3>7. NothingLeaks'
      BY <2>0, <2>19 DEF forwardVars, Alive, NothingLeaks
    <3> QED
      BY <3>1, <3>2, <3>3, <3>4, <3>5, <3>6, <3>7 DEF ForwardInv
  <2> QED
    BY <2>1, <2>2, <2>3, <2>4, <2>5, <2>6, <2>7, <2>8, <2>9, <2>10, <2>11, <2>12,
       <2>13, <2>14, <2>15, <2>16, <2>17, <2>18, <2>19
       DEF ForwardNext, TunnelNext, LoopNext
<1> QED
  BY <1>1, <1>2, PTL DEF ForwardSpec

(* No listener outlives the forward or overlaps its replacement, whatever   *)
(* Close, the startup timeout and the connection's end do together.         *)
THEOREM TunnelsDoNotLeak == ForwardSpec => []NothingLeaks
  BY ForwardInvariant, PTL DEF ForwardInv

(* A tunnel in use has the port of the first one (LocalPort).               *)
THEOREM PortStays == ForwardSpec => []PortIsStable
<1>1. ForwardInv => PortIsStable
  BY DEF ForwardInv, InUse, PortIsStable
<1> QED
  BY <1>1, ForwardInvariant, PTL

=============================================================================
