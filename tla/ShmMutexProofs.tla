---------------------------- MODULE ShmMutexProofs ----------------------------
(***************************************************************************)
(* Type correctness, mutual exclusion, the count of waiters and the        *)
(* absence of lost wake-ups of ShmMutex, for any set of workers and any    *)
(* number of crashes.                                                      *)
(***************************************************************************)
EXTENDS ShmMutex, FiniteSetTheorems, TLAPS

USE ShmAssumption DEF Proc, PC, WakerPC, Holding

-----------------------------------------------------------------------------
\* The state has its type at the start.
LEMMA TypeInit == Init => TypeOK
BY DEF Init, TypeOK

\* Every access to the shared words and every semaphore call keeps it.
LEMMA TypeStep == TypeOK /\ [Next]_vars => TypeOK'
<1> SUFFICES ASSUME TypeOK, [Next]_vars PROVE TypeOK'
  OBVIOUS
<1> USE DEF TypeOK, Goto
<1>1. ASSUME NEW p \in Worker, TryLock(p) \/ Lock(p) \/ LockCounted(p) PROVE TypeOK'
  BY <1>1 DEF TryLock, Lock, LockCounted, Acquire
<1>2. ASSUME NEW p \in Worker, CallLock(p) \/ Busy(p) \/ GoSleep(p) PROVE TypeOK'
  BY <1>2 DEF CallLock, Busy, GoSleep
<1>3. ASSUME NEW p \in Worker, Count(p) \/ Uncount(p) PROVE TypeOK'
  BY <1>3 DEF Count, Uncount, Uncounted
<1>4. ASSUME NEW p \in Worker, Awake(p) PROVE TypeOK'
  BY <1>4 DEF Awake, SemPositive
<1>5. ASSUME NEW p \in Worker, Unlock(p) PROVE TypeOK'
  BY <1>5 DEF Unlock, AfterUnlock
<1>6. ASSUME NEW p \in Proc, Wake(p) PROVE TypeOK'
  BY <1>6 DEF Wake
<1>7. ASSUME NEW p \in Proc, WakeCas(p) PROVE TypeOK'
  BY <1>7 DEF WakeCas
<1>8. ASSUME NEW p \in Proc, Post(p) PROVE TypeOK'
  BY <1>8 DEF Post
<1>9. ASSUME NEW p \in Worker, Crash(p) PROVE TypeOK'
  BY <1>9 DEF Crash
<1>10. ASSUME NEW p \in Worker, Reap(p) PROVE TypeOK'
  BY <1>10 DEF Reap, HeldBy, AfterUnlock
<1>11. ASSUME NEW p \in Worker, Respawn(p) PROVE TypeOK'
  BY <1>11 DEF Respawn
<1>12. CASE UNCHANGED vars
  BY <1>12 DEF vars
<1> QED
  BY <1>1, <1>2, <1>3, <1>4, <1>5, <1>6, <1>7, <1>8, <1>9, <1>10, <1>11, <1>12
     DEF Next, Proceed, Waken

\* The words in shared memory, the semaphore and every process's position keep
\* their types, wherever workers are killed.
THEOREM TypeCorrect == Spec => []TypeOK
BY TypeInit, TypeStep, PTL DEF Spec

-----------------------------------------------------------------------------
\* Whoever is inside has its pid in the lock word.  Mutual exclusion alone is
\* not inductive: a stray owner could be unlocked under a worker that is inside.
OwnerInside == \A p \in Worker : pc[p] \in Holding => lock = p

\* Nobody is inside at the start.
LEMMA OwnerInit == Init => OwnerInside
BY DEF Init, OwnerInside

\* No step of a worker, of the master or of a crash lets a worker in beside
\* the one the lock word names, or takes the word from a live worker inside.
LEMMA OwnerStep == TypeOK /\ OwnerInside /\ [Next]_vars => OwnerInside'
<1> SUFFICES ASSUME TypeOK, OwnerInside, [Next]_vars PROVE OwnerInside'
  OBVIOUS
<1> USE DEF TypeOK, OwnerInside, Goto
<1>1. ASSUME NEW p \in Worker, TryLock(p) \/ Lock(p) \/ LockCounted(p) PROVE OwnerInside'
  \* the word was 0, so nobody was inside
  <2>1. lock = NoPid /\ lock' = p
    BY <1>1 DEF TryLock, Lock, LockCounted, Acquire
  <2>2. \A q \in Worker \ {p} : pc'[q] = pc[q]
    BY <1>1 DEF TryLock, Lock, LockCounted, Acquire
  <2> QED
    BY <2>1, <2>2
<1>2. ASSUME NEW p \in Worker, CallLock(p) \/ Busy(p) \/ GoSleep(p) \/ Count(p) \/ Awake(p)
      PROVE OwnerInside'
  BY <1>2 DEF CallLock, Busy, GoSleep, Count, Awake
<1>3. ASSUME NEW p \in Worker, Uncount(p) PROVE OwnerInside'
  BY <1>3 DEF Uncount
<1>4. ASSUME NEW p \in Worker, Unlock(p) PROVE OwnerInside'
  \* the lock word names p, so nobody else was inside
  <2>1. lock = p /\ pc'[p] \notin Holding
    BY <1>4 DEF Unlock, AfterUnlock
  <2>2. \A q \in Worker \ {p} : pc'[q] = pc[q] /\ q # lock
    BY <1>4, <2>1 DEF Unlock
  <2> QED
    BY <2>1, <2>2
<1>5. ASSUME NEW p \in Proc, Waken(p) PROVE OwnerInside'
  BY <1>5 DEF Waken, Wake, WakeCas, Post
<1>6. ASSUME NEW p \in Worker, Crash(p) PROVE OwnerInside'
  BY <1>6 DEF Crash
<1>7. ASSUME NEW p \in Worker, Reap(p) PROVE OwnerInside'
  \* the word is cleared only if it names p, and p is dead
  <2>1. \A q \in Worker : pc'[q] \in Holding => pc[q] \in Holding /\ q # p
    BY <1>7 DEF Reap, AfterUnlock
  <2>2. lock' = lock \/ lock = p
    BY <1>7 DEF Reap, HeldBy
  <2> QED
    BY <2>1, <2>2
<1>8. ASSUME NEW p \in Worker, Respawn(p) PROVE OwnerInside'
  BY <1>8 DEF Respawn
<1>9. CASE UNCHANGED vars
  BY <1>9 DEF vars
<1> QED
  BY <1>1, <1>2, <1>3, <1>4, <1>5, <1>6, <1>7, <1>8, <1>9 DEF Next, Proceed

\* Two live workers are never both inside the critical section, for any number
\* of workers and of crashes.
THEOREM Exclusion == Spec => []MutualExclusion
<1>1. OwnerInside => MutualExclusion
  BY DEF OwnerInside, MutualExclusion
<1> QED
  BY <1>1, OwnerInit, OwnerStep, TypeCorrect, PTL DEF Spec

-----------------------------------------------------------------------------
\* The sets that are counted are finite.
LEMMA Finite == IsFiniteSet(Waiting) /\ IsFiniteSet(Posting)
                /\ Cardinality(Waiting) \in Nat /\ Cardinality(Posting) \in Nat
<1>1. IsFiniteSet(Proc)
  BY FS_AddElement
<1>2. Waiting \subseteq Worker /\ Posting \subseteq Proc
  BY DEF Waiting, Posting
<1> QED
  BY <1>1, <1>2, FS_Subset, FS_CardinalityType

\* Nobody waits or posts at the start.
LEMMA WaitInit == Init => WaitAccounting
<1> SUFFICES ASSUME Init PROVE WaitAccounting
  OBVIOUS
<1>1. Waiting = {} /\ Posting = {}
  BY DEF Init, Waiting, Posting
<1> QED
  BY <1>1, FS_EmptySet DEF Init, WaitAccounting

\* Each step moves a worker between the sets and changes wait or sem by one
\* accordingly.
LEMMA WaitStep == TypeOK /\ WaitAccounting /\ [Next]_vars => WaitAccounting'
<1> SUFFICES ASSUME TypeOK, WaitAccounting, [Next]_vars, crashes' = 0
             PROVE  wait' + sem' + Cardinality(Posting') = Cardinality(Waiting')
  BY DEF WaitAccounting
<1> DEFINE P == Cardinality(Posting)
           W == Cardinality(Waiting)
           Goal == wait' + sem' + Cardinality(Posting') = Cardinality(Waiting')
<1>1. P \in Nat /\ W \in Nat /\ IsFiniteSet(Waiting) /\ IsFiniteSet(Posting)
  BY Finite
<1>2. crashes = 0 => wait + sem + P = W
  BY DEF WaitAccounting
<1> USE DEF TypeOK, Goto
<1>3. ASSUME crashes' = crashes, UNCHANGED <<wait, sem>>,
             Waiting' = Waiting, Posting' = Posting
      PROVE  Goal
  BY <1>2, <1>3
<1>4. ASSUME NEW p \in Worker,
             \/ TryLock(p) \/ CallLock(p) \/ Lock(p) \/ Busy(p)
             \/ LockCounted(p) \/ GoSleep(p) \/ Unlock(p)
      PROVE  Goal
  <2>1. crashes' = crashes /\ UNCHANGED <<wait, sem>>
    BY <1>4 DEF TryLock, CallLock, Lock, Busy, LockCounted, GoSleep, Unlock, Acquire
  <2>2. Posting' = Posting
    BY <1>4 DEF TryLock, CallLock, Lock, Busy, LockCounted, GoSleep, Unlock, Acquire,
                AfterUnlock, Posting
  <2>3. Waiting' = Waiting
    BY <1>4 DEF TryLock, CallLock, Lock, Busy, LockCounted, GoSleep, Unlock, Acquire,
                AfterUnlock, Waiting
  <2> QED
    BY <1>3, <2>1, <2>2, <2>3
<1>5. ASSUME NEW p \in Worker, Count(p) PROVE Goal
  <2>1. /\ crashes' = crashes /\ wait' = wait + 1 /\ sem' = sem
        /\ Posting' = Posting /\ p \notin Waiting /\ Waiting' = Waiting \cup {p}
    BY <1>5 DEF Count, Posting, Waiting
  <2>2. Cardinality(Waiting \cup {p}) = W + 1
    BY <1>1, <2>1, FS_AddElement
  <2> QED
    BY <1>1, <1>2, <2>1, <2>2
<1>6. ASSUME NEW p \in Worker, Uncount(p) \/ Awake(p) PROVE Goal
  <2>1. /\ crashes' = crashes
        /\ Posting' = Posting /\ p \in Waiting /\ Waiting' = Waiting \ {p}
    BY <1>6 DEF Uncount, Uncounted, Awake, Posting, Waiting
  <2>2. Cardinality(Waiting \ {p}) = W - 1
    BY <1>1, <2>1, FS_RemoveElement
  <2>3. \/ wait' = wait - 1 /\ sem' = sem
        \/ wait' = wait /\ sem' = sem - 1
    BY <1>6 DEF Uncount, Uncounted, Awake
  <2> QED
    BY <1>1, <1>2, <2>1, <2>2, <2>3
<1>7. ASSUME NEW p \in Proc, Wake(p) PROVE Goal
  <2>1. /\ crashes' = crashes /\ UNCHANGED <<wait, sem>>
        /\ Posting' = Posting /\ Waiting' = Waiting
    BY <1>7 DEF Wake, Posting, Waiting
  <2> QED
    BY <1>3, <2>1
<1>8. ASSUME NEW p \in Proc, WakeCas(p) PROVE Goal
  <2>1. crashes' = crashes /\ sem' = sem /\ Waiting' = Waiting
    BY <1>8 DEF WakeCas, Waiting
  <2>2. CASE wait = seen[p]
    <3>1. wait' = wait - 1 /\ p \notin Posting /\ Posting' = Posting \cup {p}
      BY <1>8, <2>2 DEF WakeCas, Posting
    <3>2. Cardinality(Posting \cup {p}) = P + 1
      BY <1>1, <3>1, FS_AddElement
    <3> QED
      BY <1>1, <1>2, <2>1, <3>1, <3>2
  <2>3. CASE wait # seen[p]
    <3>1. wait' = wait /\ Posting' = Posting
      BY <1>8, <2>3 DEF WakeCas, Posting
    <3> QED
      BY <1>3, <2>1, <3>1
  <2> QED
    BY <2>2, <2>3
<1>9. ASSUME NEW p \in Proc, Post(p) PROVE Goal
  <2>1. /\ crashes' = crashes /\ wait' = wait /\ sem' = sem + 1
        /\ Waiting' = Waiting /\ p \in Posting /\ Posting' = Posting \ {p}
    BY <1>9 DEF Post, Posting, Waiting
  <2>2. Cardinality(Posting \ {p}) = P - 1
    BY <1>1, <2>1, FS_RemoveElement
  <2> QED
    BY <1>1, <1>2, <2>1, <2>2
<1>10. ASSUME NEW p \in Worker, Reap(p) \/ Respawn(p) PROVE Goal
  <2>1. crashes' = crashes /\ UNCHANGED <<wait, sem>>
    BY <1>10 DEF Reap, Respawn
  <2>2. Posting' = Posting /\ Waiting' = Waiting
    BY <1>10 DEF Reap, Respawn, AfterUnlock, Posting, Waiting
  <2> QED
    BY <1>3, <2>1, <2>2
<1>11. ASSUME NEW p \in Worker, Crash(p) PROVE Goal
  BY <1>11 DEF Crash
<1>12. CASE UNCHANGED vars
  BY <1>3, <1>12 DEF vars, Waiting, Posting
<1> QED
  BY <1>4, <1>5, <1>6, <1>7, <1>8, <1>9, <1>10, <1>11, <1>12 DEF Next, Proceed, Waken

\* Until a worker dies, wait counts exactly the waiters no wake-up is meant
\* for, whatever number of workers and wakers race for it.
THEOREM WaitIsAccounted == Spec => []WaitAccounting
BY WaitInit, WaitStep, TypeCorrect, PTL DEF Spec

-----------------------------------------------------------------------------
\* The second part is what makes the waker's test of wait meaningful: whoever
\* sleeps has a semaphore, and the unlocker therefore wakes.
WakeupInv ==
    /\ NoLostWakeup
    /\ \A p \in Worker : pc[p] \in {"count", "recheck", "sleep"} => Semaphore

\* Nobody sleeps at the start.
LEMMA WakeupInit == Init => WakeupInv
BY DEF Init, WakeupInv, NoLostWakeup

\* A waker that finds no waiter counted leaves the sleepers to wake-ups that
\* are there or under way: this is the count's purpose.
LEMMA CountedSleepers ==
    ASSUME TypeOK, WaitAccounting, crashes = 0, NobodyWaits,
           NEW p \in Worker, pc[p] = "sleep"
    PROVE  sem > 0 \/ \E q \in Proc : pc[q] = "post"
<1>1. p \in Waiting
  BY DEF Waiting
<1>2. Cardinality(Waiting) > 0
  BY <1>1, Finite, FS_EmptySet
<1>3. sem + Cardinality(Posting) > 0
  BY <1>2, Finite DEF WaitAccounting, NobodyWaits, TypeOK
<1>4. CASE Cardinality(Posting) > 0
  <2>1. Posting # {}
    BY <1>4, FS_EmptySet
  <2> QED
    BY <2>1 DEF Posting
<1> QED
  BY <1>3, <1>4, Finite DEF TypeOK

\* No step leaves a sleeper beside a free lock without help on its way.
LEMMA WakeupStep ==
    TypeOK /\ WaitAccounting /\ WakeupInv /\ [Next]_vars => WakeupInv'
<1> SUFFICES ASSUME TypeOK, WaitAccounting, WakeupInv, [Next]_vars PROVE WakeupInv'
  OBVIOUS
<1> DEFINE Help(p) == pc[p] \in {"lock", "count", "recheck", "wake", "wakecas", "post"}
           Sleepers == \E p \in Worker : pc[p] = "sleep"
<1>1. crashes = 0 /\ lock = NoPid /\ Sleepers => sem > 0 \/ \E q \in Proc : Help(q)
  BY DEF WakeupInv, NoLostWakeup
<1>2. \A p \in Worker : pc[p] \in {"count", "recheck", "sleep"} => Semaphore
  BY DEF WakeupInv
<1> USE DEF TypeOK, Goto
<1>3. \A p \in Worker : pc'[p] \in {"count", "recheck", "sleep"} => Semaphore
  <2>1. ASSUME NEW p \in Worker, Proceed(p) \/ TryLock(p) \/ CallLock(p)
        PROVE  \A q \in Worker : pc'[q] \in {"count", "recheck", "sleep"} => Semaphore
    BY <1>2, <2>1 DEF Proceed, TryLock, CallLock, Lock, Busy, Count, LockCounted,
       GoSleep, Uncount, Awake, Unlock, Acquire, AfterUnlock
  <2>2. ASSUME NEW p \in Worker, Crash(p) \/ Reap(p) \/ Respawn(p)
        PROVE  \A q \in Worker : pc'[q] \in {"count", "recheck", "sleep"} => Semaphore
    BY <1>2, <2>2 DEF Crash, Reap, Respawn, AfterUnlock
  <2>3. ASSUME NEW p \in Proc, Waken(p)
        PROVE  \A q \in Worker : pc'[q] \in {"count", "recheck", "sleep"} => Semaphore
    BY <1>2, <2>3 DEF Waken, Wake, WakeCas, Post
  <2>4. CASE UNCHANGED vars
    BY <1>2, <2>4 DEF vars
  <2> QED
    BY <2>1, <2>2, <2>3, <2>4 DEF Next
<1> DEFINE Goal == crashes' = 0 /\ lock' = NoPid /\ Sleepers'
                      => sem' > 0 \/ \E q \in Proc : Help(q)'
<1>4. ASSUME NEW p \in Worker, TryLock(p) \/ Lock(p) \/ LockCounted(p) PROVE Goal
  \* the lock is not free any more
  BY <1>4 DEF TryLock, Lock, LockCounted, Acquire
<1>5. ASSUME NEW p \in Worker, CallLock(p) \/ Count(p) \/ Awake(p) PROVE Goal
  \* p itself tries the lock
  <2>1. Help(p)'
    BY <1>5 DEF CallLock, Count, Awake
  <2> QED
    BY <2>1
<1>6. ASSUME NEW p \in Worker, Busy(p) \/ GoSleep(p) PROVE Goal
  \* the lock is not free
  BY <1>6 DEF Busy, GoSleep, Recheck
<1>7. ASSUME NEW p \in Worker, Uncount(p) PROVE Goal
  BY <1>1, <1>7 DEF Uncount
<1>8. ASSUME NEW p \in Worker, Unlock(p) PROVE Goal
  <2>1. CASE lock = p
    \* p wakes the sleeper, who has a semaphore
    <3>1. Sleepers' => Semaphore
      BY <1>3
    <3>2. Semaphore => Help(p)'
      BY <1>8, <2>1 DEF Unlock, AfterUnlock
    <3> QED
      BY <3>1, <3>2
  <2>2. CASE lock # p
    BY <1>1, <1>8, <2>2 DEF Unlock
  <2> QED
    BY <2>1, <2>2
<1>9. ASSUME NEW p \in Proc, Wake(p) PROVE Goal
  <2>1. CASE NobodyWaits
    <3> SUFFICES ASSUME crashes' = 0, NEW s \in Worker, pc'[s] = "sleep"
                 PROVE  sem' > 0 \/ \E q \in Proc : Help(q)'
      OBVIOUS
    <3>1. crashes = 0 /\ pc[s] = "sleep" /\ sem' = sem
      BY <1>9, <2>1 DEF Wake
    <3>2. sem > 0 \/ \E q \in Proc : pc[q] = "post"
      BY <2>1, <3>1, CountedSleepers
    <3>3. \A q \in Proc : pc[q] = "post" => pc'[q] = "post"
      BY <1>9, <2>1 DEF Wake
    <3> QED
      BY <3>1, <3>2, <3>3
  <2>2. CASE ~NobodyWaits
    <3>1. Help(p)'
      BY <1>9, <2>2 DEF Wake
    <3> QED
      BY <3>1
  <2> QED
    BY <2>1, <2>2
<1>10. ASSUME NEW p \in Proc, WakeCas(p) PROVE Goal
  <2>1. Help(p)'
    BY <1>10 DEF WakeCas
  <2> QED
    BY <2>1
<1>11. ASSUME NEW p \in Proc, Post(p) PROVE Goal
  BY <1>11 DEF Post
<1>12. ASSUME NEW p \in Worker, Crash(p) PROVE Goal
  BY <1>12 DEF Crash
<1>13. ASSUME NEW p \in Worker, Reap(p) PROVE Goal
  <2>1. CASE HeldBy(p)
    <3>1. Sleepers' => Semaphore
      BY <1>3
    <3>2. Semaphore => Help(Master)'
      BY <1>13, <2>1 DEF Reap, AfterUnlock
    <3> QED
      BY <3>1, <3>2
  <2>2. CASE ~HeldBy(p)
    BY <1>1, <1>13, <2>2 DEF Reap
  <2> QED
    BY <2>1, <2>2
<1>14. ASSUME NEW p \in Worker, Respawn(p) PROVE Goal
  BY <1>1, <1>14 DEF Respawn
<1>15. ASSUME UNCHANGED vars PROVE Goal
  BY <1>1, <1>15 DEF vars
<1>16. ASSUME NEW p \in Worker, TryLock(p) \/ CallLock(p) \/ Proceed(p) PROVE Goal
  BY <1>4, <1>5, <1>6, <1>7, <1>8, <1>16, Zenon DEF Proceed
<1>17. ASSUME NEW p \in Proc, Waken(p) PROVE Goal
  BY <1>9, <1>10, <1>11, <1>17, Zenon DEF Waken
<1>18. Goal
  BY <1>12, <1>13, <1>14, <1>15, <1>16, <1>17, Zenon DEF Next
<1>19. NoLostWakeup'
  BY <1>18 DEF NoLostWakeup
<1> QED
  BY <1>3, <1>19 DEF WakeupInv

\* Until a worker dies, nobody is left asleep beside a free lock, for any number
\* of workers: whoever released it found the sleeper counted, or a wake-up is coming.
THEOREM NoWakeupIsLost == Spec => []NoLostWakeup
<1>1. WakeupInv => NoLostWakeup
  BY DEF WakeupInv
<1> QED
  BY <1>1, WakeupInit, WakeupStep, WaitIsAccounted, TypeCorrect, PTL DEF Spec
=============================================================================
