------------------------------- MODULE ShmMutex -------------------------------
(***************************************************************************)
(* ngx_shmtx_t: the mutex in shared memory that guards the slab pool of    *)
(* every shared zone and, without its semaphore, accept().  Workers take   *)
(* it by compare-and-swap and sleep on a POSIX semaphore when it stays     *)
(* busy; a worker may be killed at any instruction, and the master then    *)
(* unlocks what the dead worker held.                                      *)
(*                                                                         *)
(* One step is one access to shared memory or one semaphore call, and pc   *)
(* tells which comes next.  Spinning is waiting at "lock".                 *)
(***************************************************************************)
EXTENDS Integers, FiniteSets

CONSTANTS
    Worker,       \* worker processes
    Master,       \* the master process
    NoPid,        \* the value 0 of mtx->lock
    Semaphore,    \* mtx->semaphore: TRUE unless spin is -1 or sem_init() failed
    MaxCrashes    \* bound: workers killed

ASSUME ShmAssumption ==
    /\ IsFiniteSet(Worker)
    /\ Master \notin Worker
    /\ NoPid \notin Worker
    /\ Semaphore \in BOOLEAN
    /\ MaxCrashes \in Nat

Proc == Worker \cup {Master}

VARIABLES
    lock,      \* *mtx->lock: the owner's pid
    wait,      \* *mtx->wait, which wakers may take below zero
    sem,       \* value of mtx->sem
    seen,      \* local copy of wait in ngx_shmtx_wakeup(), 0 outside it
    pc,        \* where each process is
    crashes    \* workers killed so far

vars == <<lock, wait, sem, seen, pc, crashes>>

\* "dead" processes are not yet waited for by the master, "reaped" ones not
\* yet respawned.
PC == {"idle", "lock", "count", "recheck", "uncount", "sleep", "locked",
       "wake", "wakecas", "post", "dead", "reaped"}
WakerPC == {"idle", "wake", "wakecas", "post"}

Goto(p, l) == pc' = [pc EXCEPT ![p] = l]

-----------------------------------------------------------------------------
(* ngx_shmtx_trylock() and ngx_shmtx_lock().                               *)

\* *mtx->lock == 0 && ngx_atomic_cmp_set(mtx->lock, 0, ngx_pid)
Acquire(p, next) ==
    /\ lock = NoPid /\ lock' = p
    /\ Goto(p, next)
    /\ UNCHANGED <<wait, sem, seen, crashes>>

TryLock(p) == pc[p] = "idle" /\ Acquire(p, "locked")

CallLock(p) ==
    /\ pc[p] = "idle" /\ Goto(p, "lock")
    /\ UNCHANGED <<lock, wait, sem, seen, crashes>>

Lock(p) == pc[p] = "lock" /\ Acquire(p, "locked")

\* Enough spinning: prepare to sleep
Busy(p) ==
    /\ pc[p] = "lock" /\ lock # NoPid /\ Semaphore
    /\ Goto(p, "count")
    /\ UNCHANGED <<lock, wait, sem, seen, crashes>>

Count(p) ==
    /\ pc[p] = "count" /\ wait' = wait + 1
    /\ Goto(p, "recheck")
    /\ UNCHANGED <<lock, sem, seen, crashes>>

\* The lock is tried once more between counting and sleeping
MutantRecheck(p) == FALSE
Recheck(p) == lock = NoPid

LockCounted(p) == pc[p] = "recheck" /\ Recheck(p) /\ Acquire(p, "uncount")

GoSleep(p) ==
    /\ pc[p] = "recheck" /\ ~Recheck(p)
    /\ Goto(p, "sleep")
    /\ UNCHANGED <<lock, wait, sem, seen, crashes>>

MutantUncounted == wait
Uncounted == wait - 1

Uncount(p) ==
    /\ pc[p] = "uncount" /\ wait' = Uncounted
    /\ Goto(p, "locked")
    /\ UNCHANGED <<lock, sem, seen, crashes>>

SemPositive == sem > 0

\* sem_wait() returned; EINTR is retried
Awake(p) ==
    /\ pc[p] = "sleep" /\ SemPositive /\ sem' = sem - 1
    /\ Goto(p, "lock")
    /\ UNCHANGED <<lock, wait, seen, crashes>>

-----------------------------------------------------------------------------
(* ngx_shmtx_unlock(), ngx_shmtx_force_unlock() and ngx_shmtx_wakeup().    *)

AfterUnlock == IF Semaphore THEN "wake" ELSE "idle"

Unlock(p) ==
    /\ pc[p] = "locked"
    /\ IF lock = p THEN lock' = NoPid /\ Goto(p, AfterUnlock)
                   ELSE UNCHANGED lock /\ Goto(p, "idle")
    /\ UNCHANGED <<wait, sem, seen, crashes>>

\* (ngx_atomic_int_t) wait <= 0
MutantNobodyWaits == wait <= 1
NobodyWaits == wait <= 0

Wake(p) ==
    /\ pc[p] = "wake"
    /\ IF NobodyWaits THEN Goto(p, "idle") /\ UNCHANGED seen
                      ELSE Goto(p, "wakecas") /\ seen' = [seen EXCEPT ![p] = wait]
    /\ UNCHANGED <<lock, wait, sem, crashes>>

WakeCas(p) ==
    /\ pc[p] = "wakecas"
    /\ IF wait = seen[p] THEN wait' = wait - 1 /\ Goto(p, "post")
                         ELSE UNCHANGED wait /\ Goto(p, "wake")
    /\ seen' = [seen EXCEPT ![p] = 0]
    /\ UNCHANGED <<lock, sem, crashes>>

Post(p) ==
    /\ pc[p] = "post" /\ sem' = sem + 1
    /\ Goto(p, "idle")
    /\ UNCHANGED <<lock, wait, seen, crashes>>

-----------------------------------------------------------------------------
(* Death of a worker.                                                      *)

Crash(p) ==
    /\ pc[p] \notin {"dead", "reaped"} /\ crashes < MaxCrashes
    /\ crashes' = crashes + 1 /\ seen' = [seen EXCEPT ![p] = 0]
    /\ Goto(p, "dead")
    /\ UNCHANGED <<lock, wait, sem>>

\* ngx_atomic_cmp_set(mtx->lock, pid, 0)
MutantHeldBy(p) == FALSE
MutantHeldByAny(p) == lock # NoPid
HeldBy(p) == lock = p

\* ngx_process_get_status() has waited for p and calls ngx_unlock_mutexes()
Reap(p) ==
    /\ pc[Master] = "idle" /\ pc[p] = "dead"
    /\ IF HeldBy(p)
       THEN lock' = NoPid /\ pc' = [pc EXCEPT ![p] = "reaped", ![Master] = AfterUnlock]
       ELSE UNCHANGED lock /\ Goto(p, "reaped")
    /\ UNCHANGED <<wait, sem, seen, crashes>>

\* ngx_reap_children(): another worker takes its place
Respawn(p) ==
    /\ pc[Master] = "idle" /\ pc[p] = "reaped"
    /\ Goto(p, "idle")
    /\ UNCHANGED <<lock, wait, sem, seen, crashes>>

-----------------------------------------------------------------------------
Init ==
    /\ lock = NoPid /\ wait = 0 /\ sem = 0
    /\ seen = [p \in Proc |-> 0]
    /\ pc = [p \in Proc |-> "idle"]
    /\ crashes = 0

\* What a worker does once it has asked for the lock
Proceed(p) == \/ Lock(p) \/ Busy(p) \/ Count(p) \/ LockCounted(p) \/ GoSleep(p)
              \/ Uncount(p) \/ Awake(p) \/ Unlock(p)

Waken(p) == Wake(p) \/ WakeCas(p) \/ Post(p)

Next == \/ \E p \in Worker : \/ TryLock(p) \/ CallLock(p) \/ Proceed(p)
                             \/ Crash(p) \/ Reap(p) \/ Respawn(p)
        \/ \E p \in Proc : Waken(p)

Spec == Init /\ [][Next]_vars

\* Every live process runs, critical sections end, and the master handles
\* SIGCHLD; nobody has to ask for the lock.
Fairness == /\ \A p \in Worker : WF_vars(Proceed(p)) /\ WF_vars(Reap(p))
            /\ \A p \in Proc : WF_vars(Waken(p))

FairSpec == Spec /\ Fairness

-----------------------------------------------------------------------------
(* Properties.                                                             *)

TypeOK ==
    /\ lock \in Worker \cup {NoPid}
    /\ wait \in Int
    /\ sem \in Nat
    /\ seen \in [Proc -> Int]
    /\ pc \in [Proc -> PC]
    /\ pc[Master] \in WakerPC
    /\ crashes \in Nat

Holding == {"uncount", "locked"}

\* Two live workers are never both inside, whoever dies where and however late
\* the master unlocks what the dead one held.
MutualExclusion ==
    \A p, q \in Worker : pc[p] \in Holding /\ pc[q] \in Holding => p = q

Waiting == {p \in Worker : pc[p] \in {"recheck", "uncount", "sleep"}}
Posting == {p \in Proc : pc[p] = "post"}

\* Until a worker dies, wait counts those about to sleep or asleep that no
\* wake-up is meant for; it is negative when a wake-up found its worker gone.
WaitAccounting ==
    crashes = 0 => wait + sem + Cardinality(Posting) = Cardinality(Waiting)

\* Until a worker dies, nobody is left asleep beside a free lock: a wake-up is
\* there or on its way, or another worker is about to take the lock.
NoLostWakeup ==
    crashes = 0 /\ lock = NoPid /\ (\E p \in Worker : pc[p] = "sleep") =>
       \/ sem > 0
       \/ \E q \in Proc : pc[q] \in {"lock", "count", "recheck", "wake", "wakecas", "post"}

\* While somebody wants the lock, somebody gets it.
Progress ==
    (\E p \in Worker : pc[p] \in {"lock", "count", "recheck", "sleep"})
       ~> (crashes > 0 \/ \E p \in Worker : pc[p] \in Holding)

\* A lock held by a dead worker is freed.
Recovery == \A p \in Worker : (lock = p /\ pc[p] = "dead") ~> (lock # p)

=============================================================================
