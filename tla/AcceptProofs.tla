---------------------------- MODULE AcceptProofs ----------------------------
(***************************************************************************)
(* What holds for any number of workers, clients, connections and zones,   *)
(* and whatever fails: the held flag, the registration of the listening    *)
(* sockets and the owner of the accept mutex agree (HeldAlways); no        *)
(* connection is lost, freed twice or queued after it was freed            *)
(* (PoolStaysIntact); the instance bit catches the stale events it can     *)
(* (StaleAlwaysCaught); and the connection counters are those of the       *)
(* sessions (ConnAlwaysCounted).                                           *)
(*                                                                         *)
(* The first part is on the mutex, the second on the pool.                 *)
(***************************************************************************)
EXTENDS Accept, FiniteSetTheorems, SequenceTheorems, TLAPS

-----------------------------------------------------------------------------
(* Induction, from the well-foundedness of the subset order on finite sets *)

\* A set of numbers that has one has a least one.
LEMMA LeastNumber ==
    ASSUME NEW T, T \subseteq Nat, T # {}
    PROVE  \E n \in T : \A m \in T : n <= m
<1>1. PICK k \in T : TRUE OBVIOUS
<1> DEFINE C == {0 .. m : m \in {i \in T : i <= k}}
<1>2. C \subseteq FiniteSubsetsOf(0 .. k)
  <2>1. \A m \in T : m <= k => 0 .. m \in SUBSET (0 .. k) BY <1>1
  <2>2. \A m \in T : IsFiniteSet(0 .. m) BY FS_Interval
  <2> QED BY <2>1, <2>2 DEF FiniteSubsetsOf
<1>3. C # {} BY <1>1
<1>4. IsWellFoundedOn(StrictSubsetOrdering(0 .. k), FiniteSubsetsOf(0 .. k))
  BY FS_StrictSubsetOrderingWellFounded
<1>5. PICK X \in C : \A Y \in C : <<Y, X>> \notin StrictSubsetOrdering(0 .. k)
  <2> HIDE DEF C
  <2> QED BY <1>2, <1>3, <1>4, WFMin
<1>6. PICK n \in T : n <= k /\ X = 0 .. n BY <1>5
<1>7. SUFFICES ASSUME NEW m \in T, m < n PROVE FALSE BY <1>6
<1>8. 0 .. m \in C BY <1>6, <1>7
<1>9. 0 .. m \subseteq 0 .. n /\ 0 .. m # 0 .. n
  <2>1. n \in 0 .. n /\ n \notin 0 .. m BY <1>7
  <2>2. 0 .. m \subseteq 0 .. n BY <1>7
  <2> QED BY <2>1, <2>2
<1>10. 0 .. m \in SUBSET (0 .. k) /\ 0 .. n \in SUBSET (0 .. k) BY <1>6, <1>7
<1>11. <<0 .. m, X>> \in StrictSubsetOrdering(0 .. k)
  BY <1>6, <1>9, <1>10 DEF StrictSubsetOrdering
<1> QED BY <1>5, <1>8, <1>11

\* Induction, for a set of numbers
LEMMA NumbersInduction ==
    ASSUME NEW T, 0 \in T, \A n \in Nat : n \in T => n + 1 \in T
    PROVE  \A n \in Nat : n \in T
<1> SUFFICES ASSUME NEW k \in Nat, k \notin T PROVE FALSE OBVIOUS
<1> DEFINE N == {i \in Nat : i \notin T}
<1>1. PICK n \in N : \A m \in N : n <= m
  <2>1. N \subseteq Nat /\ N # {} OBVIOUS
  <2> HIDE DEF N
  <2> QED BY <2>1, LeastNumber
<1>2. n # 0 /\ n - 1 \in Nat BY <1>1
<1>3. n - 1 \notin N BY <1>1, <1>2
<1>4. n - 1 + 1 = n BY <1>1
<1> QED BY <1>1, <1>2, <1>3, <1>4

\* n refusals in a row are the last of a run of single ones.
LEMMA RefusedRun ==
    ASSUME NEW wk, NEW c, NEW n \in Nat
    PROVE  \E r : /\ r[0] = wk
                  /\ \A i \in 1..n : r[i] = Refused(r[i - 1], c)
                  /\ RefusedTimes(wk, c, n) = r[n]
<1> DEFINE Run(r, m) == r = [i \in 0..m |-> IF i = 0 THEN wk ELSE Refused(r[i - 1], c)]
           T == {m \in Nat : \E r : Run(r, m)}
<1>1. 0 \in T
  <2> DEFINE r == [i \in 0..0 |-> wk]
  <2>1. [i \in 0..0 |-> IF i = 0 THEN wk ELSE Refused(r[i - 1], c)] = r
    OBVIOUS
  <2>2. Run(r, 0)
    BY <2>1
  <2> HIDE DEF r, Run
  <2> QED
    BY <2>2
<1>2. ASSUME NEW m \in Nat, m \in T PROVE m + 1 \in T
  <2>1. PICK r : Run(r, m)
    BY <1>2
  <2> DEFINE q == [i \in 0..(m + 1) |-> IF i <= m THEN r[i] ELSE Refused(r[m], c)]
             s == [i \in 0..(m + 1) |-> IF i = 0 THEN wk ELSE Refused(q[i - 1], c)]
  <2>2. r[0] = wk /\ \A i \in 1..m : r[i] = Refused(r[i - 1], c)
    BY <2>1
  <2>3. ASSUME NEW i \in 0..(m + 1) PROVE q[i] = s[i]
    <3>1. CASE i = 0
      BY <2>2, <3>1
    <3>2. CASE i \in 1..m
      <4>1. q[i] = r[i] /\ q[i - 1] = r[i - 1] /\ s[i] = Refused(q[i - 1], c)
        BY <3>2
      <4> QED
        BY <2>2, <3>2, <4>1
    <3>3. CASE i = m + 1
      <4>1. q[i] = Refused(r[m], c) /\ q[i - 1] = r[m] /\ s[i] = Refused(q[i - 1], c)
        BY <3>3
      <4> QED
        BY <4>1
    <3> QED
      BY <3>1, <3>2, <3>3
  <2>4. q = s
    BY <2>3
  <2>5. Run(q, m + 1)
    BY <2>4
  <2> HIDE DEF q, s, Run
  <2> QED
    BY <2>5
<1>3. n \in T
  <2> HIDE DEF T
  <2> QED
    BY <1>1, <1>2, NumbersInduction
<1> DEFINE r == CHOOSE r : Run(r, n)
<1>4. Run(r, n)
  BY <1>3
<1>5. RefusedTimes(wk, c, n) = r[n]
  BY DEF RefusedTimes
<1> HIDE DEF r
<1>6. r[0] = wk /\ \A i \in 1..n : r[i] = Refused(r[i - 1], c)
  BY <1>4
<1> QED
  BY <1>5, <1>6

-----------------------------------------------------------------------------
(* Sessions leave the worker's place in its loop and its part of the mutex *)
(* alone: every operator on connections changes the pool only.             *)

Fields == {"pc", "held", "listening", "disabled", "post", "soon", "timer",
           "batch", "posted", "cur", "k", "ret", "free", "inst", "taken", "conn"}

SameControl(v, wk) ==
    /\ DOMAIN v = Fields
    /\ v.pc = wk.pc /\ v.ret = wk.ret
    /\ v.held = wk.held /\ v.listening = wk.listening
    /\ v.post = wk.post /\ v.timer = wk.timer

\* Two changes of the pool in a row are one.
LEMMA SameTransitive ==
    ASSUME NEW u, NEW v, NEW wk, SameControl(u, v), SameControl(v, wk)
    PROVE  SameControl(u, wk)
BY DEF SameControl

\* ngx_get_connection(), ngx_close_connection() and the accept handler's own
\* way of closing touch the pool only.
LEMMA PoolControl ==
    ASSUME NEW wk, NEW c, NEW use, DOMAIN wk = Fields
    PROVE  /\ SameControl(GetConnection(wk, use), wk)
           /\ SameControl(CloseConnection(wk, c), wk)
           /\ SameControl(CloseAcceptedConnection(wk, c), wk)
           /\ SameControl(CleanupAll(wk, c), wk)
<1>1. SameControl(GetConnection(wk, use), wk)
  BY DEF SameControl, Fields, GetConnection
<1>2. SameControl(CloseConnection(wk, c), wk)
  BY DEF SameControl, Fields, CloseConnection, FreeConnection
<1>3. SameControl(CloseAcceptedConnection(wk, c), wk)
  BY DEF SameControl, Fields, CloseAcceptedConnection, FreeConnection
<1>4. SameControl(CleanupAll(wk, c), wk)
  BY DEF SameControl, Fields, CleanupAll
<1> QED
  BY <1>1, <1>2, <1>3, <1>4

\* So does the end of a session, which closes both its connections.
LEMMA CloseSessionControl ==
    ASSUME NEW wk, NEW c, DOMAIN wk = Fields
    PROVE  SameControl(CloseSession(wk, c), wk)
<1> DEFINE u == wk.conn[c].peer
           v == IF u = 0 THEN wk ELSE CloseConnection(wk, u)
<1>1. SameControl(v, wk)
  BY PoolControl DEF SameControl
<1>2. SameControl(CloseConnection(v, c), v)
  BY <1>1, PoolControl DEF SameControl
<1> QED
  BY <1>1, <1>2, SameTransitive DEF CloseSession

\* So does one refusal, and a run of them.
LEMMA TriesControl ==
    ASSUME NEW wk, NEW c, DOMAIN wk = Fields
    PROVE  \A v \in Tries(wk, c) : SameControl(v, wk)
<1>1. ASSUME NEW u, SameControl(u, wk) PROVE SameControl(Refused(u, c), wk)
  <2> DEFINE g == GetConnection(u, "upstream")
             v == CloseConnection(g, Head(u.free))
  <2>1. SameControl(g, u)
    BY <1>1, PoolControl DEF SameControl
  <2>2. SameControl(v, g)
    BY <2>1, PoolControl DEF SameControl
  <2> HIDE DEF g, v
  <2>3. SameControl(v, wk)
    BY <1>1, <2>1, <2>2, SameTransitive
  <2>4. SameControl([v EXCEPT !.conn[c].tries = @ - 1], wk)
    BY <2>3 DEF SameControl, Fields
  <2> QED
    BY <2>4 DEF Refused, g, v
<1>2. ASSUME NEW n \in Nat PROVE SameControl(RefusedTimes(wk, c, n), wk)
  <2>1. PICK r : /\ r[0] = wk
                 /\ \A i \in 1..n : r[i] = Refused(r[i - 1], c)
                 /\ RefusedTimes(wk, c, n) = r[n]
    BY RefusedRun
  <2> DEFINE T == {i \in Nat : i <= n => SameControl(r[i], wk)}
  <2>2. 0 \in T
    BY <2>1 DEF SameControl
  <2>3. ASSUME NEW i \in Nat, i \in T PROVE i + 1 \in T
    <3>1. CASE i + 1 <= n
      <4>1. i + 1 \in 1..n /\ (i + 1) - 1 = i /\ SameControl(r[i], wk)
        BY <2>3, <3>1
      <4>2. r[i + 1] = Refused(r[i], c)
        BY <2>1, <4>1
      <4> QED
        BY <1>1, <4>1, <4>2
    <3>2. CASE ~(i + 1 <= n)
      BY <3>2
    <3> QED
      BY <3>1, <3>2
  <2>4. n \in T
    <3> HIDE DEF T
    <3> QED
      BY <2>2, <2>3, NumbersInduction
  <2> QED
    BY <2>1, <2>4
<1>3. ASSUME NEW v \in Tries(wk, c) PROVE SameControl(v, wk)
  <2>1. wk.free = <<>> => v = RefusedTimes(wk, c, 0)
    BY <1>3 DEF Tries
  <2>2. wk.free # <<>> => \E n \in 0..wk.conn[c].tries : v = RefusedTimes(wk, c, n)
    BY <1>3 DEF Tries
  <2>3. \A n \in 0..wk.conn[c].tries : n \in Nat
    OBVIOUS
  <2> QED
    BY <1>2, <2>1, <2>2, <2>3
<1> QED
  BY <1>3

\* So do attempts to connect, whatever comes of them.
LEMMA ConnectsControl ==
    ASSUME NEW wk, NEW c, DOMAIN wk = Fields
    PROVE  \A v \in Connects(wk, c) : SameControl(v, wk)
<1> DEFINE tries == Tries(wk, c)
<1>2. \A u \in tries : SameControl(u, wk)
  BY TriesControl
<1> HIDE DEF tries
<1>3. ASSUME NEW u \in tries PROVE SameControl(CloseSession(u, c), wk)
  <2>1. DOMAIN u = Fields /\ SameControl(u, wk)
    BY <1>2 DEF SameControl
  <2>2. SameControl(CloseSession(u, c), u)
    BY <2>1, CloseSessionControl
  <2> QED
    BY <2>1, <2>2, SameTransitive
<1>4. ASSUME NEW u, SameControl(u, wk), NEW b
      PROVE  SameControl(Connecting(u, c, b), wk)
  <2> DEFINE h == Head(u.free)
             v == GetConnection(u, "upstream")
  <2>1. DOMAIN u = Fields
    BY <1>4 DEF SameControl
  <2>2. SameControl(v, u)
    BY <2>1, PoolControl
  <2> HIDE DEF v
  <2>3. SameControl(v, wk)
    BY <1>4, <2>2, SameTransitive
  <2>4. SameControl([v EXCEPT !.conn[h].peer = c, !.conn[h].active = TRUE,
                              !.conn[c].use = "client", !.conn[c].peer = h,
                              !.conn[c].active = b], wk)
    BY <2>3 DEF SameControl, Fields
  <2> QED
    BY <2>4 DEF Connecting, v
<1>5. ASSUME NEW v \in Connects(wk, c)
      PROVE  \/ \E u \in tries : v = CloseSession(u, c)
             \/ \E u \in tries : \E b \in BOOLEAN : v = Connecting(u, c, b)
  BY DEF Connects, tries
<1> QED
  BY <1>2, <1>3, <1>4, <1>5

\* So do the events and the timers of sessions.
LEMMA SessionControl ==
    ASSUME NEW wk, NEW c, DOMAIN wk = Fields
    PROVE  /\ \A v \in NextUpstream(wk, c) : SameControl(v, wk)
           /\ \A v \in Handled(wk, c) : SameControl(v, wk)
           /\ \A v \in TimedOut(wk, c) : SameControl(v, wk)
<1>1. ASSUME NEW d PROVE \A v \in NextUpstream(wk, d) : SameControl(v, wk)
  <2> DEFINE closed == CloseConnection(wk, wk.conn[d].peer)
             u == [closed EXCEPT !.conn[d].peer = 0, !.conn[d].tries = @ - 1]
  <2>1. SameControl(closed, wk)
    BY PoolControl
  <2> HIDE DEF closed
  <2>2. SameControl(u, wk)
    BY <2>1 DEF SameControl, Fields
  <2>3. NextUpstream(wk, d) = Connects(u, d)
    BY DEF NextUpstream, closed
  <2> HIDE DEF u
  <2>4. DOMAIN u = Fields
    BY <2>2 DEF SameControl
  <2>5. \A v \in Connects(u, d) : SameControl(v, u)
    BY <2>4, ConnectsControl
  <2> QED
    BY <2>2, <2>3, <2>5, SameTransitive
<1>2. ASSUME NEW d PROVE SameControl([wk EXCEPT !.conn[d].active = TRUE], wk)
  BY DEF SameControl, Fields
<1>3. SameControl(wk, wk)
  BY DEF SameControl
<1>4. \A v \in Handled(wk, c) : SameControl(v, wk)
  BY <1>1, <1>2, <1>3, CloseSessionControl DEF Handled
<1>5. \A v \in TimedOut(wk, c) : SameControl(v, wk)
  BY <1>1, CloseSessionControl DEF TimedOut
<1> QED
  BY <1>1, <1>4, <1>5

-----------------------------------------------------------------------------
(* HeldIffListening is not inductive: it is true of a worker that ends its *)
(* iteration while it owns the mutex, and false at the next trylock, which *)
(* would fail and disable its sockets.  HeldInv adds that the owner is in  *)
(* the part of the iteration between trylock and unlock.                   *)

Shape ==
    /\ conf \in Configurations
    /\ DOMAIN worker = Workers
    /\ \A w \in Workers : /\ DOMAIN worker[w] = Fields
                          /\ worker[w].held \in BOOLEAN
                          /\ worker[w].post \in BOOLEAN

WorkerInv(wk, owns) ==
    /\ wk.held = wk.listening
    /\ ~wk.timer
    /\ owns => wk.pc = "dead" \/ (wk.held /\ wk.post)
    /\ wk.post => \/ wk.pc = "poll" /\ owns
                  \/ wk.pc = "accept" /\ wk.ret = "unlock" /\ owns
                  \/ wk.pc = "unlock"

HeldInv ==
    /\ Shape
    /\ conf.mutex => \A w \in Workers : WorkerInv(worker[w], owner = w)

\* What every step of a worker w comes to: its new record keeps the invariant
\* with the new owner, and the mutex is taken free, given back, or left.
StepOK(w) ==
    /\ conf' = conf
    /\ DOMAIN worker' = Workers
    /\ \A u \in Workers \ {w} : worker'[u] = worker[u]
    /\ DOMAIN worker'[w] = Fields
    /\ worker'[w].held \in BOOLEAN /\ worker'[w].post \in BOOLEAN
    /\ conf.mutex => WorkerInv(worker'[w], owner' = w)
    /\ \/ owner' = owner
       \/ owner = 0 /\ owner' = w
       \/ owner = w /\ owner' = 0

\* Workers are numbered from 1, so no worker is called 0.
LEMMA WorkerNumbers == ASSUME conf \in Configurations PROVE 0 \notin Workers
BY AcceptAssumption DEF Workers

\* Such a step keeps the invariant of all workers.
LEMMA StepOKSuffices ==
    ASSUME HeldInv, NEW w \in Workers, StepOK(w) PROVE HeldInv'
<1> USE DEF HeldInv
<1>1. Workers' = Workers
  BY DEF StepOK, Workers
<1>2. Shape'
  BY <1>1 DEF Shape, StepOK
<1>3. \A u \in Workers \ {w} : (owner' = u) = (owner = u)
  BY WorkerNumbers DEF StepOK, Shape
<1>4. ASSUME conf.mutex, NEW u \in Workers PROVE WorkerInv(worker'[u], owner' = u)
  <2>1. CASE u = w
    BY <1>4, <2>1 DEF StepOK
  <2>2. CASE u # w
    BY <1>3, <1>4, <2>2 DEF StepOK
  <2> QED
    BY <2>1, <2>2
<1> QED
  BY <1>1, <1>2, <1>4 DEF StepOK

-----------------------------------------------------------------------------
(* One lemma for each action, or for actions that do the same to the       *)
(* worker's control.                                                       *)

\* A step is told by the worker's new record and the new owner.
LEMMA BecomeOK ==
    ASSUME HeldInv, NEW w \in Workers, NEW wk, Become(w, wk), conf' = conf,
           DOMAIN wk = Fields, wk.held \in BOOLEAN, wk.post \in BOOLEAN,
           conf.mutex => WorkerInv(wk, owner' = w),
           \/ owner' = owner
           \/ owner = 0 /\ owner' = w
           \/ owner = w /\ owner' = 0
    PROVE  StepOK(w)
<1>1. /\ DOMAIN worker' = Workers
      /\ worker'[w] = wk
      /\ \A u \in Workers \ {w} : worker'[u] = worker[u]
  BY DEF HeldInv, Shape, Become
<1> QED
  BY <1>1 DEF StepOK

\* What is known of a worker before its step.
LEMMA Before ==
    ASSUME HeldInv, NEW w \in Workers
    PROVE  /\ DOMAIN worker[w] = Fields
           /\ worker[w].held \in BOOLEAN /\ worker[w].post \in BOOLEAN
           /\ conf.mutex => WorkerInv(worker[w], owner = w)
           /\ w # 0
BY WorkerNumbers DEF HeldInv, Shape

\* trylock_accept_mutex(), or the iteration that skips it: a worker that
\* starts an iteration is not the owner.
LEMMA LockOK == ASSUME HeldInv, NEW w \in Workers, Lock(w) PROVE StepOK(w)
<1> DEFINE wk == [worker[w] EXCEPT !.pc = "poll", !.post = FALSE, !.soon = FALSE]
           tries == conf.mutex /\ wk.disabled = 0
           skip == [wk EXCEPT !.disabled = IF conf.mutex /\ @ > 0 THEN @ - 1 ELSE @]
<1>1. /\ DOMAIN wk = Fields /\ wk.pc = "poll" /\ wk.post = FALSE
      /\ wk.held = worker[w].held /\ wk.listening = worker[w].listening
      /\ wk.timer = worker[w].timer
  BY Before DEF Fields
<1>2. conf.mutex => /\ owner # w /\ wk.held = wk.listening /\ ~wk.timer
  BY <1>1, Before DEF WorkerInv, Lock
<1>3. worker[w].held \in BOOLEAN /\ w # 0
  BY Before
<1>4. /\ Become(w, IF ~tries THEN skip
                   ELSE IF owner = 0 THEN Locked(wk) ELSE NotLocked(wk))
      /\ owner' = IF tries /\ owner = 0 THEN w ELSE owner
      /\ conf' = conf
  BY DEF Lock
<1> HIDE DEF wk
<1>5. CASE ~tries
  <2>1. DOMAIN skip = Fields /\ SameControl(skip, wk)
    BY <1>1 DEF SameControl, Fields
  <2>2. conf.mutex => WorkerInv(skip, owner' = w)
    BY <1>1, <1>2, <1>4, <1>5, <2>1 DEF SameControl, WorkerInv
  <2> QED
    BY <1>1, <1>3, <1>4, <1>5, <2>1, <2>2, BecomeOK DEF SameControl
<1>6. CASE tries /\ owner = 0
  <2>1. /\ DOMAIN Locked(wk) = Fields /\ Locked(wk).pc = "poll"
        /\ Locked(wk).held = TRUE /\ Locked(wk).post = TRUE
        /\ Locked(wk).timer = wk.timer
        /\ Locked(wk).listening = IF wk.held THEN wk.listening ELSE TRUE
    BY <1>1 DEF Locked, Enable, Fields
  <2>2. WorkerInv(Locked(wk), owner' = w)
    BY <1>1, <1>2, <1>3, <1>4, <1>6, <2>1 DEF WorkerInv
  <2> QED
    BY <1>4, <1>6, <2>1, <2>2, BecomeOK
<1>7. CASE tries /\ owner # 0
  <2>1. /\ DOMAIN NotLocked(wk) = Fields /\ NotLocked(wk).pc = "poll"
        /\ NotLocked(wk).held = FALSE /\ NotLocked(wk).post = FALSE
        /\ NotLocked(wk).timer = wk.timer
        /\ NotLocked(wk).listening = IF wk.held THEN FALSE ELSE wk.listening
    BY <1>1 DEF NotLocked, Disable, Fields
  <2>2. WorkerInv(NotLocked(wk), owner' = w)
    BY <1>1, <1>2, <1>3, <1>4, <1>7, <2>1 DEF WorkerInv
  <2> QED
    BY <1>4, <1>7, <2>1, <2>2, BecomeOK
<1> QED
  BY <1>5, <1>6, <1>7

\* A living worker without NGX_POST_EVENTS is not the owner, so a step that
\* leaves the flag, the sockets and the mutex alone is harmless.
LEMMA QuietOK ==
    ASSUME HeldInv, NEW w \in Workers, NEW wk, Become(w, wk),
           conf' = conf, owner' = owner, worker[w].pc # "dead",
           conf.mutex => ~worker[w].post,
           DOMAIN wk = Fields, wk.post = worker[w].post, wk.timer = worker[w].timer,
           wk.held = worker[w].held, wk.listening = worker[w].listening
    PROVE  StepOK(w)
<1>1. conf.mutex => WorkerInv(wk, owner' = w)
  BY Before DEF WorkerInv
<1> QED
  BY <1>1, Before, BecomeOK

\* The same for the accept handler, which may run with the events posted: it
\* goes on, or returns to unlock the mutex.
LEMMA HandlerOK ==
    ASSUME HeldInv, NEW w \in Workers, NEW wk, Become(w, wk),
           conf' = conf, owner' = owner, worker[w].pc = "accept",
           DOMAIN wk = Fields, wk.post = worker[w].post, wk.timer = worker[w].timer,
           wk.held = worker[w].held, wk.listening = worker[w].listening,
           \/ wk.pc = "accept" /\ wk.ret = worker[w].ret
           \/ wk.pc = worker[w].ret
           \/ ~conf.mutex
    PROVE  StepOK(w)
<1>1. conf.mutex => WorkerInv(wk, owner' = w)
  BY Before DEF WorkerInv
<1> QED
  BY <1>1, Before, BecomeOK

\* epoll_wait(): events are posted only by the owner, which then accepts or
\* goes to unlock.
LEMMA PollOK == ASSUME HeldInv, NEW w \in Workers, Poll(w) PROVE StepOK(w)
<1> DEFINE wk == [worker[w] EXCEPT !.taken = [c \in Connections |-> 0]]
           queued(q) == [wk EXCEPT !.posted = q, !.ret = "unlock",
                                   !.pc = IF Waiting(wk) THEN "accept" ELSE "unlock"]
           batch(b) == [wk EXCEPT !.pc = "batch", !.batch = b]
<1>1. SameControl(wk, worker[w]) /\ wk.pc = "poll"
  BY Before DEF SameControl, Fields, Poll
<1> HIDE DEF wk
<1>2. conf' = conf /\ owner' = owner
  BY DEF Poll
<1>3. \/ wk.post /\ \E q : Become(w, queued(q))
      \/ ~wk.post /\ \E b : Become(w, batch(b))
  <2>1. PICK ready \in SUBSET Active(wk) :
           IF wk.post
           THEN \E q \in SetToSeqs(ready) : Become(w, queued(q))
           ELSE Become(w, batch({[c |-> c, inst |-> wk.inst[c]] : c \in ready}
                                   \cup (IF Waiting(wk)
                                         THEN {[c |-> 0, inst |-> 0]} ELSE {})))
    BY DEF Poll, wk
  <2> HIDE DEF queued, batch
  <2> QED
    BY <2>1
<1>4. ASSUME NEW q, wk.post, Become(w, queued(q)) PROVE StepOK(w)
  <2>1. /\ DOMAIN queued(q) = Fields /\ queued(q).post = wk.post
        /\ queued(q).timer = wk.timer /\ queued(q).held = wk.held
        /\ queued(q).listening = wk.listening /\ queued(q).ret = "unlock"
        /\ queued(q).pc \in {"accept", "unlock"}
    BY <1>1 DEF SameControl, Fields
  <2>2. conf.mutex => WorkerInv(queued(q), owner' = w)
    BY <1>1, <1>2, <1>4, <2>1, Before DEF SameControl, WorkerInv
  <2> QED
    BY <1>1, <1>2, <1>4, <2>1, <2>2, Before, BecomeOK DEF SameControl
<1>5. ASSUME NEW b, ~wk.post, Become(w, batch(b)) PROVE StepOK(w)
  <2>1. /\ DOMAIN batch(b) = Fields /\ batch(b).post = wk.post
        /\ batch(b).timer = wk.timer /\ batch(b).held = wk.held
        /\ batch(b).listening = wk.listening
    BY <1>1 DEF SameControl, Fields
  <2> QED
    BY <1>1, <1>2, <1>5, <2>1, QuietOK DEF SameControl
<1> QED
  BY <1>3, <1>4, <1>5

\* Events are delivered to sessions, or the accept handler is entered, only
\* where nothing is posted.
LEMMA DispatchOK == ASSUME HeldInv, NEW w \in Workers, Dispatch(w) PROVE StepOK(w)
<1>1. PICK e \in worker[w].batch :
         LET wk == [worker[w] EXCEPT !.batch = @ \ {e}, !.ret = "batch"]
         IN IF e.c = 0
            THEN /\ Become(w, IF wk.listening THEN [wk EXCEPT !.pc = "accept"]
                                              ELSE wk)
                 /\ UNCHANGED <<zones, lost>>
            ELSE \E v \in IF Passes(wk, e) THEN Handled(wk, e.c) ELSE {wk} :
                    Session(w, wk, v)
  BY DEF Dispatch
<1> DEFINE wk == [worker[w] EXCEPT !.batch = @ \ {e}, !.ret = "batch"]
<1>2. /\ DOMAIN wk = Fields /\ wk.post = worker[w].post
      /\ wk.timer = worker[w].timer /\ wk.held = worker[w].held
      /\ wk.listening = worker[w].listening
  BY Before DEF Fields
<1>3. /\ conf' = conf /\ owner' = owner /\ worker[w].pc = "batch"
      /\ conf.mutex => ~worker[w].post
  BY Before DEF Dispatch, WorkerInv
<1> HIDE DEF wk
<1>4. CASE e.c = 0 /\ wk.listening
  <2>1. Become(w, [wk EXCEPT !.pc = "accept"])
    BY <1>1, <1>4 DEF wk
  <2> QED
    BY <1>2, <1>3, <2>1, QuietOK DEF Fields
<1>5. CASE e.c = 0 /\ ~wk.listening
  <2>1. Become(w, wk)
    BY <1>1, <1>5 DEF wk
  <2> QED
    BY <1>2, <1>3, <2>1, QuietOK
<1>6. CASE e.c # 0
  <2>1. PICK v \in IF Passes(wk, e) THEN Handled(wk, e.c) ELSE {wk} : Become(w, v)
    BY <1>1, <1>6 DEF wk, Session
  <2>2. SameControl(v, wk)
    BY <1>2, <2>1, SessionControl DEF SameControl
  <2> QED
    BY <1>2, <1>3, <2>1, <2>2, QuietOK DEF SameControl
<1> QED
  BY <1>4, <1>5, <1>6

\* ngx_shmtx_unlock() after the accept handler: the owner gives the mutex back.
LEMMA UnlockOK == ASSUME HeldInv, NEW w \in Workers, Unlock(w) PROVE StepOK(w)
<1> DEFINE wk == [worker[w] EXCEPT !.pc = "timers", !.post = FALSE, !.ret = "timers"]
<1>1. /\ DOMAIN wk = Fields /\ wk.post = FALSE /\ wk.pc = "timers"
      /\ wk.timer = worker[w].timer /\ wk.held = worker[w].held
      /\ wk.listening = worker[w].listening
  BY Before DEF Fields
<1>2. /\ conf' = conf /\ Become(w, wk) /\ worker[w].pc # "dead"
      /\ owner' = IF worker[w].held THEN Unlocked(w) ELSE owner
  BY DEF Unlock
<1> HIDE DEF wk
<1>3. conf.mutex => owner' # w
  BY <1>2, Before DEF WorkerInv, Unlocked
<1>4. conf.mutex => WorkerInv(wk, owner' = w)
  BY <1>1, <1>3, Before DEF WorkerInv
<1> QED
  BY <1>1, <1>2, <1>4, Before, BecomeOK DEF Unlocked

\* Expired timers of sessions, and the end of the timers.
LEMMA TimersOK ==
    ASSUME HeldInv, NEW w \in Workers, Expire(w) \/ TimersDone(w) PROVE StepOK(w)
<1>1. /\ conf' = conf /\ owner' = owner /\ worker[w].pc = "timers"
      /\ conf.mutex => ~worker[w].post
  BY Before DEF Expire, TimersDone, WorkerInv
<1>2. CASE Expire(w)
  <2>1. PICK c \in Clients(worker[w]) :
           \E v \in TimedOut(worker[w], c) : Become(w, v)
    BY <1>2 DEF Expire, Session
  <2>2. PICK v \in TimedOut(worker[w], c) : Become(w, v)
    BY <2>1
  <2>3. SameControl(v, worker[w])
    BY <2>2, Before, SessionControl
  <2> QED
    BY <1>1, <2>2, <2>3, QuietOK DEF SameControl
<1>3. CASE TimersDone(w)
  <2> DEFINE wk == [worker[w] EXCEPT !.pc = "posted", !.ret = "posted"]
  <2>1. Become(w, wk)
    BY <1>3 DEF TimersDone
  <2>2. /\ DOMAIN wk = Fields /\ wk.post = worker[w].post
        /\ wk.timer = worker[w].timer /\ wk.held = worker[w].held
        /\ wk.listening = worker[w].listening
    BY Before DEF Fields
  <2> HIDE DEF wk
  <2> QED
    BY <1>1, <2>1, <2>2, QuietOK
<1> QED
  BY <1>2, <1>3

\* The accept event's timer is set without the mutex only.
LEMMA AcceptTimerOK == ASSUME HeldInv, NEW w \in Workers, AcceptTimer(w) PROVE StepOK(w)
<1> DEFINE wk == [Enable(worker[w]) EXCEPT !.timer = FALSE, !.pc = "accept"]
<1>1. DOMAIN wk = Fields /\ wk.post = worker[w].post /\ wk.held = worker[w].held
  BY Before DEF Fields, Enable
<1>2. ~conf.mutex /\ conf' = conf /\ owner' = owner /\ Become(w, wk)
  BY Before DEF AcceptTimer, WorkerInv
<1> HIDE DEF wk
<1> QED
  BY <1>1, <1>2, Before, BecomeOK

\* Posted events run after the mutex has been given back.
LEMMA PostedOK == ASSUME HeldInv, NEW w \in Workers, Posted(w) PROVE StepOK(w)
<1> DEFINE wk == [worker[w] EXCEPT !.posted = Tail(@)]
           c == Head(worker[w].posted)
<1>1. SameControl(wk, worker[w])
  BY Before DEF SameControl, Fields
<1>2. /\ conf' = conf /\ owner' = owner /\ worker[w].pc = "posted"
      /\ conf.mutex => ~worker[w].post
  BY Before DEF Posted, WorkerInv
<1>3. \/ Become(w, [wk EXCEPT !.pc = "start", !.cur = c, !.k = 0])
      \/ \E v \in Handled(wk, c) : Become(w, v)
  BY DEF Posted, Session
<1> HIDE DEF wk
<1>4. CASE Become(w, [wk EXCEPT !.pc = "start", !.cur = c, !.k = 0])
  BY <1>1, <1>2, <1>4, QuietOK DEF SameControl, Fields
<1>5. ASSUME NEW v \in Handled(wk, c), Become(w, v) PROVE StepOK(w)
  <2>1. SameControl(v, wk)
    BY <1>1, SessionControl DEF SameControl
  <2> QED
    BY <1>1, <1>2, <1>5, <2>1, QuietOK DEF SameControl
<1> QED
  BY <1>3, <1>4, <1>5

-----------------------------------------------------------------------------
(* The accept handler, the start of a session, and the world. *)

\* The ways out of a step of the accept handler change its position only.
LEMMA HandlerExits ==
    ASSUME NEW wk, DOMAIN wk = Fields, wk.pc = "accept"
    PROVE  \A v \in {Return(wk), Again(wk)} :
              /\ DOMAIN v = Fields /\ v.post = wk.post /\ v.timer = wk.timer
              /\ v.held = wk.held /\ v.listening = wk.listening
              /\ (v.pc = "accept" /\ v.ret = wk.ret) \/ v.pc = wk.ret
BY DEF Fields, Return, Again

\* Nobody waits, or the client has gone.
LEMMA NoClientOK ==
    ASSUME HeldInv, NEW w \in Workers, NobodyWaits(w) \/ Aborted(w)
    PROVE  StepOK(w)
<1>1. /\ conf' = conf /\ owner' = owner /\ worker[w].pc = "accept"
      /\ \E v \in {Return(worker[w]), Again(worker[w])} : Become(w, v)
  BY DEF NobodyWaits, Aborted
<1> QED
  BY <1>1, Before, HandlerExits, HandlerOK

\* EMFILE: the sockets are disabled, and the mutex is given back if owned.
LEMMA OutOfFilesOK == ASSUME HeldInv, NEW w \in Workers, OutOfFiles(w) PROVE StepOK(w)
<1> DEFINE u == NoFiles(worker[w])
           wk == Return(u)
<1>1. /\ DOMAIN u = Fields /\ u.post = worker[w].post /\ u.ret = worker[w].ret
      /\ u.held = IF conf.mutex THEN FALSE ELSE worker[w].held
      /\ u.listening = FALSE
      /\ conf.mutex => u.timer = worker[w].timer
  BY Before DEF Fields, NoFiles, Disable
<1> HIDE DEF u
<1>2. /\ DOMAIN wk = Fields /\ wk.post = u.post /\ wk.pc = u.ret
      /\ wk.held = u.held /\ wk.listening = u.listening /\ wk.timer = u.timer
  BY <1>1 DEF Fields, Return
<1>3. /\ conf' = conf /\ Become(w, wk) /\ worker[w].pc = "accept"
      /\ owner' = IF worker[w].held THEN Unlocked(w) ELSE owner
  BY DEF OutOfFiles, u
<1> HIDE DEF wk
<1>4. conf.mutex => owner' # w
  BY <1>3, Before DEF WorkerInv, Unlocked
<1>5. conf.mutex => WorkerInv(wk, owner' = w)
  BY <1>1, <1>2, <1>3, <1>4, Before DEF WorkerInv
<1> QED
  BY <1>1, <1>2, <1>3, <1>5, Before, BecomeOK DEF Unlocked

\* A client is accepted, dropped, or accepted and closed again.
LEMMA AcceptedOK == ASSUME HeldInv, NEW w \in Workers, Accepted(w) PROVE StepOK(w)
<1> DEFINE used == [worker[w] EXCEPT !.disabled =
                       IF Reserve > Len(worker[w].free)
                       THEN Reserve - Len(worker[w].free) ELSE 0]
           c == Head(used.free)
           wk == GetConnection(used, "new")
           closed == CloseAcceptedConnection(wk, c)
           posted == [wk EXCEPT !.posted = Append(@, c)]
           started == [wk EXCEPT !.pc = "start", !.cur = c, !.k = 0]
<1>1. SameControl(used, worker[w])
  BY Before DEF SameControl, Fields
<1>2. /\ conf' = conf /\ owner' = owner /\ worker[w].pc = "accept"
      /\ \/ Become(w, Return(used))
         \/ Become(w, Return(closed))
         \/ conf.mutex /\ Become(w, Again(posted))
         \/ ~conf.mutex /\ Become(w, started)
  BY DEF Accepted
<1> HIDE DEF used
<1>3. SameControl(wk, used)
  BY <1>1, PoolControl DEF SameControl
<1> HIDE DEF wk
<1>4. SameControl(wk, worker[w])
  BY <1>1, <1>3, SameTransitive
<1>5. SameControl(closed, wk)
  BY <1>4, PoolControl DEF SameControl
<1>6. SameControl(posted, wk)
  BY <1>4 DEF SameControl, Fields
<1>7. /\ DOMAIN started = Fields /\ started.post = wk.post
      /\ started.timer = wk.timer /\ started.held = wk.held
      /\ started.listening = wk.listening
  BY <1>4 DEF SameControl, Fields
<1> HIDE DEF closed, posted, started
<1>8. SameControl(closed, worker[w]) /\ SameControl(posted, worker[w])
  BY <1>4, <1>5, <1>6, SameTransitive
<1>9. ASSUME NEW u, SameControl(u, worker[w]),
             Become(w, Return(u)) \/ Become(w, Again(u))
      PROVE  StepOK(w)
  <2>1. PICK v \in {Return(u), Again(u)} : Become(w, v)
    BY <1>9
  <2>2. /\ DOMAIN v = Fields /\ v.post = u.post /\ v.timer = u.timer
        /\ v.held = u.held /\ v.listening = u.listening
        /\ (v.pc = "accept" /\ v.ret = u.ret) \/ v.pc = u.ret
    BY <1>2, <1>9, <2>1, HandlerExits DEF SameControl
  <2> QED
    BY <1>2, <1>9, <2>1, <2>2, HandlerOK DEF SameControl
<1>10. CASE ~conf.mutex /\ Become(w, started)
  BY <1>2, <1>4, <1>7, <1>10, HandlerOK DEF SameControl
<1> QED
  BY <1>1, <1>2, <1>8, <1>9, <1>10

\* A session's start returns to whoever started it.
LEMMA StartedExits ==
    ASSUME NEW wk, DOMAIN wk = Fields
    PROVE  /\ DOMAIN Started(wk) = Fields /\ Started(wk).post = wk.post
           /\ Started(wk).timer = wk.timer /\ Started(wk).held = wk.held
           /\ Started(wk).listening = wk.listening
BY DEF Fields, Started, Return, Again

\* Sessions are started by the accept handler without the mutex, or from the
\* posted queue after it was given back.
LEMMA StartOK ==
    ASSUME HeldInv, NEW w \in Workers, Pass(w) \/ Reject(w) \/ Leak(w) \/ Proxy(w)
    PROVE  StepOK(w)
<1> DEFINE wk == worker[w]
<1>1. /\ conf' = conf /\ owner' = owner /\ wk.pc = "start"
      /\ conf.mutex => ~wk.post
      /\ DOMAIN wk = Fields
  BY Before DEF Pass, Reject, Leak, Proxy, WorkerInv
<1>2. ASSUME NEW u, SameControl(u, wk), Become(w, Started(u)) PROVE StepOK(w)
  <2>1. DOMAIN u = Fields
    BY <1>2 DEF SameControl
  <2> HIDE DEF wk
  <2> QED
    BY <1>1, <1>2, <2>1, StartedExits, QuietOK DEF SameControl, wk
<1>3. ASSUME NEW u, SameControl(u, wk), Become(w, u) PROVE StepOK(w)
  BY <1>1, <1>3, QuietOK DEF SameControl
<1>4. CASE Pass(w)
  <2> DEFINE z == wk.k + 1
             u == [wk EXCEPT !.k = z, !.conn[wk.cur].cleanup = <<z>> \o @]
  <2>1. SameControl(u, wk)
    BY <1>1 DEF SameControl, Fields
  <2>2. Become(w, u)
    BY <1>4 DEF Pass
  <2> QED
    BY <1>3, <2>1, <2>2
<1>5. CASE Reject(w)
  <2> DEFINE v == CleanupAll(wk, wk.cur)
             passed == [v EXCEPT !.k = Len(conf.limits)]
             closed == CloseSession(v, wk.cur)
  <2>1. Become(w, passed) \/ Become(w, Started(closed))
    BY <1>5 DEF Reject
  <2>2. SameControl(v, wk)
    BY <1>1, PoolControl
  <2> HIDE DEF v
  <2>3. SameControl(passed, wk)
    BY <2>2 DEF SameControl, Fields
  <2>4. SameControl(closed, v)
    BY <2>2, CloseSessionControl DEF SameControl
  <2>5. SameControl(closed, wk)
    BY <2>2, <2>4, SameTransitive
  <2> HIDE DEF passed, closed
  <2> QED
    BY <1>2, <1>3, <2>1, <2>3, <2>5
<1>6. CASE Leak(w)
  <2>1. Become(w, Started(CloseSession(wk, wk.cur)))
    BY <1>6 DEF Leak
  <2>2. SameControl(CloseSession(wk, wk.cur), wk)
    BY <1>1, CloseSessionControl
  <2> QED
    BY <1>2, <2>1, <2>2
<1>7. CASE Proxy(w)
  <2> DEFINE u == [wk EXCEPT !.conn[wk.cur].tries = Peers]
  <2>1. PICK v \in Connects(u, wk.cur) : Become(w, Started(v))
    BY <1>7 DEF Proxy, Session
  <2>2. SameControl(u, wk)
    BY <1>1 DEF SameControl, Fields
  <2> HIDE DEF u
  <2>3. SameControl(v, u)
    BY <2>1, <2>2, ConnectsControl DEF SameControl
  <2>4. SameControl(v, wk)
    BY <2>2, <2>3, SameTransitive
  <2> QED
    BY <1>2, <2>1, <2>4
<1> QED
  BY <1>4, <1>5, <1>6, <1>7

\* A fresh worker does not own the mutex.
LEMMA FreshShape ==
    ASSUME NEW b \in BOOLEAN
    PROVE  /\ DOMAIN Fresh(b) = Fields
           /\ Fresh(b).pc = "posted" /\ Fresh(b).post = FALSE
           /\ Fresh(b).held = FALSE /\ Fresh(b).listening = b
           /\ Fresh(b).timer = FALSE
BY DEF Fresh, Fields

\* A worker dies, with or without the mutex.
LEMMA CrashOK == ASSUME HeldInv, NEW w \in Workers, Crash(w) PROVE StepOK(w)
<1> DEFINE wk == [Fresh(FALSE) EXCEPT !.pc = "dead"]
<1>1. /\ DOMAIN wk = Fields /\ wk.pc = "dead" /\ wk.post = FALSE
      /\ wk.held = FALSE /\ wk.listening = FALSE /\ wk.timer = FALSE
  BY FreshShape DEF Fields
<1>2. conf' = conf /\ owner' = owner /\ Become(w, wk)
  BY DEF Crash
<1> HIDE DEF wk
<1>3. WorkerInv(wk, owner' = w)
  BY <1>1 DEF WorkerInv
<1> QED
  BY <1>1, <1>2, <1>3, BecomeOK

\* The master unlocks the dead worker's mutex before it starts another.
LEMMA RespawnOK == ASSUME HeldInv, NEW w \in Workers, Respawn(w) PROVE StepOK(w)
<1> DEFINE wk == Fresh(~conf.mutex)
<1>1. /\ DOMAIN wk = Fields /\ wk.pc = "posted" /\ wk.post = FALSE
      /\ wk.held = FALSE /\ wk.listening = ~conf.mutex /\ wk.timer = FALSE
  BY FreshShape
<1>2. conf' = conf /\ owner' = Released(w) /\ Become(w, wk)
  BY DEF Respawn
<1>3. owner' # w
  BY <1>2, Before DEF Released
<1> HIDE DEF wk
<1>4. conf.mutex => WorkerInv(wk, owner' = w)
  BY <1>1, <1>3 DEF WorkerInv
<1> QED
  BY <1>1, <1>2, <1>4, BecomeOK DEF Released

-----------------------------------------------------------------------------
\* No worker owns the mutex at the start, and with it none listens.
LEMMA HeldInit == Init => HeldInv
<1> SUFFICES ASSUME Init PROVE HeldInv
  OBVIOUS
<1>1. /\ conf \in Configurations /\ owner = 0
      /\ worker = [w \in Workers |-> Fresh(~conf.mutex)]
  BY DEF Init
<1>2. 0 \notin Workers
  BY <1>1, WorkerNumbers
<1>3. Shape
  BY <1>1, FreshShape DEF Shape
<1>4. ASSUME conf.mutex, NEW w \in Workers PROVE WorkerInv(worker[w], owner = w)
  <2>1. worker[w] = Fresh(FALSE)
    BY <1>1, <1>4
  <2> QED
    BY <1>1, <1>2, <2>1, FreshShape DEF WorkerInv
<1> QED
  BY <1>3, <1>4 DEF HeldInv

\* Every step keeps it: a worker's by the lemmas above, the others change no
\* worker.
LEMMA HeldStep == HeldInv /\ [Next]_vars => HeldInv'
<1> SUFFICES ASSUME HeldInv, [Next]_vars PROVE HeldInv'
  OBVIOUS
<1>1. ASSUME NEW w \in Workers, Step(w) \/ Crash(w) \/ Respawn(w) PROVE HeldInv'
  <2>1. StepOK(w)
    BY <1>1, LockOK, PollOK, DispatchOK, UnlockOK, TimersOK, AcceptTimerOK, PostedOK,
       NoClientOK, OutOfFilesOK, AcceptedOK, StartOK, CrashOK, RespawnOK DEF Step
  <2> QED
    BY <2>1, StepOKSuffices
<1>2. CASE Arrive \/ UNCHANGED vars
  <2>1. UNCHANGED <<conf, worker, owner>>
    BY <1>2 DEF Arrive, vars
  <2> QED
    BY <2>1 DEF HeldInv, Shape, Workers
<1> QED
  BY <1>1, <1>2 DEF Next

\* The held flag of a living worker says whether its listening sockets are
\* registered, the mutex's owner has the flag, and whoever takes events of
\* the listening sockets as the owner is the owner: two workers never do so at once.
THEOREM HeldAlways == Spec => []HeldIffListening
<1>1. HeldInv => HeldIffListening
  <2> SUFFICES ASSUME HeldInv, conf.mutex, NEW w \in Workers
               PROVE  /\ Alive(w) => worker[w].held = worker[w].listening
                      /\ Alive(w) /\ owner = w => worker[w].held
                      /\ worker[w].post /\ worker[w].pc \in {"poll", "accept"}
                            => owner = w
    BY DEF HeldIffListening
  <2> QED
    BY Before DEF WorkerInv, Alive
<1> QED
  BY <1>1, HeldInit, HeldStep, PTL DEF Spec

-----------------------------------------------------------------------------
(* Lists of connections without repetition: the free list and the queue of *)
(* posted events.                                                          *)

List(l) == l \in Seq(Connections) /\ IsInjective(l)

\* A list and the set of its elements
LEMMA InList ==
    ASSUME NEW l, List(l)
    PROVE  /\ Len(l) \in Nat /\ DOMAIN l = 1..Len(l)
           /\ \A i \in 1..Len(l) : l[i] \in Connections
           /\ ToSet(l) \subseteq Connections
           /\ \A c : c \in ToSet(l) <=> \E i \in 1..Len(l) : l[i] = c
           /\ \A i, j \in 1..Len(l) : l[i] = l[j] => i = j
<1>1. Len(l) \in Nat /\ DOMAIN l = 1..Len(l) /\ l \in [1..Len(l) -> Connections]
  BY LenProperties DEF List
<1> QED
  BY <1>1 DEF List, ToSet, IsInjective

\* A connection put before a list that does not have it
LEMMA Pushed ==
    ASSUME NEW l, List(l), NEW c \in Connections, c \notin ToSet(l)
    PROVE  /\ List(<<c>> \o l) /\ ToSet(<<c>> \o l) = ToSet(l) \cup {c}
           /\ <<c>> \o l # <<>> /\ Head(<<c>> \o l) = c
<1> DEFINE r == <<c>> \o l
           n == Len(l)
<1>1. n \in Nat /\ DOMAIN l = 1..n /\ \A i \in 1..n : l[i] \in Connections
  BY InList
<1>2. <<c>> \in Seq(Connections) /\ Len(<<c>>) = 1 /\ <<c>>[1] = c
  OBVIOUS
<1>3. /\ r \in Seq(Connections) /\ Len(r) = n + 1 /\ DOMAIN r = 1..(n + 1)
      /\ \A k \in 1..(n + 1) : r[k] = IF k = 1 THEN c ELSE l[k - 1]
  BY <1>1, <1>2, ConcatProperties, LenProperties DEF List
<1> HIDE DEF r
<1>4. r # <<>> /\ Head(r) = r[1]
  <2>1. r # <<>>
    BY <1>1, <1>3, EmptySeq
  <2>2. 1 \in 1..Len(r) /\ Len(r) \in 1..Len(r) /\ SubSeq(r, 1, Len(r)) = r
    BY <1>1, <1>3, SubSeqFull
  <2>3. Head(SubSeq(r, 1, Len(r))) = r[1]
    BY <1>3, <2>2, HeadTailOfSubSeq
  <2>4. Head(r) = r[1]
    BY <2>2, <2>3, Zenon
  <2> QED
    BY <2>1, <2>4
<1>5. \A k \in 1..n : k + 1 \in 1..(n + 1) /\ r[k + 1] = l[k]
  BY <1>1, <1>3
<1>6. ToSet(r) = ToSet(l) \cup {c}
  <2>1. /\ ToSet(r) = {r[k] : k \in 1..(n + 1)} /\ ToSet(l) = {l[k] : k \in 1..n}
        /\ 1 \in 1..(n + 1) /\ r[1] = c
    BY <1>1, <1>3 DEF ToSet
  <2>2. ASSUME NEW k \in 1..(n + 1), k # 1
        PROVE  k - 1 \in 1..n /\ r[k] = l[k - 1]
    BY <1>1, <1>3, <2>2
  <2> HIDE DEF n
  <2> QED
    BY <1>5, <2>1, <2>2
<1>7. IsInjective(r)
  <2> SUFFICES ASSUME NEW a \in 1..(n + 1), NEW b \in 1..(n + 1), r[a] = r[b]
               PROVE  a = b
    BY <1>3 DEF IsInjective
  <2>1. \A i, j \in 1..n : l[i] = l[j] => i = j
    BY InList
  <2>2. \A i \in 1..n : l[i] # c
    BY InList
  <2>3. a # 1 => a - 1 \in 1..n /\ r[a] = l[a - 1]
    BY <1>1, <1>3
  <2>4. b # 1 => b - 1 \in 1..n /\ r[b] = l[b - 1]
    BY <1>1, <1>3
  <2>5. r[1] = c
    BY <1>1, <1>3
  <2> HIDE DEF n
  <2> QED
    BY <2>1, <2>2, <2>3, <2>4, <2>5
<1> QED
  BY <1>1, <1>3, <1>4, <1>6, <1>7 DEF List, r

\* The first of a list taken
LEMMA Popped ==
    ASSUME NEW l, List(l), l # <<>>
    PROVE  /\ Head(l) \in Connections /\ Head(l) \in ToSet(l)
           /\ List(Tail(l)) /\ ToSet(Tail(l)) = ToSet(l) \ {Head(l)}
<1> DEFINE t == Tail(l)
           n == Len(l)
<1>1. n \in Nat \ {0} /\ DOMAIN l = 1..n
  BY InList, EmptySeq DEF List
<1>2. /\ t \in Seq(Connections) /\ Len(t) = n - 1 /\ DOMAIN t = 1..(n - 1)
      /\ \A i \in 1..(n - 1) : t[i] = l[i + 1]
  BY <1>1, HeadTailProperties, LenProperties DEF List
<1>3. Head(l) = l[1] /\ l[1] \in Connections /\ l[1] \in ToSet(l)
  BY <1>1, InList
<1> HIDE DEF t, n
<1>4. /\ \A i \in 1..(n - 1) : i + 1 \in 1..n /\ i + 1 # 1
      /\ \A i \in 1..n : i # 1 => i - 1 \in 1..(n - 1) /\ (i - 1) + 1 = i
  BY <1>1
<1>5. \A i, j \in 1..n : l[i] = l[j] => i = j
  BY InList DEF n
<1>6. IsInjective(t)
  <2> SUFFICES ASSUME NEW a \in 1..(n - 1), NEW b \in 1..(n - 1), t[a] = t[b]
               PROVE  a = b
    BY <1>2 DEF IsInjective
  <2> QED
    BY <1>1, <1>2, <1>4, <1>5
<1>7. ToSet(t) = {t[i] : i \in 1..(n - 1)} /\ ToSet(l) = {l[i] : i \in 1..n}
  BY <1>1, <1>2 DEF ToSet
<1>8. ASSUME NEW c PROVE c \in ToSet(t) <=> c \in ToSet(l) /\ c # l[1]
  <2>1. ASSUME c \in ToSet(t) PROVE c \in ToSet(l) /\ c # l[1]
    <3>1. PICK i \in 1..(n - 1) : c = t[i]
      BY <1>7, <2>1
    <3>2. i + 1 \in 1..n /\ i + 1 # 1 /\ 1 \in 1..n /\ c = l[i + 1]
      BY <1>1, <1>2, <1>4, <3>1
    <3> QED
      BY <1>5, <1>7, <3>2
  <2>2. ASSUME c \in ToSet(l), c # l[1] PROVE c \in ToSet(t)
    <3>1. PICK i \in 1..n : c = l[i] /\ i # 1
      BY <1>7, <2>2
    <3>2. i - 1 \in 1..(n - 1) /\ t[i - 1] = c
      BY <1>2, <1>4, <3>1
    <3> QED
      BY <1>7, <3>2
  <2> QED
    BY <2>1, <2>2
<1> QED
  BY <1>2, <1>3, <1>6, <1>8 DEF List, t

\* A connection put behind a list that does not have it
LEMMA Appended ==
    ASSUME NEW l, List(l), NEW c \in Connections, c \notin ToSet(l)
    PROVE  List(Append(l, c)) /\ ToSet(Append(l, c)) = ToSet(l) \cup {c}
<1> DEFINE r == Append(l, c)
           n == Len(l)
<1>1. n \in Nat /\ DOMAIN l = 1..n
  BY InList
<1>2. /\ r \in Seq(Connections) /\ DOMAIN r = 1..(n + 1)
      /\ \A k \in 1..n : r[k] = l[k]
      /\ r[n + 1] = c
  BY <1>1, AppendProperties, LenProperties DEF List
<1> HIDE DEF r, n
<1>3. /\ \A k \in 1..n : k \in 1..(n + 1)
      /\ n + 1 \in 1..(n + 1)
      /\ \A k \in 1..(n + 1) : k \in 1..n \/ k = n + 1
  BY <1>1
<1>4. (\A i, j \in 1..n : l[i] = l[j] => i = j) /\ (\A i \in 1..n : l[i] # c)
  BY InList DEF n
<1>5. IsInjective(r)
  BY <1>2, <1>3, <1>4 DEF IsInjective
<1>6. ToSet(r) = ToSet(l) \cup {c}
  BY <1>1, <1>2, <1>3 DEF ToSet
<1> QED
  BY <1>2, <1>5, <1>6 DEF List, r

\* The elements of a sequence with one put before it
LEMMA ToSetOfCons ==
    ASSUME NEW S, NEW l \in Seq(S), NEW e \in S
    PROVE  /\ <<e>> \o l \in Seq(S) /\ ToSet(<<e>> \o l) = ToSet(l) \cup {e}
           /\ IsInjective(l) /\ e \notin ToSet(l) => IsInjective(<<e>> \o l)
<1> DEFINE r == <<e>> \o l
           n == Len(l)
<1>1. n \in Nat /\ DOMAIN l = 1..n
  BY LenProperties
<1>2. <<e>> \in Seq(S) /\ Len(<<e>>) = 1 /\ <<e>>[1] = e
  OBVIOUS
<1>3. /\ r \in Seq(S) /\ DOMAIN r = 1..(n + 1)
      /\ \A k \in 1..(n + 1) : r[k] = IF k = 1 THEN e ELSE l[k - 1]
  BY <1>1, <1>2, ConcatProperties, LenProperties
<1> HIDE DEF r, n
<1>4. \A k \in 1..n : k + 1 \in 1..(n + 1) /\ r[k + 1] = l[k]
  BY <1>1, <1>3
<1>5. \A k \in 1..(n + 1) : k # 1 => k - 1 \in 1..n /\ r[k] = l[k - 1]
  BY <1>1, <1>3
<1>6. /\ ToSet(r) = {r[k] : k \in 1..(n + 1)} /\ ToSet(l) = {l[k] : k \in 1..n}
      /\ 1 \in 1..(n + 1) /\ r[1] = e
  BY <1>1, <1>3 DEF ToSet
<1>7. ToSet(r) = ToSet(l) \cup {e}
  BY <1>4, <1>5, <1>6
<1>8. ASSUME IsInjective(l), e \notin ToSet(l) PROVE IsInjective(r)
  <2> SUFFICES ASSUME NEW a \in 1..(n + 1), NEW b \in 1..(n + 1), r[a] = r[b]
               PROVE  a = b
    BY <1>3 DEF IsInjective
  <2>1. \A i, j \in 1..n : l[i] = l[j] => i = j
    BY <1>1, <1>8 DEF IsInjective
  <2>2. \A i \in 1..n : l[i] # e
    BY <1>6, <1>8
  <2> QED
    BY <1>5, <1>6, <2>1, <2>2
<1> QED
  BY <1>3, <1>7, <1>8 DEF r

\* An element left out of a list, by its place
LEMMA Cut ==
    ASSUME NEW l, List(l), NEW i \in DOMAIN l
    PROVE  List(RemoveAt(l, i)) /\ ToSet(RemoveAt(l, i)) = ToSet(l) \ {l[i]}
<1> DEFINE r == RemoveAt(l, i)
           n == Len(l)
           a == SubSeq(l, 1, i - 1)
           b == SubSeq(l, i + 1, n)
<1>1. /\ n \in Nat /\ i \in 1..n /\ DOMAIN l = 1..n
      /\ \A k \in 1..n : l[k] \in Connections
  BY InList
<1>2. /\ a \in Seq(Connections) /\ Len(a) = i - 1
      /\ \A k \in 1..(i - 1) : a[k] = l[k]
  BY <1>1, SubSeqProperties
<1>3. /\ b \in Seq(Connections) /\ Len(b) = n - i
      /\ \A k \in 1..(n - i) : b[k] = l[k + i]
  BY <1>1, SubSeqProperties
<1>4. r = a \o b
  BY DEF RemoveAt
<1> HIDE DEF r, a, b, n
<1>5. /\ r \in Seq(Connections) /\ Len(r) = n - 1
      /\ \A k \in 1..(n - 1) : r[k] = IF k <= i - 1 THEN a[k] ELSE b[k - (i - 1)]
  BY <1>1, <1>2, <1>3, <1>4, ConcatProperties
<1>6. /\ DOMAIN r = 1..(n - 1)
      /\ \A k \in 1..(n - 1) : r[k] = IF k < i THEN l[k] ELSE l[k + 1]
  <2>1. DOMAIN r = 1..(n - 1)
    BY <1>5, LenProperties
  <2>2. ASSUME NEW k \in 1..(n - 1), k < i PROVE r[k] = l[k]
    BY <1>1, <1>2, <1>5, <2>2
  <2>3. ASSUME NEW k \in 1..(n - 1), ~(k < i) PROVE r[k] = l[k + 1]
    <3>1. k - (i - 1) \in 1..(n - i) /\ k - (i - 1) + i = k + 1
      BY <1>1, <2>3
    <3>2. r[k] = b[k - (i - 1)]
      BY <1>1, <1>5, <2>3
    <3> QED
      BY <1>3, <3>1, <3>2
  <2> QED
    BY <2>1, <2>2, <2>3
<1>7. \A x, y \in 1..n : l[x] = l[y] => x = y
  BY InList DEF n
<1>8. IsInjective(r)
  <2> SUFFICES ASSUME NEW x \in 1..(n - 1), NEW y \in 1..(n - 1), r[x] = r[y]
               PROVE  x = y
    BY <1>6 DEF IsInjective
  <2>1. x \in 1..n /\ y \in 1..n /\ x + 1 \in 1..n /\ y + 1 \in 1..n
    BY <1>1
  <2> QED
    BY <1>1, <1>6, <1>7, <2>1
<1>9. ASSUME NEW c PROVE c \in ToSet(r) <=> c \in ToSet(l) /\ c # l[i]
  <2>1. /\ c \in ToSet(r) <=> \E k \in 1..(n - 1) : r[k] = c
        /\ c \in ToSet(l) <=> \E k \in 1..n : l[k] = c
    BY <1>1, <1>6 DEF ToSet
  <2>2. ASSUME NEW k \in 1..(n - 1), r[k] = c PROVE c \in ToSet(l) /\ c # l[i]
    <3>1. PICK m \in 1..n : c = l[m] /\ m # i
      BY <1>1, <1>6, <2>2
    <3> QED
      BY <1>1, <1>7, <2>1, <3>1
  <2>3. ASSUME NEW k \in 1..n, l[k] = c, c # l[i] PROVE c \in ToSet(r)
    <3>1. CASE k < i
      BY <1>1, <1>6, <2>1, <2>3, <3>1
    <3>2. CASE k > i
      <4>1. k - 1 \in 1..(n - 1) /\ (k - 1) + 1 = k /\ ~(k - 1 < i)
        BY <1>1, <3>2
      <4> QED
        BY <1>6, <2>1, <2>3, <4>1
    <3> QED
      BY <1>1, <2>3, <3>1, <3>2
  <2> QED
    BY <2>1, <2>2, <2>3
<1> QED
  BY <1>5, <1>8, <1>9 DEF List, r

\* A connection taken out of a list, where it is in it
LEMMA Removed ==
    ASSUME NEW l, List(l), NEW c
    PROVE  List(RemoveFirst(l, c)) /\ ToSet(RemoveFirst(l, c)) = ToSet(l) \ {c}
<1>1. CASE \E i \in 1..Len(l) : l[i] = c
  <2> DEFINE I == {i \in 1..Len(l) : l[i] = c}
  <2>1. RemoveFirst(l, c) = RemoveAt(l, Min(I))
    BY <1>1 DEF RemoveFirst, SelectInSeq
  <2>2. PICK i \in 1..Len(l) : l[i] = c
    BY <1>1
  <2>3. I = {i}
    BY <2>2, InList
  <2>4. Min(I) = i
    <3>1. i <= i
      BY <2>2, InList
    <3> HIDE DEF I
    <3> QED
      BY <2>3, <3>1 DEF Min
  <2> HIDE DEF I
  <2> QED
    BY <2>1, <2>2, <2>4, InList, Cut
<1>2. CASE ~\E i \in 1..Len(l) : l[i] = c
  <2>1. RemoveFirst(l, c) = l
    BY <1>2 DEF RemoveFirst
  <2> QED
    BY <1>2, <2>1, InList
<1> QED
  BY <1>1, <1>2

-----------------------------------------------------------------------------
(* The pool of one worker.  PoolIntact speaks of handlers that have        *)
(* returned; inside one, some connections are in its hands: taken and not  *)
(* linked yet, or unlinked and not freed yet.  Pool(wk, D) is the          *)
(* invariant with the connections D in somebody's hands.                   *)

Uses == {"free", "new", "client", "upstream"}
ConnectionRecords ==
    [use : Uses, peer : 0..ConnectionN, active : BOOLEAN, tries : Int,
     cleanup : Seq(Nat)]

PoolType(wk) ==
    /\ DOMAIN wk = Fields
    /\ List(wk.free) /\ List(wk.posted)
    /\ wk.conn \in [Connections -> ConnectionRecords]
    /\ wk.inst \in [Connections -> {0, 1}]
    /\ wk.taken \in [Connections -> 0..3]

\* Only sessions have cleanups.
Tidy(wk, c) == wk.conn[c].use \in {"free", "upstream"} => wk.conn[c].cleanup = <<>>

Paired(wk, c, u, use) ==
    /\ u \in Connections
    /\ wk.conn[u].use = use
    /\ wk.conn[u].peer = c

Linked(wk, c) ==
    /\ wk.conn[c].use = "free" => wk.conn[c] = Unused
    /\ wk.conn[c].use = "new" => wk.conn[c].peer = 0 /\ ~wk.conn[c].active
    /\ wk.conn[c].use = "client" => Paired(wk, c, wk.conn[c].peer, "upstream")
    /\ wk.conn[c].use = "upstream" => Paired(wk, c, wk.conn[c].peer, "client")

Pool(wk, D) ==
    /\ PoolType(wk)
    /\ D \subseteq Connections
    /\ \A c \in Connections : c \in ToSet(wk.free) <=> wk.conn[c].use = "free"
    /\ \A c \in ToSet(wk.posted) : c \notin ToSet(wk.free)
    /\ \A c \in D : wk.conn[c].use # "free"
    /\ \A c \in Connections : Tidy(wk, c)
    /\ \A c \in Connections \ D : Linked(wk, c) /\ wk.conn[c].peer \notin D

\* The bit a connection's events had at the last epoll_wait(), told from the
\* bit they have now and the number of times the connection was taken since.
PhaseOf(wk, c) == IF wk.taken[c] \in {0, 2} THEN wk.inst[c] ELSE 1 - wk.inst[c]

Owned(wk, c) == wk.conn[c].use \in {"new", "client"}

\* What the operators on sessions leave alone.
Aside(v, wk) ==
    /\ v.batch = wk.batch /\ v.disabled = wk.disabled
    /\ v.cur = wk.cur /\ v.k = wk.k
    /\ \A c \in Connections : PhaseOf(v, c) = PhaseOf(wk, c)

SameSession(v, wk, c) ==
    /\ Owned(v, c) <=> Owned(wk, c)
    /\ v.conn[c].use = "new" => wk.conn[c].use = "new"
    /\ Owned(v, c) => v.conn[c].cleanup = wk.conn[c].cleanup

\* From wk to v no session ends and none is new ...
Steady(v, wk) == Aside(v, wk) /\ \A c \in Connections : SameSession(v, wk, c)

\* ... or session c ends.
Ends(v, wk, c) ==
    /\ Aside(v, wk)
    /\ \A d \in Connections \ {c} : SameSession(v, wk, d)
    /\ c \in Connections /\ Owned(wk, c) /\ v.conn[c].use = "free"

\* What is steady can be followed by an end, or by something steady.
LEMMA SteadyTransitive ==
    ASSUME NEW u, NEW v, NEW wk, Steady(v, wk)
    PROVE  /\ Steady(u, v) => Steady(u, wk)
           /\ \A c : Ends(u, v, c) => Ends(u, wk, c)
<1>1. Aside(u, v) => Aside(u, wk)
  BY DEF Steady, Aside
<1>2. \A c \in Connections : SameSession(v, wk, c)
  BY DEF Steady
<1>3. \A c \in Connections : SameSession(u, v, c) => SameSession(u, wk, c)
  BY <1>2 DEF SameSession
<1> QED
  BY <1>1, <1>2, <1>3 DEF Steady, Ends, SameSession

\* The record of a free connection, and of one just taken
LEMMA UnusedRecord ==
    /\ Unused \in ConnectionRecords /\ Unused.use = "free" /\ Unused.peer = 0
    /\ ~Unused.active /\ Unused.cleanup = <<>>
    /\ \A use \in Uses :
          LET r == [Unused EXCEPT !.use = use]
          IN /\ r \in ConnectionRecords /\ r.use = use /\ r.peer = 0
             /\ ~r.active /\ r.cleanup = <<>>
<1>1. <<>> \in Seq(Nat) /\ 0 \in 0..ConnectionN
  BY ConnectionAssumption DEF ConnectionAssumption
<1>2. /\ Unused \in ConnectionRecords /\ Unused.use = "free" /\ Unused.peer = 0
      /\ ~Unused.active /\ Unused.cleanup = <<>>
  BY <1>1 DEF Unused, ConnectionRecords, Uses
<1>3. ASSUME NEW use \in Uses
      PROVE  LET r == [Unused EXCEPT !.use = use]
             IN /\ r \in ConnectionRecords /\ r.use = use /\ r.peer = 0
                /\ ~r.active /\ r.cleanup = <<>>
  <2> DEFINE r == [Unused EXCEPT !.use = use]
  <2>1. r \in ConnectionRecords
    BY <1>2 DEF ConnectionRecords
  <2>2. /\ r.use = use /\ r.peer = Unused.peer /\ r.active = Unused.active
        /\ r.cleanup = Unused.cleanup
    BY <1>2 DEF ConnectionRecords
  <2> QED
    BY <1>2, <2>1, <2>2
<1> QED
  BY <1>2, <1>3

\* The type of one connection's record
LEMMA RecordFields ==
    ASSUME NEW wk, PoolType(wk), NEW c \in Connections
    PROVE  /\ wk.conn[c] \in ConnectionRecords
           /\ wk.conn[c].use \in Uses /\ wk.conn[c].peer \in 0..ConnectionN
           /\ wk.conn[c].active \in BOOLEAN /\ wk.conn[c].tries \in Int
           /\ wk.conn[c].cleanup \in Seq(Nat)
           /\ wk.inst[c] \in {0, 1} /\ wk.taken[c] \in 0..3
  BY DEF PoolType, ConnectionRecords

\* ngx_get_connection(): the connection taken is in the caller's hands.
LEMMA GetKeeps ==
    ASSUME NEW wk, NEW D, Pool(wk, D), wk.free # <<>>, NEW use \in {"new", "upstream"}
    PROVE  LET h == Head(wk.free)
               v == GetConnection(wk, use)
           IN /\ h \in Connections /\ h \notin D /\ wk.conn[h].use = "free"
              /\ Pool(v, D \cup {h}) /\ Aside(v, wk)
              /\ v.conn = [wk.conn EXCEPT ![h] = [Unused EXCEPT !.use = use]]
              /\ v.posted = wk.posted
<1> DEFINE h == Head(wk.free)
           v == GetConnection(wk, use)
           r == [Unused EXCEPT !.use = use]
<1>1. /\ PoolType(wk) /\ D \subseteq Connections
      /\ h \in Connections /\ h \in ToSet(wk.free) /\ List(Tail(wk.free))
      /\ ToSet(Tail(wk.free)) = ToSet(wk.free) \ {h}
      /\ wk.conn[h].use = "free" /\ h \notin D
  BY Popped DEF Pool, PoolType
<1>2. /\ r \in ConnectionRecords /\ r.use = use /\ r.peer = 0 /\ ~r.active
      /\ r.cleanup = <<>>
  BY UnusedRecord DEF Uses
<1>3. /\ DOMAIN v = Fields
      /\ v.free = Tail(wk.free) /\ v.posted = wk.posted
      /\ v.inst = [wk.inst EXCEPT ![h] = 1 - @]
      /\ v.taken = [wk.taken EXCEPT ![h] = IF @ = 3 THEN 2 ELSE @ + 1]
      /\ v.conn = [wk.conn EXCEPT ![h] = r]
      /\ v.batch = wk.batch /\ v.disabled = wk.disabled
      /\ v.cur = wk.cur /\ v.k = wk.k
  BY <1>1 DEF GetConnection, PoolType, Fields
<1> HIDE DEF h, v, r
<1>4. PoolType(v)
  <2>1. v.inst \in [Connections -> {0, 1}]
    BY <1>1, <1>3 DEF PoolType
  <2>2. v.taken \in [Connections -> 0..3]
    BY <1>1, <1>3 DEF PoolType
  <2> QED
    BY <1>1, <1>2, <1>3, <2>1, <2>2 DEF PoolType
<1>5. /\ v.conn[h] = r
      /\ \A c \in Connections : c # h => v.conn[c] = wk.conn[c]
      /\ \A c \in Connections : c # h => v.inst[c] = wk.inst[c] /\ v.taken[c] = wk.taken[c]
      /\ v.inst[h] = 1 - wk.inst[h]
      /\ v.taken[h] = IF wk.taken[h] = 3 THEN 2 ELSE wk.taken[h] + 1
  BY <1>1, <1>3 DEF PoolType
<1>6. Aside(v, wk)
  <2>1. PhaseOf(v, h) = PhaseOf(wk, h)
    <3>1. wk.inst[h] \in {0, 1} /\ wk.taken[h] \in 0..3
      BY <1>1, RecordFields
    <3> QED
      BY <1>5, <3>1 DEF PhaseOf
  <2> QED
    BY <1>3, <1>5, <2>1 DEF Aside, PhaseOf
<1>7. ASSUME NEW c \in Connections \ (D \cup {h})
      PROVE  Linked(v, c) /\ v.conn[c].peer \notin D \cup {h}
  <2>1. Linked(wk, c) /\ v.conn[c] = wk.conn[c] /\ wk.conn[c].peer \notin D
    BY <1>5, <1>7 DEF Pool
  <2>2. wk.conn[c].peer # h
    <3>1. wk.conn[c].use \in Uses
      BY <1>1, RecordFields
    <3>2. Unused.peer = 0 /\ 0 \notin Connections
      BY UnusedRecord DEF Connections
    <3> QED
      BY <1>1, <2>1, <3>1, <3>2 DEF Linked, Paired, Uses
  <2>3. wk.conn[c].peer \in Connections => v.conn[wk.conn[c].peer] = wk.conn[wk.conn[c].peer]
    BY <1>5, <2>2
  <2> QED
    BY <2>1, <2>2, <2>3 DEF Linked, Paired
<1>8. Pool(v, D \cup {h})
  <2>1. \A c \in Connections : c \in ToSet(v.free) <=> v.conn[c].use = "free"
    BY <1>1, <1>2, <1>3, <1>5 DEF Pool
  <2>2. \A c \in ToSet(v.posted) : c \notin ToSet(v.free)
    BY <1>1, <1>3 DEF Pool
  <2>3. \A c \in D \cup {h} : v.conn[c].use # "free"
    BY <1>1, <1>2, <1>5 DEF Pool
  <2>4. \A c \in Connections : Tidy(v, c)
    BY <1>2, <1>5 DEF Pool, Tidy
  <2> QED
    BY <1>1, <1>4, <1>7, <2>1, <2>2, <2>3, <2>4 DEF Pool
<1> QED
  BY <1>1, <1>3, <1>6, <1>8 DEF h, v, r

\* ngx_close_connection(): a connection in the caller's hands is free again,
\* and out of the posted queue.
LEMMA CloseKeeps ==
    ASSUME NEW wk, NEW D, Pool(wk, D), NEW c \in D
    PROVE  LET v == CloseConnection(wk, c)
           IN /\ Pool(v, D \ {c}) /\ Aside(v, wk) /\ v.free # <<>>
              /\ v.conn = [wk.conn EXCEPT ![c] = Unused]
<1> DEFINE v == CloseConnection(wk, c)
<1>1. /\ PoolType(wk) /\ D \subseteq Connections /\ c \in Connections
      /\ wk.conn[c].use # "free" /\ c \notin ToSet(wk.free)
  BY DEF Pool
<1>2. /\ DOMAIN v = Fields
      /\ v.free = <<c>> \o wk.free /\ v.posted = RemoveFirst(wk.posted, c)
      /\ v.inst = wk.inst /\ v.taken = wk.taken
      /\ v.conn = [wk.conn EXCEPT ![c] = Unused]
      /\ v.batch = wk.batch /\ v.disabled = wk.disabled
      /\ v.cur = wk.cur /\ v.k = wk.k
  BY <1>1 DEF CloseConnection, FreeConnection, PoolType, Fields
<1> HIDE DEF v
<1>3. /\ List(v.free) /\ ToSet(v.free) = ToSet(wk.free) \cup {c} /\ v.free # <<>>
      /\ List(v.posted) /\ ToSet(v.posted) = ToSet(wk.posted) \ {c}
  BY <1>1, <1>2, Pushed, Removed DEF PoolType
<1>4. PoolType(v)
  BY <1>1, <1>2, <1>3, UnusedRecord DEF PoolType
<1>5. v.conn[c] = Unused /\ \A d \in Connections : d # c => v.conn[d] = wk.conn[d]
  BY <1>1, <1>2 DEF PoolType
<1>6. Aside(v, wk)
  BY <1>2 DEF Aside, PhaseOf
<1>7. ASSUME NEW d \in Connections \ (D \ {c})
      PROVE  Linked(v, d) /\ v.conn[d].peer \notin D \ {c}
  <2>1. CASE d = c
    <3>1. 0 \notin Connections
      BY DEF Connections
    <3> QED
      BY <1>1, <1>5, <2>1, <3>1, UnusedRecord DEF Linked
  <2>2. CASE d # c
    <3>1. Linked(wk, d) /\ v.conn[d] = wk.conn[d] /\ wk.conn[d].peer \notin D
      BY <1>5, <2>2 DEF Pool
    <3>2. wk.conn[d].peer \in Connections => v.conn[wk.conn[d].peer] = wk.conn[wk.conn[d].peer]
      BY <1>5, <3>1
    <3> QED
      BY <3>1, <3>2 DEF Linked, Paired
  <2> QED
    BY <2>1, <2>2
<1>8. Pool(v, D \ {c})
  <2>1. \A d \in Connections : d \in ToSet(v.free) <=> v.conn[d].use = "free"
    BY <1>1, <1>3, <1>5, UnusedRecord DEF Pool
  <2>2. \A d \in ToSet(v.posted) : d \notin ToSet(v.free)
    BY <1>1, <1>3 DEF Pool
  <2>3. \A d \in D \ {c} : v.conn[d].use # "free"
    BY <1>1, <1>5 DEF Pool
  <2>4. \A d \in Connections : Tidy(v, d)
    BY <1>5, UnusedRecord DEF Pool, Tidy
  <2> QED
    BY <1>1, <1>4, <1>7, <2>1, <2>2, <2>3, <2>4 DEF Pool
<1> QED
  BY <1>2, <1>3, <1>6, <1>8 DEF v

\* ngx_close_accepted_connection(): nothing has been posted for it.
LEMMA CloseAcceptedKeeps ==
    ASSUME NEW wk, NEW D, Pool(wk, D), NEW c \in D, c \notin ToSet(wk.posted)
    PROVE  LET v == CloseAcceptedConnection(wk, c)
           IN /\ Pool(v, D \ {c}) /\ Aside(v, wk)
              /\ v.conn = [wk.conn EXCEPT ![c] = Unused]
<1> DEFINE v == CloseConnection(wk, c)
           x == CloseAcceptedConnection(wk, c)
<1>1. PoolType(wk) /\ DOMAIN wk = Fields /\ Len(wk.posted) \in Nat
  BY InList DEF Pool, PoolType
<1>2. RemoveFirst(wk.posted, c) = wk.posted
  BY <1>1, InList DEF RemoveFirst, PoolType
<1>3. /\ DOMAIN v = Fields /\ DOMAIN x = Fields
      /\ v.free = x.free /\ v.posted = x.posted
      /\ v.inst = x.inst /\ v.taken = x.taken /\ v.conn = x.conn
      /\ v.batch = x.batch /\ v.disabled = x.disabled
      /\ v.cur = x.cur /\ v.k = x.k
  BY <1>1, <1>2 DEF CloseConnection, CloseAcceptedConnection, FreeConnection, Fields
<1>4. /\ Pool(v, D \ {c}) /\ Aside(v, wk)
      /\ v.conn = [wk.conn EXCEPT ![c] = Unused]
  BY CloseKeeps
<1> HIDE DEF v, x
<1>5. Pool(x, D \ {c})
  BY <1>3, <1>4 DEF Pool, PoolType, Tidy, Linked, Paired
<1>6. Aside(x, wk)
  BY <1>3, <1>4 DEF Aside, PhaseOf
<1> QED
  BY <1>3, <1>4, <1>5, <1>6 DEF x

\* What else is done to a worker's record: the pool is as before, but for
\* connections in somebody's hands.
LEMMA UpdateKeeps ==
    ASSUME NEW wk, NEW D, Pool(wk, D), NEW v, DOMAIN v = Fields,
           v.free = wk.free, v.posted = wk.posted,
           v.inst = wk.inst, v.taken = wk.taken,
           v.conn \in [Connections -> ConnectionRecords],
           \A c \in D : v.conn[c].use # "free" /\ Tidy(v, c),
           \A c \in Connections \ D : v.conn[c] = wk.conn[c]
    PROVE  Pool(v, D)
<1>1. PoolType(v)
  BY DEF Pool, PoolType
<1>2. ASSUME NEW c \in Connections \ D
      PROVE  Linked(v, c) /\ v.conn[c].peer \notin D
  <2>1. Linked(wk, c) /\ wk.conn[c].peer \notin D
    BY DEF Pool
  <2>2. wk.conn[c].peer \in Connections => v.conn[wk.conn[c].peer] = wk.conn[wk.conn[c].peer]
    BY <2>1
  <2> QED
    BY <2>1, <2>2 DEF Linked, Paired
<1> QED
  BY <1>1, <1>2 DEF Pool, Tidy

\* A session is taken into somebody's hands, with its upstream's connection.
LEMMA Unlinked ==
    ASSUME NEW wk, Pool(wk, {}), NEW c \in Connections
    PROVE  /\ wk.conn[c].use = "client" =>
                 /\ Pool(wk, {c, wk.conn[c].peer}) /\ wk.conn[c].peer # c
                 /\ wk.conn[c].peer # 0 /\ wk.conn[c].peer \in Connections
                 /\ ~Owned(wk, wk.conn[c].peer)
           /\ wk.conn[c].use = "new" => Pool(wk, {c}) /\ wk.conn[c].peer = 0
<1>1. \A d \in Connections : Linked(wk, d) /\ wk.conn[d].use \in Uses
  BY RecordFields DEF Pool
<1>2. 0 \notin Connections /\ Unused.peer = 0
  BY UnusedRecord DEF Connections
<1>3. ASSUME wk.conn[c].use = "client"
      PROVE  /\ Pool(wk, {c, wk.conn[c].peer}) /\ wk.conn[c].peer # c
             /\ wk.conn[c].peer # 0 /\ wk.conn[c].peer \in Connections
             /\ ~Owned(wk, wk.conn[c].peer)
  <2> DEFINE u == wk.conn[c].peer
  <2>1. u \in Connections /\ wk.conn[u].use = "upstream" /\ wk.conn[u].peer = c /\ u # c
    BY <1>1, <1>3 DEF Linked, Paired
  <2>2. ASSUME NEW d \in Connections, d # c, d # u
        PROVE  wk.conn[d].peer # c /\ wk.conn[d].peer # u
    BY <1>1, <1>2, <1>3, <2>1, <2>2 DEF Linked, Paired, Uses
  <2> QED
    BY <1>2, <1>3, <2>1, <2>2 DEF Pool, Owned
<1>4. ASSUME wk.conn[c].use = "new"
      PROVE  Pool(wk, {c}) /\ wk.conn[c].peer = 0
  <2>1. ASSUME NEW d \in Connections, d # c
        PROVE  wk.conn[d].peer # c
    BY <1>1, <1>2, <1>4, <2>1 DEF Linked, Paired, Uses
  <2> QED
    BY <1>1, <1>4, <2>1 DEF Pool, Linked
<1> QED
  BY <1>3, <1>4

\* Connections that are linked are given back.
LEMMA Linking ==
    ASSUME NEW wk, NEW D, Pool(wk, D), \A c \in D : Linked(wk, c)
    PROVE  Pool(wk, {})
  BY DEF Pool

\* A session whose upstream connection, if it had one, is closed, and which
\* nobody else knows of.
InHand(wk, c) ==
    /\ c \in Connections
    /\ Pool(wk, {c})
    /\ Owned(wk, c)
    /\ wk.conn[c].peer = 0

\* Nothing changes.
LEMMA SteadyReflexive == ASSUME NEW wk PROVE Steady(wk, wk)
  BY DEF Steady, Aside, SameSession

Elsewhere(v, wk, c) == \A d \in Connections \ {c} : v.conn[d] = wk.conn[d]

\* A change of connections that no session owns, before and after, is steady.
LEMMA SteadyConnection ==
    ASSUME NEW v, NEW wk, Aside(v, wk), NEW c, Elsewhere(v, wk, c),
           ~Owned(v, c), ~Owned(wk, c)
    PROVE  Steady(v, wk)
  BY DEF Steady, SameSession, Owned, Elsewhere

\* The end of a session in hand
LEMMA InHandEnds ==
    ASSUME NEW wk, NEW c, InHand(wk, c)
    PROVE  /\ Pool(CloseSession(wk, c), {}) /\ Ends(CloseSession(wk, c), wk, c)
           /\ CloseSession(wk, c).conn[c] = Unused
<1> DEFINE v == CloseConnection(wk, c)
<1>1. CloseSession(wk, c) = v
  BY DEF CloseSession, InHand
<1>2. /\ Pool(v, {c} \ {c}) /\ Aside(v, wk)
      /\ v.conn = [wk.conn EXCEPT ![c] = Unused]
  BY CloseKeeps DEF InHand
<1>3. {c} \ {c} = {} /\ c \in Connections /\ Owned(wk, c)
      /\ wk.conn \in [Connections -> ConnectionRecords]
  BY DEF InHand, Pool, PoolType
<1> HIDE DEF v
<1>4. /\ v.conn[c] = Unused /\ \A d \in Connections \ {c} : v.conn[d] = wk.conn[d]
  BY <1>2, <1>3
<1>5. Ends(v, wk, c)
  BY <1>2, <1>3, <1>4, UnusedRecord DEF Ends, SameSession, Owned
<1>6. Pool(v, {})
  BY <1>2, <1>3
<1> QED
  BY <1>1, <1>4, <1>5, <1>6

\* The upstream connection of a client is closed, and the client is in hand.
LEMMA UpstreamClosed ==
    ASSUME NEW wk, Pool(wk, {}), NEW c \in Connections, wk.conn[c].use = "client"
    PROVE  LET v == CloseConnection(wk, wk.conn[c].peer)
           IN /\ Pool(v, {c}) /\ Steady(v, wk) /\ v.conn[c] = wk.conn[c]
              /\ v.free # <<>> /\ wk.conn[c].peer # 0
<1> DEFINE u == wk.conn[c].peer
           v == CloseConnection(wk, u)
<1>1. Pool(wk, {c, u}) /\ u # c /\ u # 0 /\ u \in Connections /\ ~Owned(wk, u)
  BY Unlinked
<1>2. wk.conn \in [Connections -> ConnectionRecords]
  BY DEF Pool, PoolType
<1> HIDE DEF u, v
<1>3. /\ Pool(v, {c, u} \ {u}) /\ Aside(v, wk) /\ v.free # <<>>
      /\ v.conn = [wk.conn EXCEPT ![u] = Unused]
  BY <1>1, CloseKeeps DEF v
<1>4. {c, u} \ {u} = {c}
  BY <1>1
<1>5. Pool(v, {c})
  BY <1>3, <1>4
<1>6. /\ v.conn[c] = wk.conn[c] /\ v.conn[u] = Unused
      /\ Elsewhere(v, wk, u)
  BY <1>1, <1>2, <1>3 DEF Elsewhere
<1>7. Steady(v, wk)
  <2>1. ~Owned(v, u)
    BY <1>6, UnusedRecord DEF Owned
  <2> QED
    BY <1>1, <1>3, <1>6, <2>1, SteadyConnection
<1> QED
  BY <1>1, <1>3, <1>5, <1>6, <1>7 DEF u, v

\* ngx_stream_finalize_session(): a session ends, and its upstream's connection
\* with it.
LEMMA CloseSessionKeeps ==
    ASSUME NEW wk, Pool(wk, {}), NEW c \in Connections, Owned(wk, c)
    PROVE  Pool(CloseSession(wk, c), {}) /\ Ends(CloseSession(wk, c), wk, c)
<1>1. CASE wk.conn[c].use = "new"
  <2>1. InHand(wk, c)
    BY <1>1, Unlinked DEF InHand
  <2> QED
    BY <2>1, InHandEnds
<1>2. CASE wk.conn[c].use = "client"
  <2> DEFINE v == CloseConnection(wk, wk.conn[c].peer)
             x == CloseConnection(v, c)
  <2>1. /\ Pool(v, {c}) /\ Steady(v, wk) /\ v.conn[c] = wk.conn[c]
        /\ wk.conn[c].peer # 0
    BY <1>2, UpstreamClosed
  <2>2. CloseSession(wk, c) = x
    BY <2>1 DEF CloseSession
  <2> HIDE DEF v
  <2>3. /\ Pool(x, {c} \ {c}) /\ Aside(x, v)
        /\ x.conn = [v.conn EXCEPT ![c] = Unused]
    BY <2>1, CloseKeeps
  <2>4. {c} \ {c} = {} /\ v.conn \in [Connections -> ConnectionRecords]
    BY <2>1 DEF Pool, PoolType
  <2> HIDE DEF x
  <2>5. x.conn[c] = Unused /\ \A d \in Connections \ {c} : x.conn[d] = v.conn[d]
    BY <2>3, <2>4
  <2>6. Owned(v, c)
    BY <2>1 DEF Owned
  <2>7. Ends(x, v, c)
    BY <2>3, <2>5, <2>6, UnusedRecord DEF Ends, SameSession, Owned
  <2>8. Pool(x, {})
    BY <2>3, <2>4
  <2> QED
    BY <2>1, <2>2, <2>7, <2>8, SteadyTransitive
<1> QED
  BY <1>1, <1>2 DEF Owned

OnlyConn(v, wk) ==
    /\ DOMAIN v = Fields /\ v.free = wk.free /\ v.posted = wk.posted
    /\ v.inst = wk.inst /\ v.taken = wk.taken /\ v.batch = wk.batch
    /\ v.disabled = wk.disabled /\ v.cur = wk.cur /\ v.k = wk.k

Rewritten(v, wk, c, r) ==
    /\ OnlyConn(v, wk)
    /\ r \in ConnectionRecords
    /\ v.conn = [wk.conn EXCEPT ![c] = r]
    /\ r.use \in {"new", "client"}
    /\ r.use = "new" => wk.conn[c].use = "new"
    /\ r.cleanup = wk.conn[c].cleanup

\* A change of the record of a session in hand that keeps its cleanups
LEMMA InHandUpdate ==
    ASSUME NEW wk, NEW c, Pool(wk, {c}), Owned(wk, c), NEW v, NEW r, Rewritten(v, wk, c, r)
    PROVE  Pool(v, {c}) /\ Steady(v, wk) /\ v.conn[c] = r
<1>1. c \in Connections /\ wk.conn \in [Connections -> ConnectionRecords]
  BY DEF Pool, PoolType
<1>2. /\ v.conn \in [Connections -> ConnectionRecords] /\ v.conn[c] = r
      /\ \A d \in Connections \ {c} : v.conn[d] = wk.conn[d]
  BY <1>1 DEF Rewritten
<1>3. Pool(v, {c})
  BY <1>2, UpdateKeeps DEF Tidy, Rewritten, OnlyConn
<1>4. Steady(v, wk)
  BY <1>2 DEF Rewritten, OnlyConn, Steady, Aside, PhaseOf, SameSession, Owned
<1> QED
  BY <1>2, <1>3, <1>4

\* A refusal takes a connection and frees it.
LEMMA RefusedKeeps ==
    ASSUME NEW wk, NEW c, InHand(wk, c), wk.free # <<>>
    PROVE  LET v == Refused(wk, c)
           IN /\ InHand(v, c) /\ v.free # <<>> /\ Steady(v, wk)
              /\ v.conn[c].use = wk.conn[c].use
<1> DEFINE h == Head(wk.free)
           g == GetConnection(wk, "upstream")
           u == CloseConnection(g, h)
           r == [u.conn[c] EXCEPT !.tries = @ - 1]
           v == [u EXCEPT !.conn[c].tries = @ - 1]
<1>1. Pool(wk, {c}) /\ c \in Connections /\ wk.conn \in [Connections -> ConnectionRecords]
  BY DEF InHand, Pool, PoolType
<1>2. /\ h \in Connections /\ h \notin {c} /\ wk.conn[h].use = "free"
      /\ Pool(g, {c} \cup {h}) /\ Aside(g, wk)
      /\ g.conn = [wk.conn EXCEPT ![h] = [Unused EXCEPT !.use = "upstream"]]
  BY <1>1, GetKeeps
<1> HIDE DEF g, h
<1>3. /\ Pool(u, ({c} \cup {h}) \ {h}) /\ Aside(u, g) /\ u.free # <<>>
      /\ u.conn = [g.conn EXCEPT ![h] = Unused]
  BY <1>2, CloseKeeps
<1>4. ({c} \cup {h}) \ {h} = {c}
  BY <1>2
<1> HIDE DEF u
<1>5. Pool(u, {c})
  BY <1>3, <1>4
<1>6. /\ u.conn[h] = Unused /\ h # c /\ ~Owned(wk, h) /\ u.conn[c] = wk.conn[c]
      /\ Elsewhere(u, wk, h)
  BY <1>1, <1>2, <1>3 DEF Owned, Elsewhere
<1>7. Aside(u, wk)
  BY <1>2, <1>3 DEF Aside
<1>8. Steady(u, wk)
  <2>1. ~Owned(u, h)
    BY <1>6, UnusedRecord DEF Owned
  <2> QED
    BY <1>6, <1>7, <2>1, SteadyConnection
<1>9. Owned(u, c) /\ u.conn[c] = wk.conn[c] /\ u.conn[c].peer = 0
  BY <1>1, <1>6 DEF InHand, Owned
<1>10. /\ r \in ConnectionRecords /\ r.use = u.conn[c].use /\ r.peer = 0
       /\ r.cleanup = u.conn[c].cleanup
  <2>1. u.conn[c] \in ConnectionRecords
    BY <1>1, <1>5 DEF Pool, PoolType
  <2>2. u.conn[c].tries - 1 \in Int
    BY <2>1 DEF ConnectionRecords
  <2> QED
    BY <1>9, <2>1, <2>2 DEF ConnectionRecords
<1>11. OnlyConn(v, u) /\ v.conn = [u.conn EXCEPT ![c] = r]
  BY <1>5 DEF Pool, PoolType, Fields, OnlyConn
<1>12. Refused(wk, c) = v
  BY DEF Refused, u, g, h
<1> HIDE DEF r, v
<1>13. Pool(v, {c}) /\ Steady(v, u) /\ v.conn[c] = r
  <2>1. r.use \in {"new", "client"}
    BY <1>9, <1>10 DEF Owned
  <2>2. Owned(u, c)
    BY <1>9
  <2>3. Rewritten(v, u, c, r)
    BY <1>10, <1>11, <2>1 DEF Rewritten
  <2> QED
    BY <1>5, <2>2, <2>3, InHandUpdate
<1> QED
  <2>1. Owned(v, c) /\ v.conn[c].peer = 0
    BY <1>9, <1>10, <1>13 DEF Owned
  <2>2. InHand(v, c)
    BY <1>1, <1>13, <2>1 DEF InHand
  <2>3. Steady(v, wk)
    BY <1>8, <1>13, SteadyTransitive
  <2>4. v.free # <<>> /\ v.conn[c].use = wk.conn[c].use
    BY <1>3, <1>9, <1>10, <1>11, <1>13 DEF OnlyConn
  <2> QED
    BY <1>12, <2>2, <2>3, <2>4

\* So do the refusals a session may meet before it is connected, or ends.
LEMMA TriesKeep ==
    ASSUME NEW wk, NEW c, InHand(wk, c), NEW v \in Tries(wk, c)
    PROVE  InHand(v, c) /\ Steady(v, wk) /\ v.conn[c].use = wk.conn[c].use
<1>1. PICK n \in Nat : /\ v = RefusedTimes(wk, c, n)
                       /\ wk.free = <<>> => n = 0
  <2>1. wk.conn[c].tries \in Int
    BY RecordFields DEF InHand, Pool
  <2> QED
    BY <2>1 DEF Tries
<1>2. PICK r : /\ r[0] = wk
               /\ \A i \in 1..n : r[i] = Refused(r[i - 1], c)
               /\ RefusedTimes(wk, c, n) = r[n]
  BY RefusedRun
<1> DEFINE Good(u) == /\ InHand(u, c) /\ Steady(u, wk)
                      /\ u.conn[c].use = wk.conn[c].use
           T == {m \in Nat : m <= n => Good(r[m]) /\ (m < n => r[m].free # <<>>)}
<1>3. 0 \in T
  BY <1>1, <1>2, SteadyReflexive
<1>4. ASSUME NEW m \in Nat, m \in T PROVE m + 1 \in T
  <2>1. CASE m + 1 <= n
    <3>1. Good(r[m]) /\ r[m].free # <<>> /\ m + 1 \in 1..n /\ (m + 1) - 1 = m
      BY <1>4, <2>1
    <3>2. r[m + 1] = Refused(r[m], c)
      BY <1>2, <3>1
    <3>3. /\ InHand(r[m + 1], c) /\ r[m + 1].free # <<>> /\ Steady(r[m + 1], r[m])
          /\ r[m + 1].conn[c].use = r[m].conn[c].use
      BY <3>1, <3>2, RefusedKeeps
    <3> QED
      BY <3>1, <3>3, SteadyTransitive
  <2>2. CASE ~(m + 1 <= n)
    BY <2>2
  <2> QED
    BY <2>1, <2>2
<1> HIDE DEF T
<1>5. n \in T
  BY <1>3, <1>4, NumbersInduction
<1> USE DEF T
<1> QED
  BY <1>1, <1>2, <1>5

\* What a handler may have done to session c: it goes on, or has ended.
Outcome(v, wk, c) ==
    /\ Pool(v, {})
    /\ \/ Ends(v, wk, c)
       \/ Steady(v, wk) /\ v.conn[c].use = "client"

\* A connection to the upstream is taken and linked with the session.
LEMMA ConnectingKeeps ==
    ASSUME NEW wk, NEW c, InHand(wk, c), wk.free # <<>>, NEW b \in BOOLEAN
    PROVE  Outcome(Connecting(wk, c, b), wk, c)
<1> DEFINE u == Head(wk.free)
           g == GetConnection(wk, "upstream")
           ru == [g.conn[u] EXCEPT !.peer = c, !.active = TRUE]
           rc == [g.conn[c] EXCEPT !.use = "client", !.peer = u, !.active = b]
           v == [g EXCEPT !.conn[u].peer = c, !.conn[u].active = TRUE,
                          !.conn[c].use = "client", !.conn[c].peer = u,
                          !.conn[c].active = b]
<1>1. Connecting(wk, c, b) = v
  BY DEF Connecting
<1>2. Pool(wk, {c}) /\ c \in Connections /\ wk.conn \in [Connections -> ConnectionRecords]
  BY DEF InHand, Pool, PoolType
<1>3. /\ u \in Connections /\ u \notin {c} /\ wk.conn[u].use = "free"
      /\ Pool(g, {c} \cup {u}) /\ Aside(g, wk)
      /\ g.conn = [wk.conn EXCEPT ![u] = [Unused EXCEPT !.use = "upstream"]]
  BY <1>2, GetKeeps
<1> HIDE DEF u, g
<1>4. PoolType(g) /\ g.conn \in [Connections -> ConnectionRecords] /\ DOMAIN g = Fields
  BY <1>3 DEF Pool, PoolType
<1>5. /\ g.conn[u] \in ConnectionRecords /\ g.conn[c] \in ConnectionRecords
      /\ g.conn[u].use = "upstream" /\ g.conn[u].cleanup = <<>>
      /\ g.conn[c] = wk.conn[c]
      /\ \A d \in Connections : d # u => g.conn[d] = wk.conn[d]
  BY <1>2, <1>3, <1>4, UnusedRecord DEF Uses
<1>6. OnlyConn(v, g)
  BY <1>3, <1>4 DEF OnlyConn, Fields
<1>7. /\ ru \in ConnectionRecords /\ ru.use = "upstream" /\ ru.peer = c
      /\ ru.cleanup = <<>>
      /\ rc \in ConnectionRecords /\ rc.use = "client" /\ rc.peer = u
      /\ rc.cleanup = wk.conn[c].cleanup
  <2>1. c \in 0..ConnectionN /\ u \in 0..ConnectionN
    BY <1>2, <1>3, ConnectionAssumption DEF Connections, ConnectionAssumption
  <2>2. "client" \in Uses
    BY DEF Uses
  <2> QED
    BY <1>5, <2>1, <2>2 DEF ConnectionRecords
<1>8. /\ v.conn \in [Connections -> ConnectionRecords]
      /\ v.conn[u] = ru /\ v.conn[c] = rc
      /\ \A d \in Connections : d # c /\ d # u => v.conn[d] = g.conn[d]
  <2> DEFINE q1 == [g.conn EXCEPT ![u].peer = c]
             q2 == [q1 EXCEPT ![u].active = TRUE]
             q3 == [q2 EXCEPT ![c].use = "client"]
             q4 == [q3 EXCEPT ![c].peer = u]
             q5 == [q4 EXCEPT ![c].active = b]
  <2>1. v.conn = q5
    BY <1>4 DEF Fields
  <2>2. /\ q2[u] = ru /\ DOMAIN q2 = Connections /\ q2 = [d \in Connections |-> q2[d]]
        /\ \A d \in Connections : d # u => q2[d] = g.conn[d]
    BY <1>3, <1>4
  <2> HIDE DEF q2
  <2>3. q2[c] = g.conn[c] /\ c \in Connections
    BY <1>2, <1>3, <2>2
  <2>4. /\ q5[c] = rc /\ DOMAIN q5 = Connections /\ q5 = [d \in Connections |-> q5[d]]
        /\ \A d \in Connections : d # c => q5[d] = q2[d]
    BY <2>2, <2>3
  <2> HIDE DEF q5, ru, rc, v
  <2>5. \A d \in Connections : q5[d] \in ConnectionRecords
    BY <1>3, <1>4, <1>7, <2>2, <2>4
  <2> QED
    BY <1>3, <2>1, <2>2, <2>3, <2>4, <2>5
<1> HIDE DEF ru, rc, v
<1>9. Pool(v, {c} \cup {u})
  <2>1. \A d \in {c} \cup {u} : v.conn[d].use # "free" /\ Tidy(v, d)
    BY <1>7, <1>8 DEF Tidy
  <2> QED
    BY <1>3, <1>6, <1>8, <2>1, UpdateKeeps DEF OnlyConn
<1>10. Linked(v, c) /\ Linked(v, u)
  BY <1>2, <1>3, <1>7, <1>8 DEF Linked, Paired
<1>11. Pool(v, {})
  BY <1>9, <1>10, Linking
<1>12. Aside(v, wk)
  BY <1>3, <1>6 DEF Aside, OnlyConn, PhaseOf
<1>13. ASSUME NEW d \in Connections PROVE SameSession(v, wk, d)
  <2>1. CASE d = c
    BY <1>7, <1>8, <2>1 DEF SameSession, InHand, Owned
  <2>2. CASE d = u
    BY <1>3, <1>7, <1>8, <2>2 DEF SameSession, Owned
  <2>3. CASE d # c /\ d # u
    BY <1>5, <1>8, <2>3 DEF SameSession, Owned
  <2> QED
    BY <2>1, <2>2, <2>3
<1> QED
  BY <1>1, <1>7, <1>8, <1>11, <1>12, <1>13 DEF Outcome, Steady

\* What may come of ngx_stream_proxy_connect()
LEMMA ConnectsKeeps ==
    ASSUME NEW wk, NEW c, InHand(wk, c), NEW v \in Connects(wk, c)
    PROVE  Outcome(v, wk, c)
<1>1. CASE \E u \in Tries(wk, c) : v = CloseSession(u, c)
  <2>1. PICK u \in Tries(wk, c) : v = CloseSession(u, c)
    BY <1>1
  <2>2. InHand(u, c) /\ Steady(u, wk)
    BY TriesKeep
  <2>3. Pool(v, {}) /\ Ends(v, u, c)
    BY <2>1, <2>2, InHandEnds
  <2> QED
    BY <2>2, <2>3, SteadyTransitive DEF Outcome
<1>2. CASE \E u \in Tries(wk, c) : \E b \in BOOLEAN :
              u.free # <<>> /\ v = Connecting(u, c, b)
  <2>1. PICK u \in Tries(wk, c), b \in BOOLEAN : u.free # <<>> /\ v = Connecting(u, c, b)
    BY <1>2
  <2>2. InHand(u, c) /\ Steady(u, wk)
    BY TriesKeep
  <2>3. Outcome(v, u, c)
    BY <2>1, <2>2, ConnectingKeeps
  <2> QED
    BY <2>2, <2>3, SteadyTransitive DEF Outcome
<1>3. (\E u \in Tries(wk, c) : v = CloseSession(u, c))
         \/ \E u \in Tries(wk, c) : \E b \in BOOLEAN :
              u.free # <<>> /\ v = Connecting(u, c, b)
  BY DEF Connects
<1> QED
  BY <1>1, <1>2, <1>3

\* ngx_stream_proxy_next_upstream()
LEMMA NextUpstreamKeeps ==
    ASSUME NEW wk, Pool(wk, {}), NEW c \in Connections, wk.conn[c].use = "client",
           NEW v \in NextUpstream(wk, c)
    PROVE  Outcome(v, wk, c)
<1> DEFINE u == CloseConnection(wk, wk.conn[c].peer)
           r == [u.conn[c] EXCEPT !.peer = 0, !.tries = @ - 1]
           x == [u EXCEPT !.conn[c].peer = 0, !.conn[c].tries = @ - 1]
<1>1. Pool(u, {c}) /\ Steady(u, wk) /\ u.conn[c] = wk.conn[c]
  BY UpstreamClosed
<1>2. v \in Connects(x, c)
  BY DEF NextUpstream
<1> HIDE DEF u
<1>3. /\ r \in ConnectionRecords /\ r.use = "client" /\ r.peer = 0
      /\ r.cleanup = u.conn[c].cleanup
  <2>1. u.conn[c] \in ConnectionRecords
    BY <1>1 DEF Pool, PoolType
  <2>2. u.conn[c].tries - 1 \in Int /\ 0 \in 0..ConnectionN
    BY <2>1, ConnectionAssumption DEF ConnectionRecords, ConnectionAssumption
  <2> QED
    BY <1>1, <2>1, <2>2 DEF ConnectionRecords
<1>4. OnlyConn(x, u) /\ x.conn = [u.conn EXCEPT ![c] = r]
  BY <1>1 DEF Pool, PoolType, Fields, OnlyConn
<1> HIDE DEF r, x
<1>5. Rewritten(x, u, c, r) /\ Owned(u, c)
  BY <1>1, <1>3, <1>4 DEF Rewritten, Owned
<1>6. Pool(x, {c}) /\ Steady(x, u) /\ x.conn[c] = r
  BY <1>1, <1>5, InHandUpdate
<1>7. InHand(x, c)
  BY <1>3, <1>6 DEF InHand, Owned
<1>8. Outcome(v, x, c)
  BY <1>2, <1>7, ConnectsKeeps
<1>9. Steady(x, wk)
  BY <1>1, <1>6, SteadyTransitive
<1> QED
  BY <1>8, <1>9, SteadyTransitive DEF Outcome

\* The end of a session that a handler decides on
LEMMA SessionEnds ==
    ASSUME NEW wk, Pool(wk, {}), NEW c \in Connections, wk.conn[c].use = "client"
    PROVE  Outcome(CloseSession(wk, c), wk, c)
<1>1. Owned(wk, c)
  BY DEF Owned
<1> QED
  BY <1>1, CloseSessionKeeps DEF Outcome

\* ngx_stream_proxy_connect_handler(), ngx_stream_proxy_process_connection():
\* an event of a client's connection, or of an upstream's, or a timer
LEMMA HandledKeeps ==
    ASSUME NEW wk, Pool(wk, {}), NEW d \in Connections
    PROVE  /\ wk.conn[d].use \in {"client", "upstream"} =>
                \A v \in Handled(wk, d) : \E c \in Connections : Outcome(v, wk, c)
           /\ wk.conn[d].use = "client" =>
                \A v \in TimedOut(wk, d) : \E c \in Connections : Outcome(v, wk, c)
<1>1. ASSUME wk.conn[d].use \in {"client", "upstream"}, NEW v \in Handled(wk, d)
      PROVE  \E c \in Connections : Outcome(v, wk, c)
  <2> DEFINE c == IF wk.conn[d].use = "client" THEN d ELSE wk.conn[d].peer
             x == [wk EXCEPT !.conn[c].active = TRUE]
  <2>1. c \in Connections /\ wk.conn[c].use = "client"
    BY <1>1 DEF Pool, Linked, Paired
  <2>2. v = wk \/ v = CloseSession(wk, c) \/ v = x \/ v \in NextUpstream(wk, c)
    BY DEF Handled
  <2> HIDE DEF c
  <2>3. Outcome(wk, wk, c)
    BY <2>1, SteadyReflexive DEF Outcome
  <2>4. Outcome(x, wk, c)
    <3> DEFINE r == [wk.conn[c] EXCEPT !.active = TRUE]
    <3>1. wk.conn \in [Connections -> ConnectionRecords] /\ DOMAIN wk = Fields
      BY DEF Pool, PoolType
    <3>2. /\ r \in ConnectionRecords /\ r.use = "client" /\ r.peer = wk.conn[c].peer
          /\ r.cleanup = wk.conn[c].cleanup
      BY <2>1, <3>1 DEF ConnectionRecords
    <3>3. OnlyConn(x, wk) /\ x.conn = [wk.conn EXCEPT ![c] = r]
      BY <2>1, <3>1 DEF OnlyConn, Fields
    <3> HIDE DEF r, x
    <3>4. /\ x.conn \in [Connections -> ConnectionRecords] /\ x.conn[c] = r
          /\ \A e \in Connections : /\ e # c => x.conn[e] = wk.conn[e]
                                    /\ x.conn[e].use = wk.conn[e].use
                                    /\ x.conn[e].peer = wk.conn[e].peer
                                    /\ x.conn[e].cleanup = wk.conn[e].cleanup
      BY <2>1, <3>1, <3>2, <3>3
    <3>5. Pool(x, {})
      <4>1. \A e \in Connections : Linked(x, e)
        BY <2>1, <3>2, <3>4 DEF Pool, Linked, Paired
      <4>2. PoolType(x)
        BY <3>3, <3>4 DEF Pool, PoolType, OnlyConn
      <4>3. /\ \A e \in Connections : e \in ToSet(x.free) <=> x.conn[e].use = "free"
            /\ \A e \in ToSet(x.posted) : e \notin ToSet(x.free)
        BY <3>3, <3>4 DEF Pool, OnlyConn
      <4>4. \A e \in Connections : Tidy(x, e)
        BY <3>4 DEF Pool, Tidy
      <4> QED
        BY <4>1, <4>2, <4>3, <4>4 DEF Pool
    <3>6. Steady(x, wk)
      BY <3>3, <3>4 DEF Steady, Aside, PhaseOf, OnlyConn, SameSession, Owned
    <3> QED
      BY <3>2, <3>4, <3>5, <3>6 DEF Outcome
  <2> HIDE DEF x
  <2> QED
    BY <2>1, <2>2, <2>3, <2>4, SessionEnds, NextUpstreamKeeps
<1>2. ASSUME wk.conn[d].use = "client", NEW v \in TimedOut(wk, d)
      PROVE  \E c \in Connections : Outcome(v, wk, c)
  <2>1. v = CloseSession(wk, d) \/ v \in NextUpstream(wk, d)
    BY DEF TimedOut
  <2> QED
    BY <1>2, <2>1, SessionEnds, NextUpstreamKeeps
<1> QED
  BY <1>1, <1>2

-----------------------------------------------------------------------------
(* The inductive invariant of the pool, the batch and the counters.  To    *)
(* PoolIntact it adds what handlers rely on: the types, the pairing of a   *)
(* session's connections in both directions, and that connections without  *)
(* a session have no cleanups.  StaleCaught needs that the batch is empty  *)
(* when epoll_wait() begins to count again, and ConnCounted that a session *)
(* being started holds zones it has passed only, and one not started none. *)

\* The events of a batch keep the instance bit of the time of epoll_wait().
BatchInv(wk) ==
    /\ \A e \in wk.batch : e.c # 0 => e.c \in Connections /\ e.inst = PhaseOf(wk, e.c)
    /\ wk.batch # {} => \/ wk.pc = "batch"
                        \/ wk.pc \in {"accept", "start"} /\ wk.ret = "batch"

WorkerPool(wk) ==
    /\ Pool(wk, {})
    /\ BatchInv(wk)
    /\ wk.disabled \in 0..Reserve
    /\ wk.ret \in {"batch", "unlock", "timers", "posted"}
    /\ wk.pc = "start" => wk.cur \in Connections /\ wk.conn[wk.cur].use = "new"

\* The zones a connection's pool has cleanups for
Registered(wk, zs) ==
    /\ \A c \in Connections :
          /\ IsInjective(wk.conn[c].cleanup)
          /\ ToSet(wk.conn[c].cleanup) \subseteq zs
          /\ wk.conn[c].use = "new" /\ ~(wk.pc = "start" /\ wk.cur = c)
                => wk.conn[c].cleanup = <<>>
    /\ wk.pc = "start" =>
          wk.k \in Nat /\ \A z \in ToSet(wk.conn[wk.cur].cleanup) : z <= wk.k
    /\ wk.pc = "dead" => \A c \in Connections : wk.conn[c].cleanup = <<>>

\* Nothing but the position in the loop is different.
SamePool(v, wk) ==
    /\ DOMAIN v = Fields
    /\ v.free = wk.free /\ v.posted = wk.posted /\ v.inst = wk.inst
    /\ v.taken = wk.taken /\ v.conn = wk.conn

\* The pool and the bits of the events are told by these fields.
LEMMA SamePoolKeeps ==
    ASSUME NEW wk, Pool(wk, {}), NEW v, SamePool(v, wk)
    PROVE  Pool(v, {}) /\ \A c \in Connections : PhaseOf(v, c) = PhaseOf(wk, c)
  BY DEF SamePool, Pool, PoolType, Tidy, Linked, Paired, PhaseOf

\* A worker is at another place of its loop, with the same pool.
Elsewhen(v, wk) ==
    /\ SamePool(v, wk)
    /\ v.batch \subseteq wk.batch
    /\ v.batch # {} => v.pc = "batch" \/ (v.pc \in {"accept", "start"} /\ v.ret = "batch")
    /\ v.disabled \in 0..Reserve
    /\ v.ret \in {"batch", "unlock", "timers", "posted"}
    /\ v.pc \notin {"start", "dead"}

\* The invariant of a worker holds wherever it is between handlers.
LEMMA LoopOK ==
    ASSUME NEW wk, NEW Z, WorkerPool(wk), Registered(wk, Z), NEW v, Elsewhen(v, wk),
           wk.pc = "start" => wk.conn[wk.cur].cleanup = <<>> \/ wk.conn[wk.cur].use # "new"
    PROVE  WorkerPool(v) /\ Registered(v, Z)
<1>1. Pool(v, {}) /\ \A c \in Connections : PhaseOf(v, c) = PhaseOf(wk, c)
  BY SamePoolKeeps DEF WorkerPool, Elsewhen
<1>2. BatchInv(v)
  BY <1>1 DEF WorkerPool, BatchInv, Elsewhen
<1>3. WorkerPool(v)
  BY <1>1, <1>2 DEF WorkerPool, Elsewhen
<1>4. v.conn = wk.conn /\ v.pc \notin {"start", "dead"}
  BY DEF Elsewhen, SamePool
<1>5. Registered(v, Z)
  BY <1>4 DEF Registered
<1> QED
  BY <1>3, <1>5

\* A handler that ends a session or goes on with it
LEMMA OutcomeOK ==
    ASSUME NEW wk, NEW Z, WorkerPool(wk), Registered(wk, Z), NEW v, NEW c \in Connections, Outcome(v, wk, c),
           SameControl(v, wk), wk.pc # "start"
    PROVE  WorkerPool(v) /\ Registered(v, Z)
<1>1. Pool(v, {}) /\ Aside(v, wk)
  BY DEF Outcome, Ends, Steady
<1>2. WorkerPool(v)
  BY <1>1 DEF WorkerPool, BatchInv, Aside, SameControl
<1>3. ASSUME NEW d \in Connections
      PROVE  /\ v.conn[d].cleanup = <<>> \/ v.conn[d].cleanup = wk.conn[d].cleanup
             /\ v.conn[d].use = "new" =>
                   wk.conn[d].use = "new" /\ v.conn[d].cleanup = wk.conn[d].cleanup
  <2>1. v.conn[d].use \in Uses /\ Tidy(v, d)
    BY <1>1, RecordFields DEF Pool
  <2>2. v.conn[d].use = "free" \/ SameSession(v, wk, d)
    BY DEF Outcome, Ends, Steady
  <2> QED
    BY <2>1, <2>2 DEF Uses, Tidy, SameSession, Owned
<1>4. IsInjective(<<>>) /\ ToSet(<<>>) = {}
  BY DEF IsInjective, ToSet
<1>5. Registered(v, Z)
  BY <1>3, <1>4 DEF Registered, SameControl
<1> QED
  BY <1>2, <1>5

-----------------------------------------------------------------------------
(* What a step does to the cleanups of a worker's sessions                 *)

Kept(v, wk) == \A c \in Connections : v.conn[c].cleanup = wk.conn[c].cleanup
Run(v, wk, c) ==
    /\ v.conn[c].cleanup = <<>>
    /\ \A d \in Connections \ {c} : v.conn[d].cleanup = wk.conn[d].cleanup

\* At most one session ends in a step, and its cleanups are run.
LEMMA OutcomeCleanups ==
    ASSUME NEW wk, Pool(wk, {}), NEW v, NEW c \in Connections, Outcome(v, wk, c)
    PROVE  \/ Kept(v, wk) /\ Ended(wk, v) = {}
           \/ Run(v, wk, c) /\ Ended(wk, v) = {c}
<1>1. \A d \in Connections : /\ wk.conn[d].use \in Uses /\ Tidy(wk, d)
                             /\ v.conn[d].use \in Uses /\ Tidy(v, d)
  BY RecordFields DEF Outcome, Pool
<1>2. ASSUME NEW d \in Connections, SameSession(v, wk, d)
      PROVE  v.conn[d].cleanup = wk.conn[d].cleanup /\ d \notin Ended(wk, v)
  BY <1>1, <1>2 DEF SameSession, Owned, Tidy, Uses, Ended
<1>3. CASE Steady(v, wk)
  <2>1. \A d \in Connections : SameSession(v, wk, d)
    BY <1>3 DEF Steady
  <2>2. Ended(wk, v) \subseteq Connections
    BY DEF Ended
  <2> QED
    BY <1>2, <2>1, <2>2 DEF Kept
<1>4. CASE Ends(v, wk, c)
  <2>1. \A d \in Connections \ {c} : SameSession(v, wk, d)
    BY <1>4 DEF Ends
  <2>2. c \in Ended(wk, v) /\ v.conn[c].cleanup = <<>>
    BY <1>1, <1>4 DEF Ends, Owned, Ended, Tidy
  <2>3. Ended(wk, v) \subseteq Connections
    BY DEF Ended
  <2> QED
    BY <1>2, <2>1, <2>2, <2>3 DEF Run
<1> QED
  BY <1>3, <1>4 DEF Outcome

-----------------------------------------------------------------------------
(* What a step does to the cleanups and the counters of limit_conn         *)

\* A session without repetitions in its cleanups has one for a zone, or none.
LEMMA OneCleanup ==
    ASSUME NEW wk, NEW c, IsInjective(wk.conn[c].cleanup), NEW z
    PROVE  Cardinality(CleanupsOf(wk, {c}, z)) =
              IF z \in ToSet(wk.conn[c].cleanup) THEN 1 ELSE 0
<1> DEFINE l == wk.conn[c].cleanup
<1>1. CleanupsOf(wk, {c}, z) = {<<c, i>> : i \in {j \in DOMAIN l : l[j] = z}}
  BY DEF CleanupsOf
<1>2. CASE z \in ToSet(l)
  <2>1. PICK i \in DOMAIN l : l[i] = z
    BY <1>2 DEF ToSet
  <2>2. {j \in DOMAIN l : l[j] = z} = {i}
    BY <2>1 DEF IsInjective
  <2>3. CleanupsOf(wk, {c}, z) = {<<c, i>>}
    BY <1>1, <2>2
  <2> QED
    BY <1>2, <2>3, FS_Singleton
<1>3. CASE z \notin ToSet(l)
  <2>1. {j \in DOMAIN l : l[j] = z} = {}
    BY <1>3 DEF ToSet
  <2>2. CleanupsOf(wk, {c}, z) = {}
    BY <1>1, <2>1
  <2> QED
    BY <1>3, <2>2, FS_EmptySet
<1> QED
  BY <1>2, <1>3

\* Nothing is lowered without sessions, or for sessions without cleanups.
LEMMA LoweredByNone ==
    ASSUME NEW wk, NEW C, \A c \in C : wk.conn[c].cleanup = <<>>,
           NEW S, NEW f \in [S -> Int]
    PROVE  Lowered(f, wk, C) = f
<1>1. \A z : CleanupsOf(wk, C, z) = {}
  BY DEF CleanupsOf
<1>2. \A z : Cardinality(CleanupsOf(wk, C, z)) = 0
  BY <1>1, FS_EmptySet
<1> QED
  BY <1>2 DEF Lowered

-----------------------------------------------------------------------------
(* The counters, apart from the variables: S are the workers, m and n      *)
(* their memories before and after a step of worker w.                     *)

HoldersOf(S, m, z) == {h \in S \X Connections :
                          z \in ToSet(m[h[1]].conn[h[2]].cleanup)}
Others(n, m, S, w) == \A u \in S \ {w} : n[u] = m[u]

\* The counters a over zones Z, with counts b lost and limits l
Counted(S, m, Z, a, b, l) ==
    /\ a \in [Z -> Nat] /\ b \in [Z -> Nat] /\ l \in [Z -> Nat]
    /\ \A z \in Z : a[z] = Cardinality(HoldersOf(S, m, z)) + b[z] /\ a[z] <= l[z]

\* At connection c of worker w, zone z is held.
Held(m, w, c, z) == z \in ToSet(m[w].conn[c].cleanup)

\* Who holds zone z
LEMMA HolderPairs ==
    ASSUME NEW S, NEW m, NEW z
    PROVE  /\ HoldersOf(S, m, z) \in SUBSET (S \X Connections)
           /\ \A u \in S, d \in Connections :
                 <<u, d>> \in HoldersOf(S, m, z) <=> Held(m, u, d, z)
  BY DEF HoldersOf, Held

\* There are finitely many sessions.
LEMMA HoldersOfFinite ==
    ASSUME NEW S, IsFiniteSet(S), NEW m, NEW z
    PROVE  IsFiniteSet(HoldersOf(S, m, z)) /\ Cardinality(HoldersOf(S, m, z)) \in Nat
<1>1. IsFiniteSet(Connections)
  BY ConnectionAssumption, FS_Interval DEF Connections, ConnectionAssumption
<1>2. IsFiniteSet(S \X Connections)
  BY <1>1, FS_Product
<1>3. HoldersOf(S, m, z) \in SUBSET (S \X Connections)
  BY HolderPairs
<1> QED
  BY <1>2, <1>3, FS_Subset, FS_CardinalityType

\* Sets of pairs are told apart by pairs.
LEMMA SamePairs ==
    ASSUME NEW S, NEW T, NEW A \in SUBSET (S \X T), NEW B \in SUBSET (S \X T),
           \A u \in S, d \in T : <<u, d>> \in A <=> <<u, d>> \in B
    PROVE  A = B
  OBVIOUS

\* A step of w does not change what others hold.
LEMMA OthersHold ==
    ASSUME NEW S, NEW m, NEW n, NEW w \in S, Others(n, m, S, w),
           NEW u \in S, u # w, NEW d, NEW z
    PROVE  Held(n, u, d, z) <=> Held(m, u, d, z)
  BY DEF Others, Held

\* A zone that w holds at the same connections has the same holders.
LEMMA HoldersKept ==
    ASSUME NEW S, NEW m, NEW n, NEW w \in S, Others(n, m, S, w), NEW z,
           \A d \in Connections : Held(n, w, d, z) <=> Held(m, w, d, z)
    PROVE  HoldersOf(S, n, z) = HoldersOf(S, m, z)
<1>1. \A u \in S, d \in Connections : Held(n, u, d, z) <=> Held(m, u, d, z)
  BY OthersHold
<1>2. \A u \in S, d \in Connections :
         <<u, d>> \in HoldersOf(S, n, z) <=> <<u, d>> \in HoldersOf(S, m, z)
  BY <1>1, HolderPairs
<1> DEFINE A == HoldersOf(S, n, z)
           B == HoldersOf(S, m, z)
<1>3. A \in SUBSET (S \X Connections) /\ B \in SUBSET (S \X Connections)
  BY HolderPairs
<1>4. \A u \in S, d \in Connections : <<u, d>> \in A <=> <<u, d>> \in B
  BY <1>2
<1> HIDE DEF A, B
<1>5. A = B
  BY <1>3, <1>4, SamePairs
<1> QED
  BY <1>5 DEF A, B

\* w gives the zone up at connection c.
LEMMA HoldersLess ==
    ASSUME NEW S, NEW m, NEW n, NEW w \in S, Others(n, m, S, w), NEW z,
           NEW c \in Connections, ~Held(n, w, c, z),
           \A d \in Connections \ {c} : Held(n, w, d, z) <=> Held(m, w, d, z)
    PROVE  HoldersOf(S, n, z) = HoldersOf(S, m, z) \ {<<w, c>>}
<1>1. \A u \in S, d \in Connections :
         Held(n, u, d, z) <=> Held(m, u, d, z) /\ ~(u = w /\ d = c)
  BY OthersHold
<1>2. \A u \in S, d \in Connections :
         <<u, d>> \in HoldersOf(S, n, z)
            <=> <<u, d>> \in HoldersOf(S, m, z) \ {<<w, c>>}
  BY <1>1, HolderPairs
<1>3. HoldersOf(S, m, z) \ {<<w, c>>} \in SUBSET (S \X Connections)
  BY HolderPairs
<1> QED
  BY <1>2, <1>3, HolderPairs, SamePairs

\* w gets the zone at connection c.
LEMMA HoldersMore ==
    ASSUME NEW S, NEW m, NEW n, NEW w \in S, Others(n, m, S, w), NEW z,
           NEW c \in Connections, Held(n, w, c, z),
           \A d \in Connections \ {c} : Held(n, w, d, z) <=> Held(m, w, d, z)
    PROVE  HoldersOf(S, n, z) = HoldersOf(S, m, z) \cup {<<w, c>>}
<1>1. \A u \in S, d \in Connections :
         Held(n, u, d, z) <=> Held(m, u, d, z) \/ (u = w /\ d = c)
  BY OthersHold
<1>2. \A u \in S, d \in Connections :
         <<u, d>> \in HoldersOf(S, n, z)
            <=> <<u, d>> \in HoldersOf(S, m, z) \cup {<<w, c>>}
  BY <1>1, HolderPairs
<1>3. HoldersOf(S, m, z) \cup {<<w, c>>} \in SUBSET (S \X Connections)
  BY HolderPairs
<1> QED
  BY <1>2, <1>3, HolderPairs, SamePairs

Share(S, m, w, z) == {h \in HoldersOf(S, m, z) : h[1] = w}

\* The share of w, and what is left without it
LEMMA HoldersDied ==
    ASSUME NEW S, IsFiniteSet(S), NEW m, NEW n, NEW w \in S, Others(n, m, S, w), NEW z,
           \A d \in Connections : ~Held(n, w, d, z)
    PROVE  Cardinality(HoldersOf(S, n, z))
              + Cardinality(Share(S, m, w, z))
                  = Cardinality(HoldersOf(S, m, z))
<1> DEFINE A == HoldersOf(S, n, z)
           H == HoldersOf(S, m, z)
           B == Share(S, m, w, z)
<1>1. \A u \in S, d \in Connections : Held(n, u, d, z) <=> Held(m, u, d, z) /\ u # w
  BY OthersHold
<1>2. \A u \in S, d \in Connections : <<u, d>> \in A <=> <<u, d>> \in H \ B
  BY <1>1, HolderPairs DEF Share
<1>3. A = H \ B
  <2>1. H \ B \in SUBSET (S \X Connections)
    BY HolderPairs DEF Share
  <2>2. A \in SUBSET (S \X Connections)
    BY HolderPairs
  <2> HIDE DEF A, H, B
  <2> QED
    BY <1>2, <2>1, <2>2, SamePairs
<1>4. B \subseteq H
  BY DEF Share
<1>5. IsFiniteSet(H) /\ IsFiniteSet(A)
  BY HoldersOfFinite
<1> HIDE DEF A, H, B
<1>6. IsFiniteSet(B)
  BY <1>4, <1>5, FS_Subset
<1>7. A \cup B = H /\ A \cap B = {}
  BY <1>3, <1>4
<1>8. Cardinality(A \cup B) = Cardinality(A) + Cardinality(B) - Cardinality(A \cap B)
  BY <1>5, <1>6, FS_Union
<1>9. Cardinality(A \cap B) = 0 /\ Cardinality(A) \in Nat /\ Cardinality(B) \in Nat
  BY <1>5, <1>6, <1>7, FS_EmptySet, FS_CardinalityType
<1>10. Cardinality(A) + Cardinality(B) = Cardinality(H)
  <2>1. Cardinality(A \cup B) = Cardinality(H)
    BY <1>7
  <2>2. Cardinality(A) \in Nat /\ Cardinality(B) \in Nat /\ Cardinality(A \cap B) = 0
    BY <1>9
  <2> QED
    BY ONLY <1>8, <2>1, <2>2
<1> QED
  BY ONLY <1>10 DEF A, B, H

-----------------------------------------------------------------------------
(* What a step of worker w does to the zones, told by the cleanups before  *)
(* and after it                                                            *)

\* No cleanup is repeated in a session of worker w.
CleanupsOnce(wk) ==
    \A c \in Connections : /\ wk.conn[c].cleanup \in Seq(Nat)
                           /\ IsInjective(wk.conn[c].cleanup)

\* No session passes or leaves a zone.
LEMMA CountedKept ==
    ASSUME NEW S, NEW m, NEW n, NEW w \in S, Others(n, m, S, w), Kept(n[w], m[w]),
           NEW Z, NEW a, NEW b, NEW l, Counted(S, m, Z, a, b, l)
    PROVE  Counted(S, n, Z, a, b, l)
<1>1. ASSUME NEW z PROVE HoldersOf(S, n, z) = HoldersOf(S, m, z)
  <2>1. \A d \in Connections : Held(n, w, d, z) <=> Held(m, w, d, z)
    BY DEF Kept, Held
  <2> QED
    BY <2>1, HoldersKept
<1> QED
  BY <1>1 DEF Counted

\* The cleanups of one session are run.
LEMMA RunHolders ==
    ASSUME NEW S, IsFiniteSet(S), NEW m, NEW n, NEW w \in S, Others(n, m, S, w),
           NEW c \in Connections, Run(n[w], m[w], c), NEW z
    PROVE  /\ Cardinality(HoldersOf(S, m, z)) \in Nat
           /\ Held(m, w, c, z) => Cardinality(HoldersOf(S, m, z)) >= 1
           /\ Cardinality(HoldersOf(S, n, z)) =
                 Cardinality(HoldersOf(S, m, z)) - (IF Held(m, w, c, z) THEN 1 ELSE 0)
<1> DEFINE A == HoldersOf(S, n, z)
           H == HoldersOf(S, m, z)
<1>1. ~Held(n, w, c, z)
  BY DEF Run, Held, ToSet
<1>2. \A d \in Connections \ {c} : Held(n, w, d, z) <=> Held(m, w, d, z)
  BY DEF Run, Held
<1>3. A = H \ {<<w, c>>}
  BY <1>1, <1>2, HoldersLess
<1>4. <<w, c>> \in H <=> Held(m, w, c, z)
  BY HolderPairs
<1>5. IsFiniteSet(H) /\ Cardinality(H) \in Nat
  BY HoldersOfFinite
<1> HIDE DEF A, H
<1>6. Cardinality(H \ {<<w, c>>}) =
         IF <<w, c>> \in H THEN Cardinality(H) - 1 ELSE Cardinality(H)
  BY <1>5, FS_RemoveElement
<1>7. <<w, c>> \in H => Cardinality(H) # 0
  BY <1>5, FS_EmptySet
<1>8. Cardinality(A) = Cardinality(H) - (IF Held(m, w, c, z) THEN 1 ELSE 0)
  BY ONLY <1>3, <1>4, <1>5, <1>6
<1>9. Held(m, w, c, z) => Cardinality(H) >= 1
  BY ONLY <1>4, <1>5, <1>7
<1> QED
  BY ONLY <1>5, <1>8, <1>9 DEF A, H

\* The counters follow the cleanups of a session that are run.
LEMMA CountedRun ==
    ASSUME NEW S, IsFiniteSet(S), NEW m, NEW n, NEW w \in S, Others(n, m, S, w),
           NEW c \in Connections, Run(n[w], m[w], c), CleanupsOnce(m[w]),
           NEW Z, NEW a, NEW b, NEW l, Counted(S, m, Z, a, b, l)
    PROVE  Counted(S, n, Z, Lowered(a, m[w], {c}), b, l)
<1> DEFINE low(z) == Cardinality(CleanupsOf(m[w], {c}, z))
<1>1. Lowered(a, m[w], {c}) = [z \in Z |-> a[z] - low(z)]
  BY DEF Lowered, Counted
<1>2. ASSUME NEW z \in Z
      PROVE  /\ a[z] - low(z) \in Nat /\ a[z] - low(z) <= l[z]
             /\ a[z] - low(z) = Cardinality(HoldersOf(S, n, z)) + b[z]
  <2>1. /\ Cardinality(HoldersOf(S, m, z)) \in Nat
        /\ Held(m, w, c, z) => Cardinality(HoldersOf(S, m, z)) >= 1
        /\ Cardinality(HoldersOf(S, n, z)) =
              Cardinality(HoldersOf(S, m, z)) - (IF Held(m, w, c, z) THEN 1 ELSE 0)
    BY RunHolders
  <2>2. /\ a[z] \in Nat /\ b[z] \in Nat /\ l[z] \in Nat
        /\ a[z] = Cardinality(HoldersOf(S, m, z)) + b[z] /\ a[z] <= l[z]
    BY DEF Counted
  <2>3. low(z) = IF Held(m, w, c, z) THEN 1 ELSE 0
    BY OneCleanup DEF CleanupsOnce, Held
  <2> QED
    BY ONLY <2>1, <2>2, <2>3
<1> HIDE DEF low
<1>3. [z \in Z |-> a[z] - low(z)] \in [Z -> Nat]
  BY <1>2
<1> QED
  BY <1>1, <1>2, <1>3 DEF Counted

\* A session passes a zone.
Raised(v, wk, c, y) ==
    /\ y \notin ToSet(wk.conn[c].cleanup)
    /\ v.conn[c].cleanup = <<y>> \o wk.conn[c].cleanup
    /\ \A d \in Connections \ {c} : v.conn[d].cleanup = wk.conn[d].cleanup

\* The counter of a zone that is passed is raised within its limit.
LEMMA CountedRaised ==
    ASSUME NEW S, IsFiniteSet(S), NEW m, NEW n, NEW w \in S, Others(n, m, S, w),
           CleanupsOnce(m[w]),
           NEW Z, NEW c \in Connections, NEW y \in Z, y \in Nat, Raised(n[w], m[w], c, y),
           NEW a, NEW b, NEW l, Counted(S, m, Z, a, b, l), ~LimitReached(a[y], l[y])
    PROVE  Counted(S, n, Z, [a EXCEPT ![y] = @ + 1], b, l)
<1>1. ToSet(n[w].conn[c].cleanup) = ToSet(m[w].conn[c].cleanup) \cup {y}
  <2>1. m[w].conn[c].cleanup \in Seq(Nat)
    BY DEF CleanupsOnce
  <2> QED
    BY <2>1, ToSetOfCons DEF Raised
<1>2. ASSUME NEW z, z # y PROVE HoldersOf(S, n, z) = HoldersOf(S, m, z)
  <2>1. \A d \in Connections : Held(n, w, d, z) <=> Held(m, w, d, z)
    BY <1>1, <1>2 DEF Raised, Held
  <2> QED
    BY <2>1, HoldersKept
<1>3. HoldersOf(S, n, y) = HoldersOf(S, m, y) \cup {<<w, c>>}
  <2>1. \A d \in Connections \ {c} : Held(n, w, d, y) <=> Held(m, w, d, y)
    BY DEF Raised, Held
  <2>2. Held(n, w, c, y)
    BY <1>1 DEF Held
  <2> QED
    BY <2>1, <2>2, HoldersMore
<1>4. <<w, c>> \notin HoldersOf(S, m, y)
  BY HolderPairs DEF Raised, Held
<1>5. Cardinality(HoldersOf(S, n, y)) = Cardinality(HoldersOf(S, m, y)) + 1
  <2> DEFINE H == HoldersOf(S, m, y)
  <2>1. IsFiniteSet(H) /\ <<w, c>> \notin H
    BY <1>4, HoldersOfFinite
  <2> HIDE DEF H
  <2>2. Cardinality(H \cup {<<w, c>>}) = Cardinality(H) + 1
    BY <2>1, FS_AddElement
  <2> QED
    BY <1>3, <2>2 DEF H
<1>6. /\ a \in [Z -> Nat] /\ b \in [Z -> Nat] /\ l \in [Z -> Nat]
      /\ \A z \in Z : a[z] = Cardinality(HoldersOf(S, m, z)) + b[z] /\ a[z] <= l[z]
      /\ a[y] < l[y]
  BY DEF Counted, LimitReached
<1> DEFINE f == [a EXCEPT ![y] = @ + 1]
<1>7. /\ f \in [Z -> Nat] /\ f[y] = a[y] + 1
      /\ \A z \in Z : z # y => f[z] = a[z]
  BY <1>6
<1>8. Cardinality(HoldersOf(S, m, y)) \in Nat
  BY HoldersOfFinite
<1> HIDE DEF f
<1>9. ASSUME NEW z \in Z
      PROVE  f[z] = Cardinality(HoldersOf(S, n, z)) + b[z] /\ f[z] <= l[z]
  <2>1. CASE z = y
    BY ONLY <1>5, <1>6, <1>7, <1>8, <2>1
  <2>2. CASE z # y
    BY <1>2, <1>6, <1>7, <2>2
  <2> QED
    BY <2>1, <2>2
<1>10. Counted(S, n, Z, f, b, l)
  BY <1>6, <1>7, <1>9 DEF Counted
<1> QED
  BY <1>10 DEF f

\* A session raises a counter and ends without a cleanup for it.
LEMMA CountedLeaked ==
    ASSUME NEW S, IsFiniteSet(S), NEW m, NEW n, NEW w \in S, Others(n, m, S, w),
           NEW c \in Connections, Run(n[w], m[w], c), CleanupsOnce(m[w]),
           NEW Z, NEW y \in Z,
           NEW a, NEW b, NEW l, Counted(S, m, Z, a, b, l), ~LimitReached(a[y], l[y])
    PROVE  Counted(S, n, Z, Lowered([a EXCEPT ![y] = @ + 1], m[w], {c}),
                   [b EXCEPT ![y] = @ + 1], l)
<1> DEFINE f == [a EXCEPT ![y] = @ + 1]
           g == [b EXCEPT ![y] = @ + 1]
<1>1. /\ a \in [Z -> Nat] /\ b \in [Z -> Nat] /\ l \in [Z -> Nat]
      /\ \A z \in Z : a[z] = Cardinality(HoldersOf(S, m, z)) + b[z] /\ a[z] <= l[z]
      /\ a[y] < l[y]
  BY DEF Counted, LimitReached
<1>2. /\ f \in [Z -> Nat] /\ f[y] = a[y] + 1
      /\ \A z \in Z : z # y => f[z] = a[z]
  BY <1>1
<1>3. /\ g \in [Z -> Nat] /\ g[y] = b[y] + 1
      /\ \A z \in Z : z # y => g[z] = b[z]
  BY <1>1
<1> HIDE DEF f, g
<1>4. Counted(S, m, Z, f, g, l)
  <2>1. ASSUME NEW z \in Z
        PROVE  f[z] = Cardinality(HoldersOf(S, m, z)) + g[z] /\ f[z] <= l[z]
    <3>1. Cardinality(HoldersOf(S, m, z)) \in Nat
      BY HoldersOfFinite
    <3>2. /\ a[z] \in Nat /\ b[z] \in Nat /\ l[z] \in Nat
          /\ a[z] = Cardinality(HoldersOf(S, m, z)) + b[z] /\ a[z] <= l[z]
      BY <1>1
    <3>3. CASE z = y
      BY ONLY <1>1, <1>2, <1>3, <3>1, <3>2, <3>3
    <3>4. CASE z # y
      BY <1>2, <1>3, <3>2, <3>4
    <3> QED
      BY <3>3, <3>4
  <2> QED
    BY <1>1, <1>2, <1>3, <2>1 DEF Counted
<1>5. Counted(S, n, Z, Lowered(f, m[w], {c}), g, l)
  BY <1>4, CountedRun
<1> QED
  BY <1>5 DEF f, g

\* All sessions of the worker are lost.
LEMMA CountedDied ==
    ASSUME NEW S, IsFiniteSet(S), NEW m, NEW n, NEW w \in S, Others(n, m, S, w),
           \A c \in Connections : n[w].conn[c].cleanup = <<>>,
           NEW Z, NEW a, NEW b, NEW l, Counted(S, m, Z, a, b, l)
    PROVE  Counted(S, n, Z, a, [z \in Z |-> b[z] + Cardinality(Share(S, m, w, z))], l)
<1>1. ASSUME NEW z \in Z
      PROVE  /\ b[z] + Cardinality(Share(S, m, w, z)) \in Nat
             /\ a[z] = Cardinality(HoldersOf(S, n, z))
                           + (b[z] + Cardinality(Share(S, m, w, z)))
  <2>1. \A d \in Connections : ~Held(n, w, d, z)
    BY DEF Held, ToSet
  <2>2. Cardinality(HoldersOf(S, n, z)) + Cardinality(Share(S, m, w, z))
           = Cardinality(HoldersOf(S, m, z))
    BY <2>1, HoldersDied
  <2>3. IsFiniteSet(HoldersOf(S, m, z)) /\ Cardinality(HoldersOf(S, n, z)) \in Nat
    BY HoldersOfFinite
  <2>4. Share(S, m, w, z) \subseteq HoldersOf(S, m, z)
    BY DEF Share
  <2>5. Cardinality(Share(S, m, w, z)) \in Nat
    BY <2>3, <2>4, FS_Subset, FS_CardinalityType
  <2>6. a[z] = Cardinality(HoldersOf(S, m, z)) + b[z] /\ b[z] \in Nat
    BY DEF Counted
  <2> QED
    BY ONLY <2>2, <2>3, <2>5, <2>6
<1> DEFINE g == [z \in Z |-> b[z] + Cardinality(Share(S, m, w, z))]
<1>2. g \in [Z -> Nat]
  BY <1>1
<1>3. \A z \in Z : a[z] = Cardinality(HoldersOf(S, n, z)) + g[z]
  BY <1>1
<1> HIDE DEF g
<1>4. Counted(S, n, Z, a, g, l)
  BY <1>2, <1>3 DEF Counted
<1> QED
  BY <1>4 DEF g

-----------------------------------------------------------------------------
(* The same of a step of Accept                                            *)

CountInv == Counted(Workers, worker, Zones, zones, lost, conf.limits)

CountKept(v, wk) == Kept(v, wk) /\ zones' = zones /\ lost' = lost
CountRun(v, wk) ==
    /\ \E c \in Connections : Run(v, wk, c) /\ zones' = Lowered(zones, wk, {c})
    /\ lost' = lost
CountRaised(v, wk) ==
    /\ \E c \in Connections, y \in Zones :
          /\ Raised(v, wk, c, y)
          /\ ~LimitReached(zones[y], conf.limits[y])
          /\ zones' = [zones EXCEPT ![y] = @ + 1]
    /\ lost' = lost
CountLeaked(v, wk) ==
    \E c \in Connections, y \in Zones :
        /\ Run(v, wk, c)
        /\ ~LimitReached(zones[y], conf.limits[y])
        /\ zones' = Lowered([zones EXCEPT ![y] = @ + 1], wk, {c})
        /\ lost' = [lost EXCEPT ![y] = @ + 1]
CountDied(v, w) ==
    /\ \A c \in Connections : v.conn[c].cleanup = <<>>
    /\ lost' = [z \in Zones |-> lost[z] + Cardinality(Share(Workers, worker, w, z))]
    /\ zones' = zones

CountStep(v, wk) ==
    CountKept(v, wk) \/ CountRun(v, wk) \/ CountRaised(v, wk) \/ CountLeaked(v, wk)

\* What the configurations promise of zones, limits and workers
LEMMA ConfigurationFacts ==
    ASSUME conf \in Configurations
    PROVE  /\ conf.limits \in Seq(Nat \ {0}) /\ Zones \subseteq Nat
           /\ conf.limits \in [Zones -> Nat] /\ IsFiniteSet(Workers)
           /\ Zones = 1..Len(conf.limits) /\ Len(conf.limits) \in Nat
<1>1. conf.limits \in Seq(Nat \ {0}) /\ conf.workers \in Nat
  BY AcceptAssumption DEF AcceptAssumption
<1>2. Zones = 1..Len(conf.limits) /\ Len(conf.limits) \in Nat
  BY <1>1, LenProperties DEF Zones
<1>3. \A z \in Zones : conf.limits[z] \in Nat
  BY <1>1, <1>2, ElementOfSeq
<1>4. conf.limits \in [Zones -> Nat]
  BY <1>1, <1>2, <1>3, LenProperties
<1>5. IsFiniteSet(Workers)
  BY <1>1, FS_Interval DEF Workers
<1> QED
  BY <1>1, <1>2, <1>4, <1>5

\* A step of one of these kinds keeps the counters right,
LEMMA CountStepKeeps ==
    ASSUME CountInv, conf \in Configurations, conf' = conf,
           NEW w \in Workers, Others(worker', worker, Workers, w),
           CleanupsOnce(worker[w]), CountStep(worker'[w], worker[w])
    PROVE  CountInv'
<1> DEFINE l == conf.limits
<1>1. Counted(Workers, worker, Zones, zones, lost, l)
  BY DEF CountInv
<1>2. SUFFICES Counted(Workers, worker', Zones, zones', lost', l)
  BY DEF CountInv, Workers, Zones
<1>3. IsFiniteSet(Workers) /\ Zones \subseteq Nat
  BY ConfigurationFacts
<1>4. CASE CountKept(worker'[w], worker[w])
  BY <1>1, <1>4, CountedKept DEF CountKept
<1>5. CASE CountRun(worker'[w], worker[w])
  BY <1>1, <1>3, <1>5, CountedRun DEF CountRun
<1>6. CASE CountRaised(worker'[w], worker[w])
  <2>1. PICK c \in Connections, y \in Zones :
           /\ Raised(worker'[w], worker[w], c, y)
           /\ ~LimitReached(zones[y], l[y])
           /\ zones' = [zones EXCEPT ![y] = @ + 1]
    BY <1>6 DEF CountRaised
  <2>2. y \in Nat /\ lost' = lost
    BY <1>3, <1>6 DEF CountRaised
  <2> QED
    BY <1>1, <1>3, <2>1, <2>2, CountedRaised
<1>7. CASE CountLeaked(worker'[w], worker[w])
  <2>1. PICK c \in Connections, y \in Zones :
           /\ Run(worker'[w], worker[w], c)
           /\ ~LimitReached(zones[y], l[y])
           /\ zones' = Lowered([zones EXCEPT ![y] = @ + 1], worker[w], {c})
           /\ lost' = [lost EXCEPT ![y] = @ + 1]
    BY <1>7 DEF CountLeaked
  <2> QED
    BY <1>1, <1>3, <2>1, CountedLeaked
<1> QED
  BY <1>4, <1>5, <1>6, <1>7 DEF CountStep

\* and so does the death of a worker.
LEMMA CountDiedKeeps ==
    ASSUME CountInv, conf \in Configurations, conf' = conf,
           NEW w \in Workers, Others(worker', worker, Workers, w),
           CountDied(worker'[w], w)
    PROVE  CountInv'
<1> DEFINE l == conf.limits
<1>1. Counted(Workers, worker, Zones, zones, lost, l)
  BY DEF CountInv
<1>2. SUFFICES Counted(Workers, worker', Zones, zones', lost', l)
  BY DEF CountInv, Workers, Zones
<1>3. IsFiniteSet(Workers) /\ Zones \subseteq Nat
  BY ConfigurationFacts
<1> QED
  BY <1>1, <1>3, CountedDied DEF CountDied

\* Steps that change no counter and no cleanup
LEMMA CountUnchanged ==
    ASSUME CountInv, UNCHANGED <<conf, worker, zones, lost>>
    PROVE  CountInv'
  BY DEF CountInv, Workers, Zones

-----------------------------------------------------------------------------
(* The invariant of the system, and what a step of worker w must keep      *)

WorkerOK(wk) == WorkerPool(wk) /\ Registered(wk, Zones)

Settled ==
    /\ conf \in Configurations
    /\ DOMAIN worker = Workers
    /\ owner \in {0} \cup Workers
    /\ \A w \in Workers : WorkerOK(worker[w])

\* What is known of a worker before its step.
LEMMA SettledWorker ==
    ASSUME Settled, NEW w \in Workers
    PROVE  /\ WorkerPool(worker[w]) /\ Registered(worker[w], Zones)
           /\ Pool(worker[w], {}) /\ DOMAIN worker[w] = Fields
           /\ worker[w].pc \notin {"batch", "accept", "start"} => worker[w].batch = {}
           /\ CleanupsOnce(worker[w])
<1>1. WorkerPool(worker[w]) /\ Registered(worker[w], Zones)
  BY DEF Settled, WorkerOK
<1>2. Pool(worker[w], {}) /\ DOMAIN worker[w] = Fields
      /\ worker[w].conn \in [Connections -> ConnectionRecords]
  BY <1>1 DEF WorkerPool, Pool, PoolType
<1>3. worker[w].pc \notin {"batch", "accept", "start"} => worker[w].batch = {}
  BY <1>1 DEF WorkerPool, BatchInv
<1>4. CleanupsOnce(worker[w])
  BY <1>1, <1>2 DEF Registered, CleanupsOnce, ConnectionRecords
<1> QED
  BY <1>1, <1>2, <1>3, <1>4

\* A step is told by the worker's new record.
LEMMA StepSettles ==
    ASSUME Settled, CountInv, NEW w \in Workers, NEW v, Become(w, v), conf' = conf,
           owner' \in {0, w, owner}, WorkerPool(v), Registered(v, Zones),
           CountStep(v, worker[w]) \/ CountDied(v, w)
    PROVE  Settled' /\ CountInv'
<1>1. Workers' = Workers /\ Zones' = Zones
  BY DEF Workers, Zones
<1>2. /\ DOMAIN worker' = Workers /\ worker'[w] = v
      /\ Others(worker', worker, Workers, w)
  BY DEF Settled, Become, Others
<1>3. ASSUME NEW u \in Workers PROVE WorkerPool(worker'[u]) /\ Registered(worker'[u], Zones)
  <2>1. CASE u = w
    BY <1>2, <2>1
  <2>2. CASE u # w
    <3>1. worker'[u] = worker[u]
      BY <1>2, <2>2 DEF Others
    <3>2. WorkerPool(worker[u]) /\ Registered(worker[u], Zones)
      BY SettledWorker
    <3> QED
      BY <3>1, <3>2
  <2> QED
    BY <2>1, <2>2
<1>4. ASSUME NEW u \in Workers' PROVE WorkerOK(worker[u])'
  BY <1>1, <1>3 DEF WorkerOK
<1>5. conf' \in Configurations /\ owner' \in {0} \cup Workers
  BY DEF Settled
<1>6. Settled'
  BY <1>1, <1>2, <1>4, <1>5 DEF Settled
<1>7. CountInv'
  <2>1. conf \in Configurations /\ CleanupsOnce(worker[w])
    BY SettledWorker DEF Settled
  <2> QED
    BY <1>2, <2>1, CountStepKeeps, CountDiedKeeps
<1> QED
  BY <1>6, <1>7

\* A step that moves the worker in its loop
LEMMA LoopSettles ==
    ASSUME Settled, CountInv, NEW w \in Workers, NEW v, Become(w, v), conf' = conf,
           owner' \in {0, w, owner}, zones' = zones, lost' = lost,
           Elsewhen(v, worker[w]), worker[w].pc # "start"
    PROVE  Settled' /\ CountInv'
<1>1. WorkerPool(v) /\ Registered(v, Zones)
  BY SettledWorker, LoopOK
<1>2. CountKept(v, worker[w])
  BY DEF CountKept, Kept, Elsewhen, SamePool
<1> QED
  BY <1>1, <1>2, StepSettles DEF CountStep

\* What a handler that may end a session does to the cleanups
Effect(x, m, c) ==
    \/ Kept(x, m) /\ Ended(m, x) = {}
    \/ Run(x, m, c) /\ Ended(m, x) = {c}

\* m and x have the connections of wk and v, but for a session's tries.
LEMMA EffectOfOutcome ==
    ASSUME NEW wk, Pool(wk, {}), NEW v, NEW c \in Connections, Outcome(v, wk, c),
           NEW x, x.conn = v.conn,
           NEW m, \A d \in Connections : /\ m.conn[d].cleanup = wk.conn[d].cleanup
                                         /\ m.conn[d].use = wk.conn[d].use
    PROVE  Effect(x, m, c)
<1>1. \/ Kept(v, wk) /\ Ended(wk, v) = {}
      \/ Run(v, wk, c) /\ Ended(wk, v) = {c}
  BY OutcomeCleanups
<1>2. Ended(m, x) = Ended(wk, v)
  BY DEF Ended
<1>3. (Kept(v, wk) => Kept(x, m)) /\ (Run(v, wk, c) => Run(x, m, c))
  BY DEF Kept, Run
<1> QED
  BY <1>1, <1>2, <1>3 DEF Effect

\* The zones are lowered for the session that ends, if one does.
LEMMA EffectCounts ==
    ASSUME NEW x, NEW m, NEW c \in Connections, Effect(x, m, c), CountInv,
           zones' = Lowered(zones, m, Ended(m, x)), lost' = lost
    PROVE  CountStep(x, m)
<1>1. CASE Kept(x, m) /\ Ended(m, x) = {}
  <2>1. zones \in [Zones -> Int]
    BY DEF CountInv, Counted
  <2>2. zones' = zones
    BY <1>1, <2>1, LoweredByNone
  <2> QED
    BY <1>1, <2>2 DEF CountStep, CountKept
<1>2. CASE Run(x, m, c) /\ Ended(m, x) = {c}
  BY <1>2 DEF CountStep, CountRun
<1> QED
  BY <1>1, <1>2 DEF Effect

\* A handler of an event or a timer of a session, and what the step does to
\* the worker's record around it
LEMMA HandlerSettles ==
    ASSUME Settled, CountInv, NEW w \in Workers, conf' = conf, owner' = owner,
           NEW wk, WorkerPool(wk), Registered(wk, Zones), wk.conn = worker[w].conn,
           wk.pc # "start", NEW v, NEW c \in Connections, Outcome(v, wk, c),
           SameControl(v, wk), Session(w, wk, v)
    PROVE  Settled' /\ CountInv'
<1>1. WorkerPool(v) /\ Registered(v, Zones)
  BY OutcomeOK
<1>2. Effect(v, worker[w], c)
  BY EffectOfOutcome DEF WorkerPool
<1>3. zones' = Lowered(zones, worker[w], Ended(worker[w], v)) /\ lost' = lost
  <2>1. Ended(wk, v) = Ended(worker[w], v)
    BY DEF Ended
  <2> DEFINE E == Ended(worker[w], v)
  <2>2. zones' = Lowered(zones, wk, E) /\ lost' = lost
    BY <2>1 DEF Session
  <2> HIDE DEF E
  <2>3. Lowered(zones, wk, E) = Lowered(zones, worker[w], E)
    BY DEF Lowered, CleanupsOf
  <2> QED
    BY <2>2, <2>3 DEF E
<1>4. CountStep(v, worker[w])
  BY <1>2, <1>3, EffectCounts
<1>5. Become(w, v)
  BY DEF Session
<1> QED
  BY <1>1, <1>4, <1>5, StepSettles

\* The bounds of ngx_accept_disabled
LEMMA ReserveFacts ==
    /\ Reserve \in Nat /\ ConnectionN \in Nat /\ 1 <= Reserve
    /\ 0 \in 0..Reserve /\ 1 \in 0..Reserve
  BY AcceptAssumption, ConnectionAssumption DEF AcceptAssumption, ConnectionAssumption

\* ngx_trylock_accept_mutex() and what is around it
LEMMA LockSettles ==
    ASSUME Settled, CountInv, NEW w \in Workers, Lock(w) PROVE Settled' /\ CountInv'
<1> DEFINE wk == [worker[w] EXCEPT !.pc = "poll", !.post = FALSE, !.soon = FALSE]
           tries == conf.mutex /\ wk.disabled = 0
           skip == [wk EXCEPT !.disabled = IF conf.mutex /\ @ > 0 THEN @ - 1 ELSE @]
<1>1. /\ DOMAIN worker[w] = Fields /\ WorkerPool(worker[w])
      /\ worker[w].pc = "posted" /\ worker[w].batch = {}
  BY SettledWorker DEF Lock
<1>2. /\ DOMAIN wk = Fields /\ wk.pc = "poll" /\ Elsewhen(wk, worker[w])
  BY <1>1 DEF Elsewhen, SamePool, WorkerPool, Fields
<1>3. /\ \E v \in {skip, Locked(wk), NotLocked(wk)} : Become(w, v)
      /\ owner' \in {0, w, owner} /\ conf' = conf /\ zones' = zones /\ lost' = lost
  BY DEF Lock
<1> HIDE DEF wk
<1>4. Elsewhen(skip, worker[w])
  <2>1. skip.disabled \in 0..Reserve
    <3>1. wk.disabled \in 0..Reserve
      BY <1>2 DEF Elsewhen
    <3>2. IF conf.mutex /\ wk.disabled > 0 THEN wk.disabled - 1 \in 0..Reserve
                                           ELSE wk.disabled \in 0..Reserve
      BY <3>1, ReserveFacts
    <3> QED
      BY <1>2, <3>2 DEF Fields
  <2> QED
    BY <1>2, <2>1 DEF Elsewhen, SamePool, Fields
<1>5. Elsewhen(Locked(wk), worker[w])
  BY <1>2 DEF Elsewhen, SamePool, Fields, Locked, Enable
<1>6. Elsewhen(NotLocked(wk), worker[w])
  BY <1>2 DEF Elsewhen, SamePool, Fields, NotLocked, Disable
<1> QED
  BY <1>1, <1>3, <1>4, <1>5, <1>6, LoopSettles

\* A sequence of the elements of a set, each once
LEMMA InSetToSeqs ==
    ASSUME NEW S \in SUBSET Connections, NEW q \in SetToSeqs(S)
    PROVE  List(q) /\ ToSet(q) \subseteq S
<1>1. IsFiniteSet(Connections)
  BY ConnectionAssumption, FS_Interval DEF Connections, ConnectionAssumption
<1>2. Cardinality(S) \in Nat
  BY <1>1, FS_Subset, FS_CardinalityType
<1> DEFINE n == Cardinality(S)
<1>3. /\ q \in [1..n -> S]
      /\ \A i, j \in 1..n : i # j => q[i] # q[j]
  BY DEF SetToSeqs
<1> HIDE DEF n
<1>4. q \in Seq(Connections)
  BY <1>2, <1>3, SeqDef DEF n
<1> QED
  BY <1>3, <1>4 DEF List, ToSet, IsInjective

\* epoll_wait(): the events have the bits of their connections.
LEMMA PollSettles ==
    ASSUME Settled, CountInv, NEW w \in Workers, Poll(w) PROVE Settled' /\ CountInv'
<1> DEFINE wk == [worker[w] EXCEPT !.taken = [c \in Connections |-> 0]]
           queued(q) == [wk EXCEPT !.posted = q, !.ret = "unlock",
                                   !.pc = IF Waiting(wk) THEN "accept" ELSE "unlock"]
           batch(b) == [wk EXCEPT !.pc = "batch", !.batch = b]
           events(S) == {[c |-> c, inst |-> wk.inst[c]] : c \in S}
           listen == IF Waiting(wk) THEN {[c |-> 0, inst |-> 0]} ELSE {}
<1>1. /\ DOMAIN worker[w] = Fields /\ WorkerPool(worker[w]) /\ Pool(worker[w], {})
      /\ Registered(worker[w], Zones) /\ worker[w].batch = {}
      /\ worker[w].pc = "poll"
  <2>1. DOMAIN worker[w] = Fields /\ wk.pc = "poll"
    BY SettledWorker DEF Poll
  <2>2. worker[w].pc = "poll"
    BY <2>1 DEF Fields
  <2> QED
    BY <2>2, SettledWorker
<1>2. /\ DOMAIN wk = Fields /\ wk.batch = {}
      /\ wk.free = worker[w].free /\ wk.posted = worker[w].posted
      /\ wk.inst = worker[w].inst /\ wk.conn = worker[w].conn
      /\ wk.taken = [c \in Connections |-> 0]
      /\ wk.disabled = worker[w].disabled /\ wk.ret = worker[w].ret
  BY <1>1 DEF Fields
<1>3. PICK ready \in SUBSET Active(wk) :
         \/ \E q \in SetToSeqs(ready) : Become(w, queued(q))
         \/ Become(w, batch(events(ready) \cup listen))
  BY DEF Poll
<1>4. conf' = conf /\ owner' = owner /\ zones' = zones /\ lost' = lost
  BY DEF Poll
<1> HIDE DEF wk
<1>5. ready \subseteq Connections /\ \A c \in ready : c \notin ToSet(wk.free)
  <2>1. \A c \in Active(wk) : c \in Connections /\ wk.conn[c].active
    BY DEF Active
  <2>2. \A c \in Connections : wk.conn[c].active => wk.conn[c].use # "free"
    <3>1. ~Unused.active
      BY DEF Unused
    <3>2. \A c \in Connections : wk.conn[c].use = "free" => wk.conn[c] = Unused
      BY <1>1, <1>2 DEF Pool, Linked
    <3> QED
      BY <3>1, <3>2
  <2> QED
    BY <1>1, <1>2, <2>1, <2>2 DEF Pool
<1>6. /\ wk.taken \in [Connections -> 0..3]
      /\ \A c \in Connections : PhaseOf(wk, c) = wk.inst[c]
  BY <1>2 DEF PhaseOf
<1>7. Pool(wk, {})
  BY <1>1, <1>2, <1>6 DEF Pool, PoolType, Tidy, Linked, Paired
<1>8. ASSUME NEW q \in SetToSeqs(ready)
      PROVE  WorkerPool(queued(q)) /\ queued(q).conn = wk.conn /\ queued(q).pc # "start"
             /\ queued(q).pc # "dead"
  <2> DEFINE v == queued(q)
  <2>1. /\ DOMAIN v = Fields /\ v.pc \in {"accept", "unlock"} /\ v.batch = {}
        /\ v.free = wk.free /\ v.posted = q /\ v.inst = wk.inst /\ v.conn = wk.conn
        /\ v.taken = wk.taken /\ v.disabled = wk.disabled /\ v.ret = "unlock"
    BY <1>2 DEF Fields
  <2> HIDE DEF v
  <2>2. List(q) /\ \A c \in ToSet(q) : c \notin ToSet(v.free)
    BY <1>5, <2>1, InSetToSeqs
  <2>3. Pool(v, {})
    BY <1>7, <2>1, <2>2 DEF Pool, PoolType, Tidy, Linked, Paired
  <2>4. WorkerPool(v)
    BY <1>1, <1>2, <2>1, <2>3 DEF WorkerPool, BatchInv
  <2> QED
    BY <2>1, <2>4 DEF v
<1>9. LET v == batch(events(ready) \cup listen)
      IN WorkerPool(v) /\ v.conn = wk.conn /\ v.pc # "start" /\ v.pc # "dead"
  <2> DEFINE v == batch(events(ready) \cup listen)
  <2>1. /\ DOMAIN v = Fields /\ v.pc = "batch" /\ v.batch = events(ready) \cup listen
        /\ v.free = wk.free /\ v.posted = wk.posted /\ v.inst = wk.inst
        /\ v.conn = wk.conn /\ v.taken = wk.taken /\ v.disabled = wk.disabled
        /\ v.ret = wk.ret
    BY <1>2 DEF Fields
  <2>2. \A e \in v.batch : e.c # 0 => e.c \in Connections /\ e.inst = wk.inst[e.c]
    BY <1>5, <2>1
  <2> HIDE DEF v
  <2>3. Pool(v, {}) /\ \A c \in Connections : PhaseOf(v, c) = wk.inst[c]
    BY <1>6, <1>7, <2>1 DEF Pool, PoolType, Tidy, Linked, Paired, PhaseOf
  <2>4. BatchInv(v)
    BY <2>1, <2>2, <2>3 DEF BatchInv
  <2>5. WorkerPool(v)
    BY <1>1, <1>2, <2>1, <2>3, <2>4 DEF WorkerPool
  <2> QED
    BY <2>1, <2>5 DEF v
<1>10. PICK v : Become(w, v) /\ WorkerPool(v) /\ v.conn = wk.conn /\ v.pc # "start"
                /\ v.pc # "dead"
  <2> HIDE DEF queued, batch
  <2> QED
    BY <1>3, <1>8, <1>9
<1>11. Registered(v, Zones)
  BY <1>1, <1>2, <1>10 DEF Registered
<1>12. CountStep(v, worker[w])
  BY <1>2, <1>4, <1>10 DEF CountStep, CountKept, Kept
<1> QED
  BY <1>4, <1>10, <1>11, <1>12, StepSettles

\* An event that passes the stale check is of a session, or of the listening
\* socket; others are dropped.
LEMMA DispatchSettles ==
    ASSUME Settled, CountInv, NEW w \in Workers, Dispatch(w) PROVE Settled' /\ CountInv'
<1>1. PICK e \in worker[w].batch :
         LET wk == [worker[w] EXCEPT !.batch = @ \ {e}, !.ret = "batch"]
         IN IF e.c = 0
            THEN /\ Become(w, IF wk.listening THEN [wk EXCEPT !.pc = "accept"]
                                              ELSE wk)
                 /\ UNCHANGED <<zones, lost>>
            ELSE \E v \in IF Passes(wk, e) THEN Handled(wk, e.c) ELSE {wk} :
                    Session(w, wk, v)
  BY DEF Dispatch
<1> DEFINE wk == [worker[w] EXCEPT !.batch = @ \ {e}, !.ret = "batch"]
<1>2. conf' = conf /\ owner' = owner /\ worker[w].pc = "batch"
  BY DEF Dispatch
<1>3. /\ DOMAIN worker[w] = Fields /\ WorkerPool(worker[w])
      /\ Registered(worker[w], Zones)
  BY SettledWorker
<1>4. DOMAIN wk = Fields /\ wk.pc = "batch" /\ Elsewhen(wk, worker[w])
  BY <1>2, <1>3 DEF Elsewhen, SamePool, WorkerPool, Fields
<1>5. wk.conn = worker[w].conn
  BY <1>4 DEF Elsewhen, SamePool
<1> HIDE DEF wk
<1>6. CASE e.c = 0
  <2> DEFINE v == IF wk.listening THEN [wk EXCEPT !.pc = "accept"] ELSE wk
  <2>1. Become(w, v) /\ zones' = zones /\ lost' = lost
    BY <1>1, <1>6 DEF wk
  <2>2. Elsewhen(v, worker[w])
    <3>1. wk.ret = "batch"
      BY <1>3 DEF wk, Fields
    <3>2. Elsewhen([wk EXCEPT !.pc = "accept"], worker[w])
      BY <1>4, <3>1 DEF Elsewhen, SamePool, Fields
    <3> QED
      BY <1>4, <3>2
  <2> HIDE DEF v
  <2> QED
    BY <1>2, <2>1, <2>2, LoopSettles
<1>7. CASE e.c # 0 /\ ~Passes(wk, e)
  <2>1. Session(w, wk, wk)
    BY <1>1, <1>7 DEF wk
  <2>2. Become(w, wk) /\ lost' = lost /\ zones' = Lowered(zones, wk, Ended(wk, wk))
    BY <2>1 DEF Session
  <2>3. Ended(wk, wk) = {}
    BY DEF Ended
  <2>4. zones \in [Zones -> Int]
    BY DEF CountInv, Counted
  <2>5. zones' = zones
    BY <2>2, <2>3, <2>4, LoweredByNone
  <2> QED
    BY <1>2, <1>4, <2>2, <2>5, LoopSettles
<1>8. CASE e.c # 0 /\ Passes(wk, e)
  <2>1. PICK v \in Handled(wk, e.c) : Session(w, wk, v)
    BY <1>1, <1>8 DEF wk
  <2>2. WorkerPool(wk) /\ Registered(wk, Zones) /\ Pool(wk, {})
    BY <1>2, <1>3, <1>4, LoopOK DEF WorkerPool
  <2>3. e.c \in Connections
    BY <1>3, <1>8 DEF WorkerPool, BatchInv
  <2>4. wk.conn[e.c].use \in {"client", "upstream"}
    BY <1>8, <2>2, <2>3, RecordFields DEF Passes, Pool, Linked, Uses
  <2>5. PICK c \in Connections : Outcome(v, wk, c)
    BY <2>1, <2>2, <2>3, <2>4, HandledKeeps
  <2>6. SameControl(v, wk)
    BY <1>4, <2>1, SessionControl
  <2> QED
    BY <1>2, <1>4, <1>5, <2>1, <2>2, <2>5, <2>6, HandlerSettles
<1> QED
  BY <1>6, <1>7, <1>8

\* The steps between the handlers
LEMMA UnlockSettles ==
    ASSUME Settled, CountInv, NEW w \in Workers, Unlock(w) PROVE Settled' /\ CountInv'
<1> DEFINE wk == [worker[w] EXCEPT !.pc = "timers", !.post = FALSE, !.ret = "timers"]
<1>1. /\ conf' = conf /\ zones' = zones /\ lost' = lost /\ Become(w, wk)
      /\ owner' \in {0, w, owner} /\ worker[w].pc # "start"
      /\ worker[w].pc = "unlock" \/ worker[w].batch = {}
  BY DEF Unlock, Unlocked
<1>2. /\ DOMAIN worker[w] = Fields /\ WorkerPool(worker[w]) /\ worker[w].batch = {}
  BY <1>1, SettledWorker
<1>3. Elsewhen(wk, worker[w])
  BY <1>2 DEF Elsewhen, SamePool, WorkerPool, Fields
<1> HIDE DEF wk
<1> QED
  BY <1>1, <1>3, LoopSettles

\* ngx_event_expire_timers(), of sessions and of the accept event
LEMMA TimersSettle ==
    ASSUME Settled, CountInv, NEW w \in Workers,
           Expire(w) \/ AcceptTimer(w) \/ TimersDone(w)
    PROVE  Settled' /\ CountInv'
<1>1. conf' = conf /\ owner' = owner /\ worker[w].pc = "timers"
  BY DEF Expire, AcceptTimer, TimersDone
<1>2. /\ DOMAIN worker[w] = Fields /\ WorkerPool(worker[w]) /\ worker[w].batch = {}
      /\ Registered(worker[w], Zones) /\ Pool(worker[w], {})
  BY <1>1, SettledWorker
<1>3. CASE Expire(w)
  <2>1. PICK c \in Clients(worker[w]) :
           \E v \in TimedOut(worker[w], c) : Session(w, worker[w], v)
    BY <1>3 DEF Expire
  <2>2. PICK v \in TimedOut(worker[w], c) : Session(w, worker[w], v)
    BY <2>1
  <2>3. c \in Connections /\ worker[w].conn[c].use = "client"
    BY <2>1 DEF Clients
  <2>4. PICK d \in Connections : Outcome(v, worker[w], d)
    BY <1>2, <2>2, <2>3, HandledKeeps
  <2>5. SameControl(v, worker[w])
    BY <1>2, <2>2, SessionControl
  <2> QED
    BY <1>1, <1>2, <2>2, <2>4, <2>5, HandlerSettles
<1>4. CASE AcceptTimer(w)
  <2> DEFINE wk == [Enable(worker[w]) EXCEPT !.timer = FALSE, !.pc = "accept"]
  <2>1. Become(w, wk) /\ zones' = zones /\ lost' = lost
    BY <1>4 DEF AcceptTimer
  <2>2. Elsewhen(wk, worker[w])
    BY <1>2 DEF Elsewhen, SamePool, WorkerPool, Fields, Enable
  <2> HIDE DEF wk
  <2> QED
    BY <1>1, <2>1, <2>2, LoopSettles
<1>5. CASE TimersDone(w)
  <2> DEFINE wk == [worker[w] EXCEPT !.pc = "posted", !.ret = "posted"]
  <2>1. Become(w, wk) /\ zones' = zones /\ lost' = lost
    BY <1>5 DEF TimersDone
  <2>2. Elsewhen(wk, worker[w])
    BY <1>2 DEF Elsewhen, SamePool, WorkerPool, Fields
  <2> HIDE DEF wk
  <2> QED
    BY <1>1, <2>1, <2>2, LoopSettles
<1> QED
  BY <1>3, <1>4, <1>5

\* A posted event is of a connection in use; a new one is started.
LEMMA PostedSettles ==
    ASSUME Settled, CountInv, NEW w \in Workers, Posted(w) PROVE Settled' /\ CountInv'
<1> DEFINE wk == [worker[w] EXCEPT !.posted = Tail(@)]
           c == Head(worker[w].posted)
           started == [wk EXCEPT !.pc = "start", !.cur = c, !.k = 0]
<1>1. /\ conf' = conf /\ owner' = owner /\ worker[w].pc = "posted"
      /\ worker[w].posted # <<>>
  BY DEF Posted
<1>2. /\ DOMAIN worker[w] = Fields /\ WorkerPool(worker[w]) /\ worker[w].batch = {}
      /\ Registered(worker[w], Zones) /\ Pool(worker[w], {})
  BY <1>1, SettledWorker
<1>3. /\ c \in Connections /\ c \in ToSet(worker[w].posted) /\ List(Tail(worker[w].posted))
      /\ ToSet(Tail(worker[w].posted)) \subseteq ToSet(worker[w].posted)
  BY <1>1, <1>2, Popped DEF Pool, PoolType
<1>4. /\ DOMAIN wk = Fields /\ wk.pc = "posted" /\ wk.batch = {}
      /\ wk.free = worker[w].free /\ wk.posted = Tail(worker[w].posted)
      /\ wk.inst = worker[w].inst /\ wk.conn = worker[w].conn
      /\ wk.taken = worker[w].taken
      /\ wk.disabled = worker[w].disabled /\ wk.ret = worker[w].ret
  BY <1>1, <1>2 DEF Fields
<1>5. \/ wk.conn[c].use = "new" /\ Become(w, started) /\ zones' = zones /\ lost' = lost
      \/ wk.conn[c].use # "new" /\ \E v \in Handled(wk, c) : Session(w, wk, v)
  BY DEF Posted
<1> HIDE DEF wk, c
<1>6. Pool(wk, {})
  BY <1>2, <1>3, <1>4 DEF Pool, PoolType, Tidy, Linked, Paired
<1>7. WorkerPool(wk) /\ Registered(wk, Zones)
  BY <1>1, <1>2, <1>4, <1>6 DEF WorkerPool, BatchInv, Registered
<1>8. CASE wk.conn[c].use = "new" /\ Become(w, started) /\ zones' = zones /\ lost' = lost
  <2>1. /\ DOMAIN started = Fields /\ started.pc = "start" /\ started.batch = {}
        /\ started.cur = c /\ started.k = 0 /\ started.ret = wk.ret
        /\ started.free = wk.free /\ started.posted = wk.posted
        /\ started.inst = wk.inst /\ started.conn = wk.conn
        /\ started.taken = wk.taken /\ started.disabled = wk.disabled
    BY <1>4 DEF Fields
  <2> HIDE DEF started
  <2>2. Pool(started, {})
    BY <1>6, <2>1 DEF Pool, PoolType, Tidy, Linked, Paired
  <2>3. WorkerPool(started)
    BY <1>3, <1>7, <1>8, <2>1, <2>2 DEF WorkerPool, BatchInv
  <2>4. wk.conn[c].cleanup = <<>>
    BY <1>3, <1>4, <1>7, <1>8 DEF Registered
  <2>5. Registered(started, Zones)
    BY <1>4, <1>7, <2>1, <2>4 DEF Registered, ToSet
  <2>6. CountStep(started, worker[w])
    BY <1>4, <1>8, <2>1 DEF CountStep, CountKept, Kept
  <2> QED
    BY <1>1, <1>8, <2>3, <2>5, <2>6, StepSettles
<1>9. ASSUME wk.conn[c].use # "new", NEW v \in Handled(wk, c), Session(w, wk, v)
      PROVE  Settled' /\ CountInv'
  <2>1. wk.conn[c].use \in {"client", "upstream"}
    BY <1>2, <1>3, <1>4, <1>9, RecordFields DEF Pool, Uses
  <2>2. PICK d \in Connections : Outcome(v, wk, d)
    BY <1>3, <1>6, <1>9, <2>1, HandledKeeps
  <2>3. SameControl(v, wk)
    BY <1>4, <1>9, SessionControl
  <2> QED
    BY <1>1, <1>4, <1>7, <1>9, <2>2, <2>3, HandlerSettles
<1> QED
  BY <1>5, <1>8, <1>9

-----------------------------------------------------------------------------
(* The accept handler *)

\* Its ways out change the position only.
LEMMA ExitFields ==
    ASSUME NEW wk, DOMAIN wk = Fields, NEW v \in {Return(wk), Again(wk)}
    PROVE  /\ SamePool(v, wk) /\ v.batch = wk.batch /\ v.disabled = wk.disabled
           /\ v.pc \in {"accept", wk.ret} /\ v.ret = wk.ret
           /\ v.cur = 0 /\ v.k = 0
  BY DEF SamePool, Fields, Return, Again

\* A way out of the accept handler is a move in the loop.
LEMMA ExitElsewhen ==
    ASSUME NEW wk, WorkerPool(wk), wk.pc = "accept",
           NEW u, DOMAIN u = Fields, SamePool(u, wk), u.batch = wk.batch, u.ret = wk.ret,
           u.disabled \in 0..Reserve, NEW v \in {Return(u), Again(u)}
    PROVE  Elsewhen(v, wk)
<1>1. /\ SamePool(v, u) /\ v.batch = u.batch /\ v.disabled = u.disabled
      /\ v.pc \in {"accept", u.ret} /\ v.ret = u.ret
  BY ExitFields
<1>2. SamePool(v, wk)
  BY <1>1 DEF SamePool
<1>3. wk.batch # {} => wk.ret = "batch"
  BY DEF WorkerPool, BatchInv
<1> QED
  BY <1>1, <1>2, <1>3 DEF WorkerPool, Elsewhen

\* Nobody waits, or the client has gone.
LEMMA NoClientSettles ==
    ASSUME Settled, CountInv, NEW w \in Workers, NobodyWaits(w) \/ Aborted(w)
    PROVE  Settled' /\ CountInv'
<1>1. /\ conf' = conf /\ owner' = owner /\ zones' = zones /\ lost' = lost
      /\ worker[w].pc = "accept"
  BY DEF NobodyWaits, Aborted
<1>2. PICK v \in {Return(worker[w]), Again(worker[w])} : Become(w, v)
  BY DEF NobodyWaits, Aborted
<1>3. Elsewhen(v, worker[w])
  <2>1. WorkerPool(worker[w]) /\ DOMAIN worker[w] = Fields
    BY SettledWorker
  <2>2. SamePool(worker[w], worker[w]) /\ worker[w].disabled \in 0..Reserve
    BY <2>1 DEF SamePool, WorkerPool
  <2> QED
    BY <1>1, <1>2, <2>1, <2>2, ExitElsewhen
<1> QED
  BY <1>1, <1>2, <1>3, LoopSettles

\* EMFILE disables accepting for one iteration.
LEMMA OutOfFilesSettles ==
    ASSUME Settled, CountInv, NEW w \in Workers, OutOfFiles(w)
    PROVE  Settled' /\ CountInv'
<1> DEFINE u == NoFiles(worker[w])
<1>1. /\ conf' = conf /\ owner' \in {0, w, owner} /\ zones' = zones /\ lost' = lost
      /\ worker[w].pc = "accept" /\ Become(w, Return(u))
  BY DEF OutOfFiles, Unlocked
<1>2. WorkerPool(worker[w]) /\ DOMAIN worker[w] = Fields
  BY SettledWorker
<1>3. /\ DOMAIN u = Fields /\ SamePool(u, worker[w]) /\ u.batch = worker[w].batch
      /\ u.ret = worker[w].ret
  BY <1>2 DEF NoFiles, Disable, SamePool, Fields
<1>4. u.disabled \in 0..Reserve
  <2>1. u.disabled \in {1, worker[w].disabled}
    BY <1>2 DEF NoFiles, Disable, Fields
  <2> QED
    BY <1>2, <2>1, ReserveFacts DEF WorkerPool
<1> HIDE DEF u
<1>5. Elsewhen(Return(u), worker[w])
  BY <1>1, <1>2, <1>3, <1>4, ExitElsewhen
<1> QED
  BY <1>1, <1>5, LoopSettles

\* A client is accepted, dropped, or accepted and closed again.
LEMMA AcceptedSettles ==
    ASSUME Settled, CountInv, NEW w \in Workers, Accepted(w)
    PROVE  Settled' /\ CountInv'
<1> DEFINE m == worker[w]
           used == [m EXCEPT !.disabled =
                       IF Reserve > Len(m.free) THEN Reserve - Len(m.free) ELSE 0]
           c == Head(used.free)
           wk == GetConnection(used, "new")
           closed == CloseAcceptedConnection(wk, c)
           posted == [wk EXCEPT !.posted = Append(@, c)]
           started == [wk EXCEPT !.pc = "start", !.cur = c, !.k = 0]
<1>1. /\ conf' = conf /\ owner' = owner /\ zones' = zones /\ lost' = lost
      /\ m.pc = "accept"
      /\ \/ Become(w, Return(used))
         \/ used.free # <<>> /\ Become(w, Return(closed))
         \/ used.free # <<>> /\ Become(w, Again(posted))
         \/ used.free # <<>> /\ Become(w, started)
  BY DEF Accepted
<1>2. /\ WorkerPool(m) /\ DOMAIN m = Fields /\ Pool(m, {}) /\ Registered(m, Zones)
  BY SettledWorker
<1>3. /\ DOMAIN used = Fields /\ SamePool(used, m) /\ used.batch = m.batch
      /\ used.ret = m.ret /\ used.pc = m.pc
  BY <1>2 DEF SamePool, Fields
<1>4. used.disabled \in 0..Reserve
  <2> DEFINE n == Len(m.free)
  <2>1. n \in Nat
    BY <1>2, InList DEF Pool, PoolType
  <2>2. used.disabled = IF Reserve > n THEN Reserve - n ELSE 0
    BY <1>2 DEF Fields
  <2> HIDE DEF n, used
  <2> QED
    BY <2>1, <2>2, ReserveFacts
<1> HIDE DEF m, used
<1>5. Elsewhen(Return(used), m)
  BY <1>1, <1>2, <1>3, <1>4, ExitElsewhen
<1>6. CASE Become(w, Return(used))
  BY <1>1, <1>5, <1>6, LoopSettles DEF m
<1>7. ASSUME used.free # <<>>
      PROVE  /\ c \in Connections /\ m.conn[c].use = "free" /\ m.conn[c] = Unused
             /\ Pool(wk, {}) /\ Pool(wk, {c}) /\ Aside(wk, used)
             /\ wk.conn = [m.conn EXCEPT ![c] = [Unused EXCEPT !.use = "new"]]
             /\ c \notin ToSet(wk.free) /\ c \notin ToSet(wk.posted)
             /\ DOMAIN wk = Fields /\ wk.pc = "accept" /\ wk.ret = m.ret
             /\ wk.batch = m.batch /\ wk.disabled = used.disabled
             /\ m.conn \in [Connections -> ConnectionRecords]
  <2>1. Pool(used, {}) /\ used.conn = m.conn
    BY <1>2, <1>3, SamePoolKeeps DEF SamePool
  <2>2. /\ c \in Connections /\ used.conn[c].use = "free"
        /\ Pool(wk, {} \cup {c}) /\ Aside(wk, used)
        /\ wk.conn = [used.conn EXCEPT ![c] = [Unused EXCEPT !.use = "new"]]
        /\ wk.posted = used.posted
    BY <1>7, <2>1, GetKeeps
  <2>3. SameControl(wk, used)
    BY <1>3 DEF GetConnection, SameControl, Fields
  <2>4. m.conn \in [Connections -> ConnectionRecords] /\ used.conn[c] = Unused
    BY <1>2, <2>1, <2>2 DEF Pool, PoolType, Linked
  <2>5. c \in ToSet(used.free) /\ c \notin ToSet(used.posted)
    BY <2>1, <2>2 DEF Pool
  <2> HIDE DEF c, wk
  <2>6. Pool(wk, {c})
    BY <2>2
  <2>7. wk.conn[c] = [Unused EXCEPT !.use = "new"]
    BY <2>1, <2>2, <2>4
  <2>8. wk.conn[c].use = "new" /\ wk.conn[c].peer = 0 /\ ~wk.conn[c].active
    BY <2>7, UnusedRecord DEF Uses, Unused
  <2>9. Pool(wk, {})
    <3>1. \A d \in {c} : Linked(wk, d)
      BY <2>8 DEF Linked
    <3> QED
      BY <2>6, <3>1, Linking
  <2>10. c \notin ToSet(wk.free)
    BY <2>2, <2>8, <2>9 DEF Pool
  <2> QED
    BY <1>1, <1>3, <2>1, <2>2, <2>3, <2>4, <2>5, <2>6, <2>9, <2>10 DEF SameControl, Aside
\* the cleanups of a connection just taken
<1>8. ASSUME used.free # <<>>
      PROVE  \A d \in Connections :
                wk.conn[d].cleanup = m.conn[d].cleanup
                /\ (d # c => wk.conn[d] = m.conn[d])
                /\ (d = c => m.conn[d].cleanup = <<>>)
  <2>1. ([Unused EXCEPT !.use = "new"]).cleanup = <<>> /\ Unused.cleanup = <<>>
    BY DEF Unused
  <2> HIDE DEF c, wk
  <2> QED
    BY <1>7, <1>8, <2>1
<1> HIDE DEF c, wk
<1>9. CASE used.free # <<>> /\ Become(w, Return(closed))
  <2>1. Pool(closed, {c} \ {c}) /\ Aside(closed, wk)
        /\ closed.conn = [wk.conn EXCEPT ![c] = Unused]
    BY <1>7, <1>9, CloseAcceptedKeeps
  <2>2. SameControl(closed, wk)
    BY <1>7, <1>9 DEF CloseAcceptedConnection, FreeConnection, SameControl, Fields
  <2> HIDE DEF closed
  <2>3. Pool(closed, {})
    <3>1. {c} \ {c} = {}
      OBVIOUS
    <3> QED
      BY <2>1, <3>1
  <2>4. closed.conn = m.conn
    BY <1>7, <1>9, <2>1
  <2>5. /\ closed.pc = "accept" /\ closed.ret = m.ret /\ closed.batch = m.batch
        /\ closed.disabled = used.disabled /\ DOMAIN closed = Fields
        /\ \A d \in Connections : PhaseOf(closed, d) = PhaseOf(m, d)
    <3>1. \A d \in Connections : PhaseOf(used, d) = PhaseOf(m, d)
      BY <1>2, <1>3, SamePoolKeeps
    <3> QED
      BY <1>7, <1>9, <2>1, <2>2, <3>1 DEF SameControl, Aside
  <2>6. WorkerPool(closed) /\ Registered(closed, Zones)
    <3>1. WorkerPool(closed)
      BY <1>1, <1>2, <1>4, <2>3, <2>5 DEF WorkerPool, BatchInv
    <3> QED
      BY <1>1, <1>2, <2>4, <2>5, <3>1 DEF Registered
  <2>7. Elsewhen(Return(closed), closed)
    BY <2>5, <2>6, ExitElsewhen DEF WorkerPool, SamePool
  <2>8. WorkerPool(Return(closed)) /\ Registered(Return(closed), Zones)
    BY <2>5, <2>6, <2>7, LoopOK
  <2>9. CountStep(Return(closed), m)
    BY <1>1, <2>4, <2>7 DEF CountStep, CountKept, Kept, Elsewhen, SamePool
  <2> QED
    BY <1>1, <1>9, <2>8, <2>9, StepSettles DEF m
\* the record with a new session, not registered with epoll yet
<1>10. ASSUME used.free # <<>>
       PROVE  WorkerPool(wk) /\ Registered(wk, Zones)
  <2>1. \A d \in Connections : PhaseOf(wk, d) = PhaseOf(m, d)
    BY <1>2, <1>3, <1>7, <1>10, SamePoolKeeps DEF Aside
  <2>2. WorkerPool(wk)
    BY <1>1, <1>2, <1>4, <1>7, <1>10, <2>1 DEF WorkerPool, BatchInv
  <2>3. Registered(wk, Zones)
    BY <1>1, <1>2, <1>7, <1>8, <1>10 DEF Registered
  <2> QED
    BY <2>2, <2>3
<1>11. CASE used.free # <<>> /\ Become(w, Again(posted))
  <2>1. /\ DOMAIN posted = Fields /\ posted.pc = "accept" /\ posted.ret = wk.ret
        /\ posted.batch = wk.batch /\ posted.disabled = wk.disabled
        /\ posted.free = wk.free /\ posted.posted = Append(wk.posted, c)
        /\ posted.inst = wk.inst /\ posted.taken = wk.taken /\ posted.conn = wk.conn
    BY <1>7, <1>11 DEF Fields
  <2> HIDE DEF posted
  <2>2. List(posted.posted) /\ ToSet(posted.posted) = ToSet(wk.posted) \cup {c}
    BY <1>7, <1>11, <2>1, Appended DEF Pool, PoolType
  <2>3. Pool(posted, {})
    BY <1>7, <1>11, <2>1, <2>2 DEF Pool, PoolType, Tidy, Linked, Paired
  <2>4. WorkerPool(posted)
    BY <1>7, <1>10, <1>11, <2>1, <2>3 DEF WorkerPool, BatchInv, PhaseOf
  <2>5. Registered(posted, Zones)
    BY <1>7, <1>10, <1>11, <2>1 DEF Registered
  <2>6. Elsewhen(Again(posted), posted)
    BY <2>1, <2>4, ExitElsewhen DEF WorkerPool, SamePool
  <2>7. WorkerPool(Again(posted)) /\ Registered(Again(posted), Zones)
    BY <2>1, <2>4, <2>5, <2>6, LoopOK
  <2>8. CountStep(Again(posted), m)
    BY <1>1, <1>8, <1>11, <2>1, <2>6 DEF CountStep, CountKept, Kept, Elsewhen, SamePool
  <2> QED
    BY <1>1, <1>11, <2>7, <2>8, StepSettles DEF m
<1>12. CASE used.free # <<>> /\ Become(w, started)
  <2>1. /\ DOMAIN started = Fields /\ started.pc = "start" /\ started.ret = wk.ret
        /\ started.cur = c /\ started.k = 0
        /\ started.batch = wk.batch /\ started.disabled = wk.disabled
        /\ started.free = wk.free /\ started.posted = wk.posted
        /\ started.inst = wk.inst /\ started.taken = wk.taken /\ started.conn = wk.conn
    BY <1>7, <1>12 DEF Fields
  <2> HIDE DEF started
  <2>2. wk.conn[c].use = "new" /\ wk.conn[c].cleanup = <<>> /\ c \in Connections
    <3>1. wk.conn[c] = [Unused EXCEPT !.use = "new"]
      BY <1>7, <1>12
    <3> QED
      BY <1>7, <1>12, <3>1 DEF Unused
  <2>3. Pool(started, {})
    BY <1>7, <1>12, <2>1 DEF Pool, PoolType, Tidy, Linked, Paired
  <2>4. WorkerPool(started)
    BY <1>7, <1>10, <1>12, <2>1, <2>2, <2>3 DEF WorkerPool, BatchInv, PhaseOf
  <2>5. Registered(started, Zones)
    BY <1>7, <1>10, <1>12, <2>1, <2>2 DEF Registered, ToSet
  <2>6. CountStep(started, m)
    BY <1>1, <1>8, <1>12, <2>1 DEF CountStep, CountKept, Kept
  <2> QED
    BY <1>1, <1>12, <2>4, <2>5, <2>6, StepSettles DEF m
<1> QED
  BY <1>1, <1>6, <1>9, <1>11, <1>12

-----------------------------------------------------------------------------
(* The start of a session *)

\* What is known of the session being started
LEMMA StartFacts ==
    ASSUME NEW wk, NEW Z, Z \subseteq Nat, WorkerPool(wk), Registered(wk, Z),
           wk.pc = "start"
    PROVE  /\ Pool(wk, {}) /\ DOMAIN wk = Fields /\ InHand(wk, wk.cur)
           /\ wk.cur \in Connections /\ wk.conn[wk.cur].use = "new"
           /\ wk.conn \in [Connections -> ConnectionRecords]
           /\ wk.k \in Nat /\ wk.k + 1 \notin ToSet(wk.conn[wk.cur].cleanup)
           /\ wk.conn[wk.cur].cleanup \in Seq(Nat)
<1>1. /\ Pool(wk, {}) /\ wk.cur \in Connections /\ wk.conn[wk.cur].use = "new"
  BY DEF WorkerPool
<1>2. DOMAIN wk = Fields /\ wk.conn \in [Connections -> ConnectionRecords]
  BY <1>1 DEF Pool, PoolType
<1>3. InHand(wk, wk.cur)
  BY <1>1, Unlinked DEF InHand, Owned
<1>4. wk.k \in Nat /\ wk.k + 1 \notin ToSet(wk.conn[wk.cur].cleanup)
  BY DEF Registered
<1>5. wk.conn[wk.cur].cleanup \in Seq(Nat)
  BY <1>1, <1>2 DEF ConnectionRecords
<1> QED
  BY <1>1, <1>2, <1>3, <1>4, <1>5

\* The session has been started, or ended, and its start returns.
LEMMA StartedOK ==
    ASSUME NEW wk, NEW Z, WorkerPool(wk), Registered(wk, Z), wk.pc = "start",
           NEW v, Outcome(v, wk, wk.cur), SameControl(v, wk)
    PROVE  WorkerPool(Started(v)) /\ Registered(Started(v), Z) /\ Started(v).conn = v.conn
<1> DEFINE x == Started(v)
           c == wk.cur
<1>1. /\ DOMAIN v = Fields /\ v.pc = "start" /\ v.ret = wk.ret
      /\ Pool(v, {}) /\ Aside(v, wk)
  BY DEF SameControl, Outcome, Ends, Steady
<1>2. /\ SamePool(x, v) /\ x.batch = v.batch /\ x.disabled = v.disabled
      /\ x.pc \in {"accept", v.ret} /\ x.ret = v.ret
  BY <1>1, ExitFields DEF Started
<1> HIDE DEF x
<1>3. Pool(x, {}) /\ \A d \in Connections : PhaseOf(x, d) = PhaseOf(wk, d)
  BY <1>1, <1>2, SamePoolKeeps DEF Aside
<1>4. wk.batch # {} => wk.ret = "batch"
  BY DEF WorkerPool, BatchInv
<1>5. /\ x.pc \notin {"start", "dead"} /\ x.ret = wk.ret /\ x.batch = wk.batch
      /\ x.disabled = wk.disabled
  BY <1>1, <1>2 DEF WorkerPool, Aside
<1>6. WorkerPool(x)
  BY <1>1, <1>2, <1>3, <1>4, <1>5 DEF WorkerPool, BatchInv
<1>7. x.conn = v.conn
  BY <1>2 DEF SamePool
<1>8. ASSUME NEW d \in Connections
      PROVE  /\ v.conn[d].cleanup = <<>> \/ v.conn[d].cleanup = wk.conn[d].cleanup
             /\ v.conn[d].use = "new" => v.conn[d].cleanup = <<>>
  <2>1. v.conn[d].use \in Uses /\ Tidy(v, d)
    BY <1>1, RecordFields DEF Pool
  <2>2. v.conn[d].use = "free" \/ SameSession(v, wk, d)
    BY DEF Outcome, Ends, Steady
  <2>3. d = c => v.conn[d].use # "new"
    BY DEF Outcome, Ends
  <2>4. wk.conn[d].use = "new" /\ d # c => wk.conn[d].cleanup = <<>>
    BY DEF Registered
  <2> QED
    BY <2>1, <2>2, <2>3, <2>4 DEF Uses, Tidy, SameSession, Owned
<1>9. IsInjective(<<>>) /\ ToSet(<<>>) = {}
  BY DEF IsInjective, ToSet
<1>10. Registered(x, Z)
  BY <1>5, <1>7, <1>8, <1>9 DEF Registered
<1> QED
  BY <1>6, <1>7, <1>10 DEF x

\* A session in its start that ends has its cleanups run.
LEMMA StartEnds ==
    ASSUME NEW wk, NEW Z, Z \subseteq Nat, WorkerPool(wk), Registered(wk, Z),
           wk.pc = "start"
    PROVE  LET v == CloseSession(wk, wk.cur)
           IN /\ Outcome(v, wk, wk.cur) /\ SameControl(v, wk) /\ Run(v, wk, wk.cur)
<1> DEFINE v == CloseSession(wk, wk.cur)
           c == wk.cur
<1>1. Pool(wk, {}) /\ DOMAIN wk = Fields /\ c \in Connections /\ Owned(wk, c)
  BY StartFacts DEF Owned
<1>2. Pool(v, {}) /\ Ends(v, wk, c)
  BY <1>1, CloseSessionKeeps
<1>3. Outcome(v, wk, c)
  BY <1>2 DEF Outcome
<1>4. SameControl(v, wk)
  BY <1>1, CloseSessionControl
<1> HIDE DEF v, c
<1>5. c \in Ended(wk, v)
  BY <1>1, <1>2 DEF Ends, Ended, Owned
<1>6. Run(v, wk, c)
  BY <1>1, <1>3, <1>5, OutcomeCleanups
<1> QED
  BY <1>3, <1>4, <1>6 DEF v, c

\* Only the record of the session being started is rewritten, its use is not.
StartUpdate(v, wk, r) ==
    /\ DOMAIN v = Fields /\ v.free = wk.free /\ v.posted = wk.posted
    /\ v.inst = wk.inst /\ v.taken = wk.taken /\ v.batch = wk.batch
    /\ v.disabled = wk.disabled /\ v.cur = wk.cur
    /\ v.pc = wk.pc /\ v.ret = wk.ret
    /\ v.conn = [wk.conn EXCEPT ![wk.cur] = r]
    /\ r \in ConnectionRecords
    /\ r.use = wk.conn[wk.cur].use /\ r.peer = wk.conn[wk.cur].peer
    /\ r.active = wk.conn[wk.cur].active

\* That keeps the pool.
LEMMA StartUpdateKeeps ==
    ASSUME NEW wk, NEW Z, Z \subseteq Nat, WorkerPool(wk), Registered(wk, Z),
           wk.pc = "start", NEW v, NEW r, StartUpdate(v, wk, r)
    PROVE  /\ WorkerPool(v) /\ v.conn[wk.cur] = r
           /\ \A d \in Connections \ {wk.cur} : v.conn[d] = wk.conn[d]
<1> DEFINE c == wk.cur
<1>1. /\ Pool(wk, {}) /\ c \in Connections /\ wk.conn[c].use = "new"
      /\ wk.conn \in [Connections -> ConnectionRecords] /\ Pool(wk, {c})
  BY StartFacts DEF InHand
<1>2. /\ v.conn \in [Connections -> ConnectionRecords] /\ v.conn[c] = r
      /\ \A d \in Connections \ {c} : v.conn[d] = wk.conn[d]
  BY <1>1 DEF StartUpdate
<1>3. Linked(v, c) /\ Tidy(v, c) /\ r.use # "free"
  BY <1>1, <1>2 DEF StartUpdate, Pool, Linked, Tidy
<1>4. Pool(v, {c})
  BY <1>1, <1>2, <1>3, UpdateKeeps DEF StartUpdate
<1>5. Pool(v, {})
  <2>1. \A d \in {c} : Linked(v, d)
    BY <1>3
  <2> QED
    BY <1>4, <2>1, Linking
<1>6. WorkerPool(v)
  BY <1>1, <1>2, <1>5 DEF StartUpdate, WorkerPool, BatchInv, PhaseOf
<1> QED
  BY <1>2, <1>6

\* A zone is passed: the zones of a session are passed in order, so it does
\* not hold this one yet.
LEMMA PassSettles ==
    ASSUME Settled, CountInv, NEW w \in Workers, Pass(w) PROVE Settled' /\ CountInv'
<1> DEFINE wk == worker[w]
           c == wk.cur
           z == wk.k + 1
           r == [wk.conn[c] EXCEPT !.cleanup = <<z>> \o @]
           v == [wk EXCEPT !.k = z, !.conn[wk.cur].cleanup = <<z>> \o @]
<1>1. /\ wk.pc = "start" /\ wk.k < Len(conf.limits) /\ Become(w, v)
      /\ ~LimitReached(zones[z], conf.limits[z])
      /\ zones' = [zones EXCEPT ![z] = @ + 1]
      /\ conf' = conf /\ owner' = owner /\ lost' = lost
  BY DEF Pass
<1>2. /\ WorkerPool(wk) /\ Registered(wk, Zones)
      /\ Zones \subseteq Nat /\ Zones = 1..Len(conf.limits) /\ Len(conf.limits) \in Nat
  BY SettledWorker, ConfigurationFacts DEF Settled
<1> HIDE DEF wk
<1>3. /\ DOMAIN wk = Fields /\ c \in Connections /\ wk.conn[c].use = "new"
      /\ wk.conn \in [Connections -> ConnectionRecords]
      /\ wk.k \in Nat /\ z \notin ToSet(wk.conn[c].cleanup)
      /\ wk.conn[c].cleanup \in Seq(Nat)
  BY <1>1, <1>2, StartFacts
<1>4. z \in Zones /\ z \in Nat
  BY <1>1, <1>2, <1>3
<1> DEFINE l == <<z>> \o wk.conn[c].cleanup
<1>5. /\ l \in Seq(Nat) /\ ToSet(l) = ToSet(wk.conn[c].cleanup) \cup {z} /\ IsInjective(l)
  <2>1. IsInjective(wk.conn[c].cleanup)
    BY <1>2, <1>3 DEF Registered
  <2> QED
    BY <1>3, <1>4, <2>1, ToSetOfCons
<1> HIDE DEF l
<1>6. /\ DOMAIN v = Fields /\ v.free = wk.free /\ v.posted = wk.posted
      /\ v.inst = wk.inst /\ v.taken = wk.taken /\ v.batch = wk.batch
      /\ v.disabled = wk.disabled /\ v.cur = wk.cur
      /\ v.pc = wk.pc /\ v.ret = wk.ret /\ v.k = z
      /\ v.conn = [wk.conn EXCEPT ![wk.cur] = r]
  BY <1>3 DEF Fields
<1>7. /\ r \in ConnectionRecords /\ r.use = wk.conn[c].use /\ r.peer = wk.conn[c].peer
      /\ r.active = wk.conn[c].active /\ r.cleanup = l
  <2>1. wk.conn[c] \in ConnectionRecords
    BY <1>3
  <2> QED
    BY <1>5, <2>1 DEF ConnectionRecords, l
<1> HIDE DEF v, r, z
<1>8. /\ WorkerPool(v) /\ v.conn[c] = r
      /\ \A d \in Connections \ {c} : v.conn[d] = wk.conn[d]
  <2>1. StartUpdate(v, wk, r)
    BY <1>6, <1>7 DEF StartUpdate
  <2> QED
    BY <1>1, <1>2, <2>1, StartUpdateKeeps
<1>9. Registered(v, Zones)
  <2>1. \A d \in Connections : /\ IsInjective(v.conn[d].cleanup)
                               /\ ToSet(v.conn[d].cleanup) \subseteq Zones
    BY <1>2, <1>4, <1>5, <1>7, <1>8 DEF Registered
  <2>2. \A d \in Connections : v.conn[d].use = "new" /\ d # c => v.conn[d].cleanup = <<>>
    BY <1>2, <1>8 DEF Registered
  <2>3. \A y \in ToSet(v.conn[c].cleanup) : y <= z
    <3>1. \A y \in ToSet(wk.conn[c].cleanup) : y <= wk.k /\ y \in Nat
      BY <1>1, <1>2, <1>3 DEF Registered
    <3> QED
      BY <1>3, <1>5, <1>7, <1>8, <3>1 DEF z
  <2> QED
    BY <1>1, <1>4, <1>6, <2>1, <2>2, <2>3 DEF Registered
<1>10. CountStep(v, wk)
  <2>1. Raised(v, wk, c, z)
    BY <1>3, <1>7, <1>8 DEF Raised, l
  <2>2. CountRaised(v, wk)
    BY <1>1, <1>3, <1>4, <2>1 DEF CountRaised
  <2> QED
    BY <2>2 DEF CountStep
<1> QED
  BY <1>1, <1>8, <1>9, <1>10, StepSettles DEF wk

\* ngx_stream_limit_conn_cleanup_all()
LEMMA CleanupAllKeeps ==
    ASSUME NEW wk, NEW Z, Z \subseteq Nat, WorkerPool(wk), Registered(wk, Z),
           wk.pc = "start", NEW k \in Nat, k >= wk.k, NEW v,
           v \in {CleanupAll(wk, wk.cur), [CleanupAll(wk, wk.cur) EXCEPT !.k = k]}
    PROVE  /\ WorkerPool(v) /\ Registered(v, Z) /\ Run(v, wk, wk.cur)
           /\ v.pc = "start" /\ v.cur = wk.cur /\ DOMAIN v = Fields
<1> DEFINE c == wk.cur
           r == [wk.conn[c] EXCEPT !.cleanup = <<>>]
<1>1. /\ DOMAIN wk = Fields /\ c \in Connections
      /\ wk.conn \in [Connections -> ConnectionRecords]
      /\ wk.k \in Nat
  BY StartFacts
<1>2. /\ DOMAIN v = Fields /\ v.free = wk.free /\ v.posted = wk.posted
      /\ v.inst = wk.inst /\ v.taken = wk.taken /\ v.batch = wk.batch
      /\ v.disabled = wk.disabled /\ v.cur = wk.cur
      /\ v.pc = wk.pc /\ v.ret = wk.ret /\ v.k \in {wk.k, k}
      /\ v.conn = [wk.conn EXCEPT ![wk.cur] = r]
  BY <1>1 DEF Fields, CleanupAll
<1>3. /\ r \in ConnectionRecords /\ r.use = wk.conn[c].use /\ r.peer = wk.conn[c].peer
      /\ r.active = wk.conn[c].active /\ r.cleanup = <<>>
  <2>1. wk.conn[c] \in ConnectionRecords /\ <<>> \in Seq(Nat)
    BY <1>1
  <2> QED
    BY <2>1 DEF ConnectionRecords
<1> HIDE DEF r
<1>4. /\ WorkerPool(v) /\ v.conn[c] = r
      /\ \A d \in Connections \ {c} : v.conn[d] = wk.conn[d]
  <2>1. StartUpdate(v, wk, r)
    BY <1>2, <1>3 DEF StartUpdate
  <2> QED
    BY <2>1, StartUpdateKeeps
<1>5. IsInjective(<<>>) /\ ToSet(<<>>) = {}
  BY DEF IsInjective, ToSet
<1>6. Registered(v, Z)
  <2>1. \A d \in Connections : /\ IsInjective(v.conn[d].cleanup)
                               /\ ToSet(v.conn[d].cleanup) \subseteq Z
    BY <1>3, <1>4, <1>5 DEF Registered
  <2>2. \A d \in Connections : v.conn[d].use = "new" /\ d # c => v.conn[d].cleanup = <<>>
    BY <1>4 DEF Registered
  <2>3. v.k \in Nat /\ \A y \in ToSet(v.conn[c].cleanup) : y <= v.k
    BY <1>1, <1>2, <1>3, <1>4, <1>5
  <2> QED
    BY <1>2, <2>1, <2>2, <2>3 DEF Registered
<1>7. Run(v, wk, c)
  BY <1>3, <1>4 DEF Run
<1> QED
  BY <1>2, <1>4, <1>6, <1>7

\* A zone rejects the session: its cleanups are run once, and the end of the
\* session finds none.
LEMMA RejectSettles ==
    ASSUME Settled, CountInv, NEW w \in Workers, Reject(w) PROVE Settled' /\ CountInv'
<1> DEFINE wk == worker[w]
           c == wk.cur
           v == CleanupAll(wk, wk.cur)
           n == Len(conf.limits)
           passed == [v EXCEPT !.k = n]
           closed == CloseSession(v, c)
           rest == Lowered(zones, wk, {c})
<1>1. /\ wk.pc = "start" /\ wk.k < n
      /\ conf' = conf /\ owner' = owner /\ lost' = lost
      /\ \/ Become(w, passed) /\ zones' = rest
         \/ Become(w, Started(closed)) /\ zones' = Lowered(rest, v, {c})
  BY DEF Reject
<1>2. /\ WorkerPool(wk) /\ Registered(wk, Zones)
      /\ Zones \subseteq Nat /\ n \in Nat
  BY SettledWorker, ConfigurationFacts DEF Settled
<1> HIDE DEF wk, n
<1>3. /\ wk.k \in Nat /\ n >= wk.k /\ c \in Connections /\ IsInjective(wk.conn[c].cleanup)
  <2>1. wk.k \in Nat /\ c \in Connections
    BY <1>1, <1>2, StartFacts
  <2>2. IsInjective(wk.conn[c].cleanup)
    BY <1>2, <2>1 DEF Registered
  <2> QED
    BY <1>1, <1>2, <2>1, <2>2
<1>4. /\ WorkerPool(passed) /\ Registered(passed, Zones) /\ Run(passed, wk, c)
  BY <1>1, <1>2, <1>3, CleanupAllKeeps
<1>5. /\ WorkerPool(v) /\ Registered(v, Zones) /\ Run(v, wk, c)
      /\ v.pc = "start" /\ v.cur = c /\ DOMAIN v = Fields
  BY <1>1, <1>2, <1>3, CleanupAllKeeps
<1>6. CASE Become(w, passed) /\ zones' = rest
  <2>1. CountStep(passed, wk)
    BY <1>1, <1>3, <1>4, <1>6 DEF CountStep, CountRun
  <2> QED
    BY <1>1, <1>4, <1>6, <2>1, StepSettles DEF wk
<1>7. CASE Become(w, Started(closed)) /\ zones' = Lowered(rest, v, {c})
  <2> HIDE DEF v, c
  <2>1. Outcome(closed, v, c) /\ SameControl(closed, v) /\ Run(closed, v, c)
    BY <1>2, <1>5, StartEnds
  <2>2. /\ WorkerPool(Started(closed)) /\ Registered(Started(closed), Zones)
        /\ Started(closed).conn = closed.conn
    BY <1>5, <2>1, StartedOK
  <2>3. Run(Started(closed), wk, c)
    BY <1>5, <2>1, <2>2 DEF Run
  <2>4. rest \in [Zones -> Int]
    <3>1. zones \in [Zones -> Nat]
      BY DEF CountInv, Counted
    <3>2. ASSUME NEW z PROVE Cardinality(CleanupsOf(wk, {c}, z)) \in Int
      <4>1. Cardinality(CleanupsOf(wk, {c}, z)) =
               IF z \in ToSet(wk.conn[c].cleanup) THEN 1 ELSE 0
        BY <1>3, OneCleanup
      <4> QED
        BY ONLY <4>1
    <3> QED
      BY <3>1, <3>2 DEF Lowered
  <2>5. zones' = rest
    <3>1. \A d \in {c} : v.conn[d].cleanup = <<>>
      BY <1>5 DEF Run
    <3> HIDE DEF rest
    <3> QED
      BY <1>7, <2>4, <3>1, LoweredByNone
  <2>6. CountStep(Started(closed), wk)
    BY <1>1, <1>3, <2>3, <2>5 DEF CountStep, CountRun
  <2> QED
    BY <1>1, <1>7, <2>2, <2>6, StepSettles DEF wk
<1> QED
  BY <1>1, <1>6, <1>7

\* The cleanup cannot be allocated: the counter stays raised.
LEMMA LeakSettles ==
    ASSUME Settled, CountInv, NEW w \in Workers, Leak(w) PROVE Settled' /\ CountInv'
<1> DEFINE wk == worker[w]
           c == wk.cur
           z == wk.k + 1
           v == CloseSession(wk, wk.cur)
<1>1. /\ wk.pc = "start" /\ wk.k < Len(conf.limits)
      /\ ~LimitReached(zones[z], conf.limits[z])
      /\ zones' = Lowered([zones EXCEPT ![z] = @ + 1], wk, {c})
      /\ lost' = [lost EXCEPT ![z] = @ + 1]
      /\ Become(w, Started(v)) /\ conf' = conf /\ owner' = owner
  BY DEF Leak
<1>2. /\ WorkerPool(wk) /\ Registered(wk, Zones)
      /\ Zones \subseteq Nat /\ Zones = 1..Len(conf.limits) /\ Len(conf.limits) \in Nat
  BY SettledWorker, ConfigurationFacts DEF Settled
<1> HIDE DEF wk
<1>3. wk.k \in Nat /\ c \in Connections
  BY <1>1, <1>2, StartFacts
<1>4. z \in Zones
  BY <1>1, <1>2, <1>3
<1>5. Outcome(v, wk, c) /\ SameControl(v, wk) /\ Run(v, wk, c)
  BY <1>1, <1>2, StartEnds
<1>6. /\ WorkerPool(Started(v)) /\ Registered(Started(v), Zones) /\ Started(v).conn = v.conn
  BY <1>1, <1>2, <1>5, StartedOK
<1>7. Run(Started(v), wk, c)
  BY <1>5, <1>6 DEF Run
<1> HIDE DEF v, z, c
<1>8. CountStep(Started(v), wk)
  BY <1>1, <1>3, <1>4, <1>7 DEF CountStep, CountLeaked
<1> QED
  BY <1>1, <1>6, <1>8, StepSettles DEF wk

\* The session connects, or ends.
LEMMA ProxySettles ==
    ASSUME Settled, CountInv, NEW w \in Workers, Proxy(w) PROVE Settled' /\ CountInv'
<1> DEFINE wk == worker[w]
           c == wk.cur
           u == [wk EXCEPT !.conn[wk.cur].tries = Peers]
           r == [wk.conn[c] EXCEPT !.tries = Peers]
<1>1. wk.pc = "start" /\ conf' = conf /\ owner' = owner
  BY DEF Proxy
<1>2. PICK v \in Connects(u, c) : Session(w, wk, Started(v))
  BY DEF Proxy
<1>3. /\ WorkerPool(wk) /\ Registered(wk, Zones) /\ Zones \subseteq Nat
  BY SettledWorker, ConfigurationFacts DEF Settled
<1> HIDE DEF wk
<1>4. /\ DOMAIN wk = Fields /\ c \in Connections /\ wk.k \in Nat
      /\ wk.conn \in [Connections -> ConnectionRecords]
  BY <1>1, <1>3, StartFacts
<1>5. /\ DOMAIN u = Fields /\ u.free = wk.free /\ u.posted = wk.posted
      /\ u.inst = wk.inst /\ u.taken = wk.taken /\ u.batch = wk.batch
      /\ u.disabled = wk.disabled /\ u.cur = wk.cur
      /\ u.pc = wk.pc /\ u.ret = wk.ret /\ u.k = wk.k
      /\ u.conn = [wk.conn EXCEPT ![wk.cur] = r]
  BY <1>4 DEF Fields
<1>6. /\ r \in ConnectionRecords /\ r.use = wk.conn[c].use /\ r.peer = wk.conn[c].peer
      /\ r.active = wk.conn[c].active /\ r.cleanup = wk.conn[c].cleanup
  <2>1. wk.conn[c] \in ConnectionRecords /\ Peers \in Int
    BY <1>4, AcceptAssumption DEF AcceptAssumption
  <2> QED
    BY <2>1 DEF ConnectionRecords
<1> HIDE DEF u, r
<1>7. /\ WorkerPool(u) /\ u.conn[c] = r
      /\ \A d \in Connections \ {c} : u.conn[d] = wk.conn[d]
  <2>1. StartUpdate(u, wk, r)
    BY <1>5, <1>6 DEF StartUpdate
  <2> QED
    BY <1>1, <1>3, <2>1, StartUpdateKeeps
<1>8. \A d \in Connections : /\ wk.conn[d].cleanup = u.conn[d].cleanup
                             /\ wk.conn[d].use = u.conn[d].use
  BY <1>6, <1>7
<1>9. Registered(u, Zones)
  BY <1>1, <1>3, <1>5, <1>8, <1>4 DEF Registered
<1>10. u.pc = "start" /\ u.cur = c
  BY <1>1, <1>5
<1>11. Pool(u, {}) /\ InHand(u, c)
  BY <1>3, <1>7, <1>9, <1>10, StartFacts
<1>12. Outcome(v, u, c)
  BY <1>2, <1>11, ConnectsKeeps
<1>13. SameControl(v, u)
  BY <1>2, <1>5, ConnectsControl
<1>14. WorkerPool(Started(v)) /\ Registered(Started(v), Zones) /\ Started(v).conn = v.conn
  BY <1>7, <1>9, <1>10, <1>12, <1>13, StartedOK
<1>15. Effect(Started(v), wk, c)
  BY <1>4, <1>8, <1>11, <1>12, <1>14, EffectOfOutcome
<1>16. CountStep(Started(v), wk)
  BY <1>2, <1>4, <1>15, EffectCounts DEF Session
<1> QED
  BY <1>1, <1>2, <1>14, <1>16, StepSettles DEF Session, wk

-----------------------------------------------------------------------------
(* The world, and the master *)

\* A worker that starts, or is dead, has no sessions.
LEMMA FreshOK ==
    ASSUME NEW b \in BOOLEAN, NEW v, v \in {Fresh(b), [Fresh(b) EXCEPT !.pc = "dead"]},
           NEW Z
    PROVE  /\ WorkerPool(v) /\ Registered(v, Z)
           /\ \A c \in Connections : v.conn[c].cleanup = <<>>
<1>1. /\ DOMAIN v = Fields /\ v.pc \in {"posted", "dead"} /\ v.disabled = 0
      /\ v.batch = {} /\ v.posted = <<>> /\ v.ret = "posted"
      /\ v.free = [i \in Connections |-> i]
      /\ v.inst = [c \in Connections |-> 1] /\ v.taken = [c \in Connections |-> 0]
      /\ v.conn = [c \in Connections |-> Unused]
  <2>1. /\ DOMAIN Fresh(b) = Fields /\ Fresh(b).pc = "posted" /\ Fresh(b).disabled = 0
        /\ Fresh(b).batch = {} /\ Fresh(b).posted = <<>> /\ Fresh(b).ret = "posted"
        /\ Fresh(b).free = [i \in Connections |-> i]
        /\ Fresh(b).inst = [c \in Connections |-> 1]
        /\ Fresh(b).taken = [c \in Connections |-> 0]
        /\ Fresh(b).conn = [c \in Connections |-> Unused]
    BY DEF Fresh, Fields
  <2>2. CASE v = Fresh(b)
    BY <2>1, <2>2
  <2>3. CASE v = [Fresh(b) EXCEPT !.pc = "dead"]
    BY <2>1, <2>3 DEF Fields
  <2> QED
    BY <2>2, <2>3
<1>2. List(v.free) /\ ToSet(v.free) = Connections
  <2>1. ConnectionN \in Nat
    BY ConnectionAssumption DEF ConnectionAssumption
  <2> DEFINE f == [i \in Connections |-> i]
  <2>2. f \in Seq(Connections)
    BY <2>1 DEF Connections
  <2>3. DOMAIN f = Connections /\ \A i \in Connections : f[i] = i
    OBVIOUS
  <2> HIDE DEF f
  <2>4. List(f) /\ ToSet(f) = Connections
    BY <2>2, <2>3 DEF List, IsInjective, ToSet
  <2> QED
    BY <1>1, <2>4 DEF f
<1>3. List(v.posted) /\ ToSet(v.posted) = {} /\ IsInjective(<<>>)
  BY <1>1 DEF List, IsInjective, ToSet
<1>4. Unused \in ConnectionRecords /\ Unused.use = "free" /\ Unused.cleanup = <<>>
      /\ Unused.peer = 0
  BY UnusedRecord DEF Unused, ConnectionRecords, Uses
<1>5. PoolType(v)
  BY <1>1, <1>2, <1>3, <1>4 DEF PoolType
<1>6. Pool(v, {})
  BY <1>1, <1>2, <1>3, <1>4, <1>5 DEF Pool, Tidy, Linked
<1>7. WorkerPool(v)
  BY <1>1, <1>6, ReserveFacts DEF WorkerPool, BatchInv
<1>8. Registered(v, Z)
  BY <1>1, <1>3, <1>4 DEF Registered, ToSet
<1> QED
  BY <1>1, <1>4, <1>7, <1>8

\* A worker dies: its sessions' counts are lost.
LEMMA CrashSettles ==
    ASSUME Settled, CountInv, NEW w \in Workers, Crash(w) PROVE Settled' /\ CountInv'
<1> DEFINE v == [Fresh(FALSE) EXCEPT !.pc = "dead"]
<1>1. /\ Become(w, v) /\ conf' = conf /\ owner' = owner /\ zones' = zones
      /\ lost' = [z \in Zones |-> lost[z] + Cardinality({h \in Holders(z) : h[1] = w})]
  BY DEF Crash
<1>2. /\ WorkerPool(v) /\ Registered(v, Zones)
      /\ \A c \in Connections : v.conn[c].cleanup = <<>>
  BY FreshOK
<1> HIDE DEF v
<1>3. \A z : {h \in Holders(z) : h[1] = w} = Share(Workers, worker, w, z)
  BY DEF Share, Holders, HoldersOf
<1>4. CountDied(v, w)
  BY <1>1, <1>2, <1>3 DEF CountDied
<1> QED
  BY <1>1, <1>2, <1>4, StepSettles

\* The master starts another.
LEMMA RespawnSettles ==
    ASSUME Settled, CountInv, NEW w \in Workers, Respawn(w) PROVE Settled' /\ CountInv'
<1> DEFINE v == Fresh(~conf.mutex)
<1>1. /\ Become(w, v) /\ conf' = conf /\ owner' \in {0, w, owner}
      /\ zones' = zones /\ lost' = lost /\ worker[w].pc = "dead"
  BY DEF Respawn, Alive, Released
<1>2. /\ WorkerPool(v) /\ Registered(v, Zones)
      /\ \A c \in Connections : v.conn[c].cleanup = <<>>
  <2>1. (~conf.mutex) \in BOOLEAN
    OBVIOUS
  <2> QED
    BY <2>1, FreshOK
<1> HIDE DEF v
<1>3. \A c \in Connections : worker[w].conn[c].cleanup = <<>>
  BY <1>1, SettledWorker DEF Registered
<1>4. CountStep(v, worker[w])
  BY <1>1, <1>2, <1>3 DEF CountStep, CountKept, Kept
<1> QED
  BY <1>1, <1>2, <1>4, StepSettles

-----------------------------------------------------------------------------
\* No worker has a session at the start.
LEMMA SettledInit == Init => Settled /\ CountInv
<1> SUFFICES ASSUME Init PROVE Settled /\ CountInv
  OBVIOUS
<1>1. /\ conf \in Configurations /\ owner = 0
      /\ worker = [w \in Workers |-> Fresh(~conf.mutex)]
      /\ zones = [z \in Zones |-> 0] /\ lost = [z \in Zones |-> 0]
  BY DEF Init
<1>2. /\ conf.limits \in [Zones -> Nat] /\ IsFiniteSet(Workers)
  BY <1>1, ConfigurationFacts
<1>3. ASSUME NEW w \in Workers
      PROVE  /\ WorkerPool(worker[w]) /\ Registered(worker[w], Zones)
             /\ \A c \in Connections : worker[w].conn[c].cleanup = <<>>
  <2>1. (~conf.mutex) \in BOOLEAN /\ worker[w] = Fresh(~conf.mutex)
    BY <1>1
  <2> QED
    BY <2>1, FreshOK
<1>4. Settled
  BY <1>1, <1>3 DEF Settled, WorkerOK
<1>5. ASSUME NEW z PROVE Cardinality(HoldersOf(Workers, worker, z)) = 0
  <2>1. HoldersOf(Workers, worker, z) = {}
    BY <1>3 DEF HoldersOf, ToSet
  <2> QED
    BY <2>1, FS_EmptySet
<1>6. CountInv
  BY <1>1, <1>2, <1>5 DEF CountInv, Counted
<1> QED
  BY <1>4, <1>6

\* Every step keeps the invariant: a worker's by the lemmas above, the others
\* change no worker.
LEMMA SettledNext ==
    ASSUME Settled, CountInv, [Next]_vars PROVE Settled' /\ CountInv'
<1>1. CASE UNCHANGED vars \/ Arrive
  <2>1. UNCHANGED <<conf, worker, owner, zones, lost>>
    BY <1>1 DEF vars, Arrive
  <2>2. CountInv'
    BY <2>1, CountUnchanged
  <2>3. Settled'
    BY <2>1 DEF Settled, WorkerOK, Workers, Zones
  <2> QED
    BY <2>2, <2>3
<1>2. ASSUME NEW w \in Workers, Step(w) \/ Crash(w) \/ Respawn(w)
      PROVE  Settled' /\ CountInv'
  BY <1>2, LockSettles, PollSettles, DispatchSettles, UnlockSettles, TimersSettle,
     PostedSettles, NoClientSettles, OutOfFilesSettles, AcceptedSettles, PassSettles,
     RejectSettles, LeakSettles, ProxySettles, CrashSettles, RespawnSettles DEF Step
<1> QED
  BY <1>1, <1>2 DEF Next

\* The inductive invariant: every pool, every batch and every counter is in
\* order between the steps of all workers.
THEOREM SettledAlways == Spec => [](Settled /\ CountInv)
<1>1. Init => Settled /\ CountInv
  BY SettledInit
<1>2. (Settled /\ CountInv) /\ [Next]_vars => (Settled /\ CountInv)'
  BY SettledNext
<1> QED
  BY <1>1, <1>2, PTL DEF Spec

\* The invariant implies what the pool promises,
LEMMA PoolOfSettled == Settled => PoolIntact
<1> SUFFICES ASSUME Settled PROVE PoolIntact
  OBVIOUS
<1>1. owner \in {0} \cup Workers
  BY DEF Settled
<1>2. ASSUME NEW w \in Workers
      PROVE  LET wk == worker[w] IN
          /\ wk.disabled \in 0..Reserve
          /\ IsInjective(wk.free) /\ IsInjective(wk.posted)
          /\ ToSet(wk.free) = {c \in Connections : wk.conn[c].use = "free"}
          /\ ToSet(wk.posted) \cap ToSet(wk.free) = {}
          /\ wk.pc = "start" => wk.conn[wk.cur].use = "new"
          /\ \A c \in Connections :
                /\ wk.conn[c].use = "upstream"
                      => wk.conn[wk.conn[c].peer].peer = c
                /\ wk.conn[c].use = "client"
                      => wk.conn[wk.conn[c].peer].use = "upstream"
  <2> DEFINE wk == worker[w]
  <2>1. WorkerPool(wk) /\ Pool(wk, {})
    BY SettledWorker
  <2> HIDE DEF wk
  <2>2. wk.disabled \in 0..Reserve /\ (wk.pc = "start" => wk.conn[wk.cur].use = "new")
    BY <2>1 DEF WorkerPool
  <2>3. List(wk.free) /\ List(wk.posted)
    BY <2>1 DEF Pool, PoolType
  <2>4. ToSet(wk.free) \subseteq Connections
    BY <2>3, InList
  <2>5. ToSet(wk.free) = {c \in Connections : wk.conn[c].use = "free"}
    BY <2>1, <2>4 DEF Pool
  <2>6. ToSet(wk.posted) \cap ToSet(wk.free) = {}
    BY <2>1 DEF Pool
  <2>7. \A c \in Connections :
            /\ wk.conn[c].use = "upstream" => wk.conn[wk.conn[c].peer].peer = c
            /\ wk.conn[c].use = "client" => wk.conn[wk.conn[c].peer].use = "upstream"
    BY <2>1 DEF Pool, Linked, Paired
  <2> QED
    BY <2>2, <2>3, <2>5, <2>6, <2>7 DEF wk, List
<1> QED
  BY <1>1, <1>2 DEF PoolIntact

\* what the stale check catches: the bit has been flipped as often as the
\* connection was taken,
LEMMA StaleOfSettled == Settled => StaleCaught
<1> SUFFICES ASSUME Settled, NEW w \in Workers, NEW e \in worker[w].batch,
                    worker[w].pc = "batch", e.c # 0, Passes(worker[w], e)
             PROVE  worker[w].taken[e.c] \in {0, 2}
  BY DEF StaleCaught
<1> DEFINE wk == worker[w]
<1>1. WorkerPool(wk) /\ Pool(wk, {})
  BY SettledWorker
<1>2. e.c \in Connections /\ e.inst = PhaseOf(wk, e.c) /\ wk.inst[e.c] = e.inst
  BY <1>1 DEF WorkerPool, BatchInv, Passes
<1>3. wk.inst[e.c] \in {0, 1}
  BY <1>1, <1>2 DEF Pool, PoolType
<1> HIDE DEF wk
<1>4. wk.taken[e.c] \in {0, 2}
  BY <1>2, <1>3 DEF PhaseOf
<1> QED
  BY <1>4 DEF wk

\* and what the counters are.
LEMMA CountsOfInv == CountInv => ConnCounted
<1>1. \A z : Holders(z) = HoldersOf(Workers, worker, z)
  BY DEF Holders, HoldersOf
<1> QED
  BY <1>1 DEF CountInv, Counted, ConnCounted

\* No connection is leaked, freed twice, or queued after it has been freed
\* (ngx_get_connection(), ngx_close_connection(), ngx_free_connection()), and
\* the two sides of a session know each other, whichever handler ends what.
THEOREM PoolStaysIntact == Spec => []PoolIntact
  BY SettledAlways, PoolOfSettled, PTL

\* The instance bit in ngx_epoll_process_events() lets an event through for
\* the connection it was reported for, or after an even number of reuses.
THEOREM StaleAlwaysCaught == Spec => []StaleCaught
  BY SettledAlways, StaleOfSettled, PTL

\* Each zone of limit_conn counts the sessions that hold it and the counts
\* lost with workers or failed allocations, and never exceeds its limit.
THEOREM ConnAlwaysCounted == Spec => []ConnCounted
  BY SettledAlways, CountsOfInv, PTL
=============================================================================
