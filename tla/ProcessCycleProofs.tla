------------------------- MODULE ProcessCycleProofs -------------------------
(***************************************************************************)
(* The master's table of processes: for any number of workers and slots    *)
(* and any sequence of signals, deaths and failed forks, the table agrees  *)
(* with the kernel, a reload retires the old workers and nobody else, and  *)
(* the master keeps its number of workers.                                 *)
(***************************************************************************)
EXTENDS ProcessCycle, FiniteSetTheorems, WellFoundedInduction, TLAPS

-----------------------------------------------------------------------------
(* Induction over the natural numbers, for sets: the library's theorems    *)
(* for operators are out of the provers' reach, the well-foundedness of    *)
(* the order of finite sets is not.                                        *)

\* Among the numbers of a set there is a least one.
LEMMA LeastNumber ==
    ASSUME NEW T, T \subseteq Nat, T # {}
    PROVE  \E n \in T : \A m \in T : n <= m
<1>1. PICK k \in T : TRUE OBVIOUS
<1> DEFINE C == {0 .. m : m \in {i \in T : i <= k}}
<1>2. C \subseteq FiniteSubsetsOf(0 .. k)
  <2>1. \A m \in T : m <= k => 0 .. m \in SUBSET (0 .. k) BY <1>1
  <2>2. \A m \in T : IsFiniteSet(0 .. m) BY FS_Interval
  <2> QED BY <2>1, <2>2 DEF FiniteSubsetsOf
<1>3. C # {} BY <1>1
<1>4. IsWellFoundedOn(StrictSubsetOrdering(0 .. k), FiniteSubsetsOf(0 .. k))
  BY FS_StrictSubsetOrderingWellFounded
<1>5. PICK X \in C : \A Y \in C : <<Y, X>> \notin StrictSubsetOrdering(0 .. k)
  <2> HIDE DEF C
  <2> QED BY <1>2, <1>3, <1>4, WFMin
<1>6. PICK n \in T : n <= k /\ X = 0 .. n BY <1>5
<1>7. SUFFICES ASSUME NEW m \in T, m < n PROVE FALSE BY <1>6
<1>8. 0 .. m \in C BY <1>6, <1>7
<1>9. 0 .. m \subseteq 0 .. n /\ 0 .. m # 0 .. n
  <2>1. n \in 0 .. n /\ n \notin 0 .. m BY <1>7
  <2>2. 0 .. m \subseteq 0 .. n BY <1>7
  <2> QED BY <2>1, <2>2
<1>10. 0 .. m \in SUBSET (0 .. k) /\ 0 .. n \in SUBSET (0 .. k) BY <1>6, <1>7
<1>11. <<0 .. m, X>> \in StrictSubsetOrdering(0 .. k)
  BY <1>6, <1>9, <1>10 DEF StrictSubsetOrdering
<1> QED BY <1>5, <1>8, <1>11

\* Induction, for a set of numbers
LEMMA NumbersInduction ==
    ASSUME NEW T, 0 \in T, \A n \in Nat : n \in T => n + 1 \in T
    PROVE  \A n \in Nat : n \in T
<1> SUFFICES ASSUME NEW k \in Nat, k \notin T PROVE FALSE OBVIOUS
<1> DEFINE N == {i \in Nat : i \notin T}
<1>1. PICK n \in N : \A m \in N : n <= m
  <2>1. N \subseteq Nat /\ N # {} OBVIOUS
  <2> HIDE DEF N
  <2> QED BY <2>1, LeastNumber
<1>2. n # 0 /\ n - 1 \in Nat BY <1>1
<1>3. n - 1 \notin N BY <1>1, <1>2
<1>4. n - 1 + 1 = n BY <1>1
<1> QED BY <1>1, <1>2, <1>3, <1>4

-----------------------------------------------------------------------------
(* The working record of an iteration, and the invariant of its table.     *)
(* F says that a fork() has failed in an earlier iteration, Z that a child *)
(* has exited with the fatal code.                                         *)

WorkFields == {"running", "processes", "last_process", "flags", "new_binary",
               "noaccepting", "live", "delay", "sigio", "child", "peer", "pending",
               "forks", "conf", "reuse", "failed", "full", "skip", "spawned"}

ProcessRecords ==
    [pid : BOOLEAN, exiting : BOOLEAN, exited : BOOLEAN, respawn : BOOLEAN,
     just_spawn : BOOLEAN, detached : BOOLEAN, chan : {0} \cup Slots]
ChildRecords ==
    [st : {"none", "run", "stuck", "zombie", "fatal"},
     cmd : {"none", "quit", "terminate"}, old : BOOLEAN]

\* What the handlers and loops count and remember
Counters(w) ==
    /\ w.running \in BOOLEAN
    /\ w.flags \subseteq Flags
    /\ w.new_binary \in {-1, 0} \cup Slots
    /\ w.noaccepting \in BOOLEAN /\ w.live \in BOOLEAN
    /\ w.delay \in Delays
    /\ w.sigio \in 0..(WorkerProcesses + 2)
    /\ w.pending \subseteq Signals
    /\ w.forks \in Nat
    /\ w.conf \in BOOLEAN /\ w.reuse \in BOOLEAN
    /\ w.failed \in BOOLEAN /\ w.full \in BOOLEAN /\ w.skip \in BOOLEAN
    /\ w.spawned \in {0} \cup Slots

TableTypes(w) ==
    /\ DOMAIN w = WorkFields
    /\ w.processes \in [Slots -> ProcessRecords]
    /\ w.child \in [Slots -> ChildRecords]
    /\ w.peer \in [Slots -> {0} \cup Slots]
    /\ w.last_process \in 0..MaxProcesses

\* The table agrees with the kernel; a channel that is open is somebody's.
Agrees(w) ==
    /\ \A i \in Slots :
          /\ w.child[i].st # "none" <=> w.processes[i].pid /\ ~w.processes[i].exited
          /\ w.processes[i].pid => i <= w.last_process
          /\ ~w.processes[i].pid => w.processes[i] = NoProcess
          /\ w.processes[i].detached => w.processes[i].chan = 0 /\ ~w.processes[i].respawn
    /\ \A d \in Slots : w.peer[d] # 0 => \E i \in Slots : w.processes[i].chan = d

\* As long as forks succeed a channel leads to its slot's own child, and a
\* child was told to stop if and only if it is marked.
Leads(w) == \A i \in Slots : w.processes[i].chan # 0 => w.peer[w.processes[i].chan] = i
Told(w) ==
    \A i \in Slots : Alive(w.child[i]) =>
       /\ w.processes[i].exiting /\ ~w.processes[i].detached => w.child[i].cmd # "none"
       /\ ~w.processes[i].exiting => w.child[i].cmd = "none"

Book(w, F, Z) ==
    /\ TableTypes(w) /\ Agrees(w)
    /\ ~F /\ ~w.failed => Leads(w) /\ Told(w)
    /\ ~Z => \A i \in Slots : w.child[i].st # "fatal"

\* Old workers are marked; between iterations no worker is a new one.
RetiredAt(w, i) ==
    Alive(w.child[i]) /\ w.child[i].old /\ ~w.processes[i].detached
       => w.processes[i].exiting
Retired(w) == \A i \in Slots : RetiredAt(w, i)
NoneNew(w) == \A i \in Slots : ~w.processes[i].just_spawn
FreshAt(w, i) == w.processes[i].just_spawn => ~w.child[i].old /\ ~w.processes[i].detached

\* t is w but for the fields F.
Only(t, w, F) ==
    /\ DOMAIN t = WorkFields
    /\ \A f \in WorkFields \ F : t[f] = w[f]

LEMMA SlotsFinite ==
    /\ Slots \subseteq Nat /\ IsFiniteSet(Slots) /\ Cardinality(Slots) = MaxProcesses
    /\ 0 \notin Slots
<1>1. MaxProcesses \in Nat /\ 1 \in Int /\ MaxProcesses \in Int /\ ~(1 > MaxProcesses)
  BY ProcessAssumption
<1>2. IsFiniteSet(1..MaxProcesses) /\ Cardinality(1..MaxProcesses) = MaxProcesses - 1 + 1
  BY <1>1, FS_Interval
<1> QED BY <1>1, <1>2 DEF Slots

-----------------------------------------------------------------------------
(* Channels                                                                *)

\* A slot without a channel finds a free number: the others are fewer.
LEMMA FreeChanFree ==
    ASSUME NEW w, TableTypes(w), Agrees(w), w.reuse \in BOOLEAN,
           NEW s \in Slots, w.processes[s].chan = 0
    PROVE  FreeChan(w) \in Slots /\ w.peer[FreeChan(w)] = 0
<1> DEFINE named == {w.processes[i].chan : i \in Slots}
           closed == {d \in Slots : w.peer[d] = 0 /\ (w.reuse \/ d \notin named)}
           others == Slots \ {s}
           taken == {w.processes[i].chan : i \in others}
<1>1. closed # {}
  <2> SUFFICES ASSUME closed = {} PROVE FALSE OBVIOUS
  <2>1. Slots \subseteq taken
    <3> SUFFICES ASSUME NEW d \in Slots PROVE \E i \in others : w.processes[i].chan = d
      OBVIOUS
    <3>1. d \in named
      <4>1. CASE w.peer[d] # 0 BY <4>1 DEF Agrees
      <4>2. CASE w.peer[d] = 0 BY <4>2
      <4> QED BY <4>1, <4>2
    <3>2. PICK i \in Slots : w.processes[i].chan = d BY <3>1
    <3>3. i # s BY <3>2, SlotsFinite
    <3> QED BY <3>2, <3>3
  <2>2. IsFiniteSet(others) /\ Cardinality(others) = MaxProcesses - 1
    BY SlotsFinite, FS_RemoveElement
  <2> HIDE DEF others
  <2>3. IsFiniteSet(taken) /\ Cardinality(taken) <= Cardinality(others)
    <3> DEFINE f == [i \in others |-> w.processes[i].chan]
    <3>1. taken = {f[i] : i \in others} OBVIOUS
    <3>2. IsFiniteSet({f[i] : i \in others}) /\ Cardinality({f[i] : i \in others}) <= Cardinality(others)
      <4>1. f \in Surjection(others, {f[i] : i \in others}) BY DEF Surjection
      <4> HIDE DEF f
      <4> QED BY <2>2, <4>1, FS_Surjection
    <3> QED BY <3>1, <3>2
  <2>4. Cardinality(Slots) <= Cardinality(taken)
    BY <2>1, <2>3, FS_Subset
  <2>5. MaxProcesses \in Nat /\ Cardinality(taken) \in Nat
    BY <2>3, FS_CardinalityType, ProcessAssumption
  <2> QED BY <2>2, <2>3, <2>4, <2>5, SlotsFinite
<1>2. FreeChan(w) = Min(closed) BY DEF FreeChan
<1>3. closed \subseteq Nat BY SlotsFinite
<1>4. PICK d \in closed : \A e \in closed : d <= e
  <2> HIDE DEF closed
  <2> QED BY <1>1, <1>3, LeastNumber
<1>5. Min(closed) \in closed BY <1>4 DEF Min
<1> QED BY <1>2, <1>5

-----------------------------------------------------------------------------
(* Spawning                                                                *)

LEMMA LeastIn ==
    ASSUME NEW T, T \subseteq Nat, T # {}
    PROVE  (CHOOSE s \in T : \A t \in T : s <= t) \in T
<1>1. \E s \in T : \A t \in T : s <= t BY LeastNumber
<1> QED BY <1>1

LEMMA FreeSlotNumber == ASSUME NEW w, TableTypes(w) PROVE FreeSlot(w) \in Int
<1> DEFINE free == {s \in 1..w.last_process : ~w.processes[s].pid}
           least == CHOOSE s \in free : \A t \in free : s <= t
<1>1. w.last_process \in Int BY DEF TableTypes
<1>2. free # {} => least \in free
  <2>1. free \subseteq Nat OBVIOUS
  <2> HIDE DEF free
  <2> QED BY <2>1, LeastIn
<1>3. FreeSlot(w) = IF free = {} THEN w.last_process + 1 ELSE least
  BY DEF FreeSlot
<1>4. free \subseteq Int OBVIOUS
<1> HIDE DEF least, free
<1>5. CASE free = {} BY <1>1, <1>3, <1>5
<1>6. CASE free # {} BY <1>2, <1>3, <1>4, <1>6
<1> QED BY <1>5, <1>6

LEMMA FreeSlotFree ==
    ASSUME NEW w, TableTypes(w), Agrees(w), FreeSlot(w) <= MaxProcesses
    PROVE  /\ FreeSlot(w) \in Slots /\ ~w.processes[FreeSlot(w)].pid
           /\ FreeSlot(w) <= w.last_process + 1
<1> DEFINE free == {s \in 1..w.last_process : ~w.processes[s].pid}
<1>1. w.last_process \in Nat /\ w.last_process <= MaxProcesses /\ MaxProcesses \in Nat
  BY ProcessAssumption DEF TableTypes
<1>2. CASE free = {}
  <2>1. FreeSlot(w) = w.last_process + 1 BY <1>2 DEF FreeSlot
  <2>2. FreeSlot(w) \in Slots BY <1>1, <2>1 DEF Slots
  <2>3. ~(FreeSlot(w) <= w.last_process) BY <1>1, <2>1
  <2> QED BY <1>1, <2>1, <2>2, <2>3 DEF Agrees
<1>3. CASE free # {}
  <2>1. FreeSlot(w) = CHOOSE s \in free : \A t \in free : s <= t BY <1>3 DEF FreeSlot
  <2>2. free \subseteq Nat OBVIOUS
  <2>3. FreeSlot(w) \in free
    <3> HIDE DEF free
    <3>1. \E s \in free : \A t \in free : s <= t BY <1>3, <2>2, LeastNumber
    <3> QED BY <2>1, <3>1
  <2> QED BY <1>1, <2>3 DEF Slots
<1> QED BY <1>2, <1>3

SpawnTypes == {"RESPAWN", "JUST_RESPAWN", "DETACHED"}

\* The three outcomes of ngx_spawn_process() in a free slot
SpawnFull(t, w) == Only(t, w, {"spawned", "full"}) /\ t.full = TRUE /\ t.spawned = 0
SpawnFails(t, w) == Only(t, w, {"spawned", "failed"}) /\ t.failed = TRUE /\ t.spawned = 0
SpawnsAt(t, w, type, s, d) ==
    /\ Only(t, w, {"spawned", "forks", "child", "peer", "processes", "last_process"})
    /\ s \in Slots /\ ~w.processes[s].pid
    /\ t.spawned = s
    /\ w.forks # 0 /\ t.forks = w.forks - 1
    /\ t.child = [w.child EXCEPT ![s] = Child("run")]
    /\ t.peer = IF d = 0 THEN w.peer ELSE [w.peer EXCEPT ![d] = s]
    /\ t.processes \in [Slots -> ProcessRecords]
    /\ \A i \in Slots \ {s} : t.processes[i] = w.processes[i]
    /\ t.processes[s].pid /\ ~t.processes[s].exiting /\ ~t.processes[s].exited
    /\ t.processes[s].respawn <=> type # "DETACHED"
    /\ t.processes[s].just_spawn <=> type = "JUST_RESPAWN"
    /\ t.processes[s].detached <=> type = "DETACHED"
    /\ t.processes[s].chan = d
    /\ t.last_process = IF s = w.last_process + 1 THEN s ELSE w.last_process
    /\ s <= w.last_process + 1
    /\ d = 0 <=> type = "DETACHED"
    /\ d # 0 => d \in Slots /\ w.peer[d] = 0

LEMMA SpawnOutcome ==
    ASSUME NEW w, TableTypes(w), Agrees(w), w.reuse \in BOOLEAN, NEW type \in SpawnTypes
    PROVE  LET t == Spawn(w, type)
           IN \/ SpawnFull(t, w) /\ FreeSlot(w) > MaxProcesses
              \/ SpawnFails(t, w) /\ w.forks = 0 /\ ~(FreeSlot(w) > MaxProcesses)
              \/ \E s, d : SpawnsAt(t, w, type, s, d) /\ s = FreeSlot(w)
<1> DEFINE t == Spawn(w, type)
           s == FreeSlot(w)
           d == IF type = "DETACHED" THEN 0 ELSE FreeChan(w)
<1>1. DOMAIN w = WorkFields BY DEF TableTypes
<1>2. CASE s > MaxProcesses
  <2>1. t = [w EXCEPT !.spawned = 0, !.full = TRUE] BY <1>2 DEF Spawn
  <2>2. SpawnFull(t, w) BY <1>1, <2>1 DEF SpawnFull, Only, WorkFields
  <2> QED BY <1>2, <2>2
<1>3. CASE ~(s > MaxProcesses) /\ w.forks = 0
  <2>1. t = [w EXCEPT !.spawned = 0, !.failed = TRUE] BY <1>3 DEF Spawn
  <2>2. SpawnFails(t, w) BY <1>1, <2>1 DEF SpawnFails, Only, WorkFields
  <2> QED BY <1>3, <2>2
<1>4. CASE ~(s > MaxProcesses) /\ w.forks # 0
  <2>1. s \in Slots /\ ~w.processes[s].pid /\ s <= w.last_process + 1
    <3>1. s <= MaxProcesses
      <4>1. s \in Int BY FreeSlotNumber
      <4> HIDE DEF s
      <4> QED BY <1>4, <4>1, ProcessAssumption
    <3> QED BY <3>1, FreeSlotFree
  <2>2. d # 0 => d \in Slots /\ w.peer[d] = 0
    <3>1. w.processes[s].chan = 0 BY <2>1 DEF Agrees, NoProcess
    <3> QED BY <2>1, <3>1, FreeChanFree
  <2>3. d = 0 <=> type = "DETACHED"
    <3>1. w.processes[s].chan = 0 BY <2>1 DEF Agrees, NoProcess
    <3>2. FreeChan(w) # 0 BY <2>1, <3>1, FreeChanFree, SlotsFinite
    <3> QED BY <3>2
  <2>4. w.processes[s] = NoProcess BY <2>1 DEF Agrees
  <2> HIDE DEF s, d
  <2> DEFINE v == Fork(w, s, type = "DETACHED")
             f == SpawnFlags(type)
  <2>5. /\ Only(v, w, {"forks", "child", "peer", "processes"})
        /\ v.forks = w.forks - 1
        /\ v.child = [w.child EXCEPT ![s] = Child("run")]
        /\ v.peer = IF d = 0 THEN w.peer ELSE [w.peer EXCEPT ![d] = s]
        /\ v.processes = [w.processes EXCEPT ![s] =
              [@ EXCEPT !.chan = d, !.pid = TRUE, !.exited = FALSE]]
    BY <1>1, <1>4, <2>1 DEF Fork, d, Only, WorkFields, TableTypes
  <2>6. t = [v EXCEPT !.spawned = s,
                      !.processes[s].exiting = FALSE,
                      !.processes[s].respawn = f.respawn,
                      !.processes[s].just_spawn = f.just_spawn,
                      !.processes[s].detached = f.detached,
                      !.last_process = IF s = @ + 1 THEN s ELSE @]
    BY <1>4 DEF Spawn, s, SpawnFlags
  <2> HIDE DEF v, f, t
  <2>7. v.last_process = w.last_process BY <2>5 DEF Only, WorkFields
  <2>8. DOMAIN v = WorkFields /\ v.processes \in [Slots -> ProcessRecords]
    <3> DEFINE e == [w.processes[s] EXCEPT !.chan = d, !.pid = TRUE, !.exited = FALSE]
    <3>1. d \in {0} \cup Slots BY <2>2
    <3>2. w.processes[s] \in ProcessRecords /\ w.processes \in [Slots -> ProcessRecords]
      BY <2>1 DEF TableTypes
    <3>3. e \in ProcessRecords BY <3>1, <3>2 DEF ProcessRecords
    <3>4. v.processes = [w.processes EXCEPT ![s] = e] BY <2>5
    <3> HIDE DEF e
    <3> QED BY <2>1, <2>5, <3>2, <3>3, <3>4 DEF Only
  <2>9. /\ Only(t, w, {"spawned", "forks", "child", "peer", "processes", "last_process"})
        /\ t.spawned = s /\ t.forks = v.forks /\ t.child = v.child /\ t.peer = v.peer
        /\ t.last_process = IF s = w.last_process + 1 THEN s ELSE w.last_process
    BY <2>5, <2>6, <2>7 DEF Only, WorkFields
  <2>11. /\ t.processes \in [Slots -> ProcessRecords]
         /\ \A i \in Slots \ {s} : t.processes[i] = v.processes[i]
         /\ t.processes[s].pid = v.processes[s].pid /\ ~t.processes[s].exiting
         /\ t.processes[s].exited = v.processes[s].exited
         /\ t.processes[s].respawn = f.respawn /\ t.processes[s].just_spawn = f.just_spawn
         /\ t.processes[s].detached = f.detached
         /\ t.processes[s].chan = v.processes[s].chan
    <3>1. f.respawn \in BOOLEAN /\ f.just_spawn \in BOOLEAN /\ f.detached \in BOOLEAN
      BY DEF SpawnFlags, f
    <3> DEFINE r == v.processes[s]
               e == [r EXCEPT !.exiting = FALSE, !.respawn = f.respawn,
                              !.just_spawn = f.just_spawn, !.detached = f.detached]
    <3>2. t.processes = [v.processes EXCEPT ![s] = e]
      BY <2>1, <2>6, <2>8 DEF WorkFields
    <3>3. r \in ProcessRecords BY <2>1, <2>8
    <3>4. e \in ProcessRecords /\ ~e.exiting /\ e.respawn = f.respawn
          /\ e.just_spawn = f.just_spawn /\ e.detached = f.detached
          /\ e.pid = r.pid /\ e.exited = r.exited /\ e.chan = r.chan
      <4> HIDE DEF r
      <4> QED BY <3>1, <3>3 DEF ProcessRecords
    <3> HIDE DEF e
    <3> QED BY <2>1, <2>8, <3>2, <3>4
  <2>12. v.processes[s].pid /\ ~v.processes[s].exited /\ v.processes[s].chan = d
         /\ \A i \in Slots \ {s} : v.processes[i] = w.processes[i]
    BY <2>1, <2>5 DEF TableTypes, ProcessRecords
  <2>13. /\ f.respawn <=> type # "DETACHED"
         /\ f.just_spawn <=> type = "JUST_RESPAWN"
         /\ f.detached <=> type = "DETACHED"
    BY DEF SpawnFlags, SpawnTypes, f
  <2>10. SpawnsAt(t, w, type, s, d)
    BY <1>4, <2>1, <2>2, <2>3, <2>5, <2>9, <2>11, <2>12, <2>13 DEF SpawnsAt
  <2> QED BY <2>10 DEF s, t
<1> QED BY <1>2, <1>3, <1>4

-----------------------------------------------------------------------------
(* Loops: each is a sequence of records, from the one it starts from, in   *)
(* which every iteration makes one from the one before.                    *)

LEMMA GreatestNumber ==
    ASSUME NEW m \in Nat, NEW s, s \subseteq 1..m, m \in s
    PROVE  Max(s) = m
<1>1. \A x \in s : m >= x BY SMT
<1>2. \A x \in s : (\A y \in s : x >= y) => x = m BY SMT
<1> QED BY <1>1, <1>2 DEF Max

LEMMA SpawnLoop ==
    ASSUME NEW w, NEW type, NEW n \in Nat, n = WorkerProcesses
    PROVE  \E h : /\ h[0] = w
                  /\ \A i \in 1..n : h[i] = Spawn(h[i - 1], type)
                  /\ StartWorkerProcesses(w, type) = h[n]
<1> DEFINE Iter(m, g) == g = [s \in SUBSET (1..m) |->
                 IF s = {} THEN w ELSE Spawn(g[s \ {Max(s)}], type)]
           T == {m \in Nat : \E g : Iter(m, g)}
<1>1. 0 \in T
  <2>1. SUBSET (1..0) = {{}} OBVIOUS
  <2>2. Iter(0, [s \in SUBSET (1..0) |-> w]) BY <2>1
  <2> QED BY <2>2
<1>2. ASSUME NEW m \in Nat, m \in T PROVE m + 1 \in T
  <2>1. PICK g : Iter(m, g) BY <1>2
  <2> DEFINE k == [s \in SUBSET (1..(m + 1)) |->
                     IF m + 1 \in s THEN Spawn(g[s \ {m + 1}], type) ELSE g[s]]
  <2>2. ASSUME NEW s \in SUBSET (1..(m + 1))
        PROVE  k[s] = IF s = {} THEN w ELSE Spawn(k[s \ {Max(s)}], type)
    <3>1. CASE m + 1 \in s
      <4>1. Max(s) = m + 1
        <5>1. s \subseteq 1..(m + 1) /\ m + 1 \in Nat OBVIOUS
        <5> QED BY <3>1, <5>1, GreatestNumber
      <4>2. s \ {m + 1} \in SUBSET (1..m) BY <2>2
      <4>3. k[s \ {m + 1}] = g[s \ {m + 1}] BY <4>2
      <4>4. k[s] = Spawn(g[s \ {m + 1}], type) BY <3>1
      <4> HIDE DEF k
      <4> QED BY <3>1, <4>1, <4>3, <4>4
    <3>2. CASE m + 1 \notin s
      <4>1. s \in SUBSET (1..m) /\ s \ {Max(s)} \in SUBSET (1..m)
        <5>1. s \subseteq 1..m BY <3>2
        <5>2. s \in SUBSET (1..(m + 1)) OBVIOUS
        <5>3. \A x : s \ {x} \in SUBSET (1..m) BY <5>1
        <5> QED BY <5>1, <5>3
      <4>2. k[s] = g[s] /\ k[s \ {Max(s)}] = g[s \ {Max(s)}] BY <3>2, <4>1
      <4> HIDE DEF k
      <4>3. g[s] = IF s = {} THEN w ELSE Spawn(g[s \ {Max(s)}], type) BY <2>1, <4>1
      <4> QED BY <4>2, <4>3
    <3> QED BY <3>1, <3>2
  <2>3. Iter(m + 1, k)
    <3>1. k = [s \in SUBSET (1..(m + 1)) |-> k[s]] OBVIOUS
    <3> HIDE DEF k
    <3> QED BY <2>2, <3>1
  <2>4. m + 1 \in Nat OBVIOUS
  <2> HIDE DEF k, Iter
  <2> QED BY <2>3, <2>4
<1>3. \E g : Iter(n, g)
  <2> HIDE DEF Iter
  <2>1. n \in T
    <3> HIDE DEF T
    <3> QED BY <1>1, <1>2, NumbersInduction
  <2> QED BY <2>1
<1> DEFINE iter == CHOOSE g : Iter(n, g)
           h == [i \in 0..n |-> iter[1..i]]
<1>4. Iter(n, iter)
  <2> HIDE DEF Iter
  <2> QED BY <1>3
<1>5. StartWorkerProcesses(w, type) = iter[1..n]
  BY DEF FoldLeft, MapThenFoldSet, StartWorkerProcesses
<1> HIDE DEF iter
<1>6. h[0] = w
  <2>1. 1..0 = {} OBVIOUS
  <2> QED BY <1>4, <2>1
<1>7. ASSUME NEW i \in 1..n PROVE h[i] = Spawn(h[i - 1], type)
  <2>1. Max(1..i) = i BY GreatestNumber
  <2>2. (1..i) \ {i} = 1..(i - 1) OBVIOUS
  <2>3. 1..i \in SUBSET (1..n) /\ 1..i # {} /\ i - 1 \in 0..n OBVIOUS
  <2>4. h[i] = iter[1..i] /\ h[i - 1] = iter[1..(i - 1)] BY <2>3
  <2> HIDE DEF h
  <2>5. iter[1..i] = Spawn(iter[1..(i - 1)], type)
    <3> DEFINE s == 1..i
    <3>1. iter[s] = IF s = {} THEN w ELSE Spawn(iter[s \ {Max(s)}], type) BY <1>4, <2>3
    <3> QED BY <3>1, <2>1, <2>2, <2>3
  <2> QED BY <2>4, <2>5
<1>8. h[n] = iter[1..n] OBVIOUS
<1> HIDE DEF h
<1> QED BY <1>5, <1>6, <1>7, <1>8

LEMMA SignalLoop ==
    ASSUME NEW w, NEW sig, NEW n \in Nat, n = w.last_process
    PROVE  \E h : /\ h[0] = w
                  /\ \A i \in 1..n : h[i] = SignalOne(sig, h[i - 1], i)
                  /\ SignalWorkerProcesses(w, sig) = h[n]
<1> DEFINE q == [j \in 1..n |-> j]
           Iter(m, g) == g = [s \in SUBSET (1..m) |->
                 IF s = {} THEN w ELSE SignalOne(sig, g[s \ {Max(s)}], q[Max(s)])]
           T == {m \in Nat : \E g : Iter(m, g)}
<1>0. DOMAIN q = 1..n /\ \A i \in 1..n : q[i] = i OBVIOUS
<1> HIDE DEF q
<1>1. 0 \in T
  <2>1. SUBSET (1..0) = {{}} OBVIOUS
  <2>2. Iter(0, [s \in SUBSET (1..0) |-> w]) BY <2>1
  <2> QED BY <2>2
<1>2. ASSUME NEW m \in Nat, m \in T PROVE m + 1 \in T
  <2>1. PICK g : Iter(m, g) BY <1>2
  <2> DEFINE k == [s \in SUBSET (1..(m + 1)) |->
                     IF m + 1 \in s THEN SignalOne(sig, g[s \ {m + 1}], q[m + 1]) ELSE g[s]]
  <2>2. ASSUME NEW s \in SUBSET (1..(m + 1))
        PROVE  k[s] = IF s = {} THEN w ELSE SignalOne(sig, k[s \ {Max(s)}], q[Max(s)])
    <3>1. CASE m + 1 \in s
      <4>1. Max(s) = m + 1
        <5>1. s \subseteq 1..(m + 1) /\ m + 1 \in Nat OBVIOUS
        <5> QED BY <3>1, <5>1, GreatestNumber
      <4>2. s \ {m + 1} \in SUBSET (1..m) BY <2>2
      <4>3. k[s \ {m + 1}] = g[s \ {m + 1}] BY <4>2
      <4>4. k[s] = SignalOne(sig, g[s \ {m + 1}], q[m + 1]) BY <3>1
      <4> HIDE DEF k
      <4> QED BY <3>1, <4>1, <4>3, <4>4
    <3>2. CASE m + 1 \notin s
      <4>1. s \in SUBSET (1..m) /\ s \ {Max(s)} \in SUBSET (1..m)
        <5>1. s \subseteq 1..m BY <3>2
        <5>2. s \in SUBSET (1..(m + 1)) OBVIOUS
        <5>3. \A x : s \ {x} \in SUBSET (1..m) BY <5>1
        <5> QED BY <5>1, <5>3
      <4>2. k[s] = g[s] /\ k[s \ {Max(s)}] = g[s \ {Max(s)}] BY <3>2, <4>1
      <4> HIDE DEF k
      <4>3. g[s] = IF s = {} THEN w ELSE SignalOne(sig, g[s \ {Max(s)}], q[Max(s)]) BY <2>1, <4>1
      <4> QED BY <4>2, <4>3
    <3> QED BY <3>1, <3>2
  <2>3. Iter(m + 1, k)
    <3>1. k = [s \in SUBSET (1..(m + 1)) |-> k[s]] OBVIOUS
    <3> HIDE DEF k
    <3> QED BY <2>2, <3>1
  <2>4. m + 1 \in Nat OBVIOUS
  <2> HIDE DEF k, Iter
  <2> QED BY <2>3, <2>4
<1>3. \E g : Iter(n, g)
  <2> HIDE DEF Iter
  <2>1. n \in T
    <3> HIDE DEF T
    <3> QED BY <1>1, <1>2, NumbersInduction
  <2> QED BY <2>1
<1> DEFINE iter == CHOOSE g : Iter(n, g)
           h == [i \in 0..n |-> iter[1..i]]
<1>4. Iter(n, iter)
  <2> HIDE DEF Iter
  <2> QED BY <1>3
<1>5. SignalWorkerProcesses(w, sig) = iter[1..n]
  BY <1>0 DEF FoldLeft, MapThenFoldSet, SignalWorkerProcesses, q
<1> HIDE DEF iter
<1>6. h[0] = w
  <2>1. 1..0 = {} OBVIOUS
  <2> QED BY <1>4, <2>1
<1>7. ASSUME NEW i \in 1..n PROVE h[i] = SignalOne(sig, h[i - 1], i)
  <2>1. Max(1..i) = i BY GreatestNumber
  <2>2. (1..i) \ {i} = 1..(i - 1) OBVIOUS
  <2>3. 1..i \in SUBSET (1..n) /\ 1..i # {} /\ i - 1 \in 0..n OBVIOUS
  <2>4. h[i] = iter[1..i] /\ h[i - 1] = iter[1..(i - 1)] BY <2>3
  <2> HIDE DEF h
  <2>5. iter[1..i] = SignalOne(sig, iter[1..(i - 1)], i)
    <3> DEFINE s == 1..i
    <3>1. iter[s] = IF s = {} THEN w ELSE SignalOne(sig, iter[s \ {Max(s)}], q[Max(s)]) BY <1>4, <2>3
    <3> QED BY <1>0, <3>1, <2>1, <2>2, <2>3
  <2> QED BY <2>4, <2>5
<1>8. h[n] = iter[1..n] OBVIOUS
<1> HIDE DEF h
<1> QED BY <1>5, <1>6, <1>7, <1>8 DEF q

LEMMA ReapLoop ==
    ASSUME NEW u, NEW w, NEW n \in Nat, w = [u EXCEPT !.live = FALSE], n = u.last_process
    PROVE  \E h : /\ h[0] = w
                  /\ \A i \in 1..n : h[i] = ReapOne(h[i - 1], i)
                  /\ ReapChildren(u) = h[n]
<1> DEFINE q == [j \in 1..n |-> j]
           Iter(m, g) == g = [s \in SUBSET (1..m) |->
                 IF s = {} THEN w ELSE ReapOne(g[s \ {Max(s)}], q[Max(s)])]
           T == {m \in Nat : \E g : Iter(m, g)}
<1>0. DOMAIN q = 1..n /\ \A i \in 1..n : q[i] = i OBVIOUS
<1> HIDE DEF q
<1>1. 0 \in T
  <2>1. SUBSET (1..0) = {{}} OBVIOUS
  <2>2. Iter(0, [s \in SUBSET (1..0) |-> w]) BY <2>1
  <2> QED BY <2>2
<1>2. ASSUME NEW m \in Nat, m \in T PROVE m + 1 \in T
  <2>1. PICK g : Iter(m, g) BY <1>2
  <2> DEFINE k == [s \in SUBSET (1..(m + 1)) |->
                     IF m + 1 \in s THEN ReapOne(g[s \ {m + 1}], q[m + 1]) ELSE g[s]]
  <2>2. ASSUME NEW s \in SUBSET (1..(m + 1))
        PROVE  k[s] = IF s = {} THEN w ELSE ReapOne(k[s \ {Max(s)}], q[Max(s)])
    <3>1. CASE m + 1 \in s
      <4>1. Max(s) = m + 1
        <5>1. s \subseteq 1..(m + 1) /\ m + 1 \in Nat OBVIOUS
        <5> QED BY <3>1, <5>1, GreatestNumber
      <4>2. s \ {m + 1} \in SUBSET (1..m) BY <2>2
      <4>3. k[s \ {m + 1}] = g[s \ {m + 1}] BY <4>2
      <4>4. k[s] = ReapOne(g[s \ {m + 1}], q[m + 1]) BY <3>1
      <4> HIDE DEF k
      <4> QED BY <3>1, <4>1, <4>3, <4>4
    <3>2. CASE m + 1 \notin s
      <4>1. s \in SUBSET (1..m) /\ s \ {Max(s)} \in SUBSET (1..m)
        <5>1. s \subseteq 1..m BY <3>2
        <5>2. s \in SUBSET (1..(m + 1)) OBVIOUS
        <5>3. \A x : s \ {x} \in SUBSET (1..m) BY <5>1
        <5> QED BY <5>1, <5>3
      <4>2. k[s] = g[s] /\ k[s \ {Max(s)}] = g[s \ {Max(s)}] BY <3>2, <4>1
      <4> HIDE DEF k
      <4>3. g[s] = IF s = {} THEN w ELSE ReapOne(g[s \ {Max(s)}], q[Max(s)]) BY <2>1, <4>1
      <4> QED BY <4>2, <4>3
    <3> QED BY <3>1, <3>2
  <2>3. Iter(m + 1, k)
    <3>1. k = [s \in SUBSET (1..(m + 1)) |-> k[s]] OBVIOUS
    <3> HIDE DEF k
    <3> QED BY <2>2, <3>1
  <2>4. m + 1 \in Nat OBVIOUS
  <2> HIDE DEF k, Iter
  <2> QED BY <2>3, <2>4
<1>3. \E g : Iter(n, g)
  <2> HIDE DEF Iter
  <2>1. n \in T
    <3> HIDE DEF T
    <3> QED BY <1>1, <1>2, NumbersInduction
  <2> QED BY <2>1
<1> DEFINE iter == CHOOSE g : Iter(n, g)
           h == [i \in 0..n |-> iter[1..i]]
<1>4. Iter(n, iter)
  <2> HIDE DEF Iter
  <2> QED BY <1>3
<1>5. ReapChildren(u) = iter[1..n]
  BY <1>0 DEF FoldLeft, MapThenFoldSet, ReapChildren, q
<1> HIDE DEF iter
<1>6. h[0] = w
  <2>1. 1..0 = {} OBVIOUS
  <2> QED BY <1>4, <2>1
<1>7. ASSUME NEW i \in 1..n PROVE h[i] = ReapOne(h[i - 1], i)
  <2>1. Max(1..i) = i BY GreatestNumber
  <2>2. (1..i) \ {i} = 1..(i - 1) OBVIOUS
  <2>3. 1..i \in SUBSET (1..n) /\ 1..i # {} /\ i - 1 \in 0..n OBVIOUS
  <2>4. h[i] = iter[1..i] /\ h[i - 1] = iter[1..(i - 1)] BY <2>3
  <2> HIDE DEF h
  <2>5. iter[1..i] = ReapOne(iter[1..(i - 1)], i)
    <3> DEFINE s == 1..i
    <3>1. iter[s] = IF s = {} THEN w ELSE ReapOne(iter[s \ {Max(s)}], q[Max(s)]) BY <1>4, <2>3
    <3> QED BY <1>0, <3>1, <2>1, <2>2, <2>3
  <2> QED BY <2>4, <2>5
<1>8. h[n] = iter[1..n] OBVIOUS
<1> HIDE DEF h
<1> QED BY <1>5, <1>6, <1>7, <1>8 DEF q

LEMMA ObeyLoop ==
    ASSUME NEW w
    PROVE  Obey(w) =
             ObeyOne(ObeyOne(ObeyOne(ObeyOne(ObeyOne(w,
                "reconfigure"), "restart"), "reopen"), "change_binary"), "noaccept")
<1> DEFINE n == 5
           q == <<"reconfigure", "restart", "reopen", "change_binary", "noaccept">>
           Iter(m, g) == g = [s \in SUBSET (1..m) |->
                 IF s = {} THEN w ELSE ObeyOne(g[s \ {Max(s)}], q[Max(s)])]
           T == {m \in Nat : \E g : Iter(m, g)}
<1>0. n \in Nat /\ DOMAIN q = 1..n OBVIOUS
<1>9. q[1] = "reconfigure" /\ q[2] = "restart" /\ q[3] = "reopen"
      /\ q[4] = "change_binary" /\ q[5] = "noaccept" OBVIOUS
<1> HIDE DEF q, n
<1>1. 0 \in T
  <2>1. SUBSET (1..0) = {{}} OBVIOUS
  <2>2. Iter(0, [s \in SUBSET (1..0) |-> w]) BY <2>1
  <2> QED BY <2>2
<1>2. ASSUME NEW m \in Nat, m \in T PROVE m + 1 \in T
  <2>1. PICK g : Iter(m, g) BY <1>2
  <2> DEFINE k == [s \in SUBSET (1..(m + 1)) |->
                     IF m + 1 \in s THEN ObeyOne(g[s \ {m + 1}], q[m + 1]) ELSE g[s]]
  <2>2. ASSUME NEW s \in SUBSET (1..(m + 1))
        PROVE  k[s] = IF s = {} THEN w ELSE ObeyOne(k[s \ {Max(s)}], q[Max(s)])
    <3>1. CASE m + 1 \in s
      <4>1. Max(s) = m + 1
        <5>1. s \subseteq 1..(m + 1) /\ m + 1 \in Nat OBVIOUS
        <5> QED BY <3>1, <5>1, GreatestNumber
      <4>2. s \ {m + 1} \in SUBSET (1..m) BY <2>2
      <4>3. k[s \ {m + 1}] = g[s \ {m + 1}] BY <4>2
      <4>4. k[s] = ObeyOne(g[s \ {m + 1}], q[m + 1]) BY <3>1
      <4> HIDE DEF k
      <4> QED BY <3>1, <4>1, <4>3, <4>4
    <3>2. CASE m + 1 \notin s
      <4>1. s \in SUBSET (1..m) /\ s \ {Max(s)} \in SUBSET (1..m)
        <5>1. s \subseteq 1..m BY <3>2
        <5>2. s \in SUBSET (1..(m + 1)) OBVIOUS
        <5>3. \A x : s \ {x} \in SUBSET (1..m) BY <5>1
        <5> QED BY <5>1, <5>3
      <4>2. k[s] = g[s] /\ k[s \ {Max(s)}] = g[s \ {Max(s)}] BY <3>2, <4>1
      <4> HIDE DEF k
      <4>3. g[s] = IF s = {} THEN w ELSE ObeyOne(g[s \ {Max(s)}], q[Max(s)]) BY <2>1, <4>1
      <4> QED BY <4>2, <4>3
    <3> QED BY <3>1, <3>2
  <2>3. Iter(m + 1, k)
    <3>1. k = [s \in SUBSET (1..(m + 1)) |-> k[s]] OBVIOUS
    <3> HIDE DEF k
    <3> QED BY <2>2, <3>1
  <2>4. m + 1 \in Nat OBVIOUS
  <2> HIDE DEF k, Iter
  <2> QED BY <2>3, <2>4
<1>3. \E g : Iter(n, g)
  <2> HIDE DEF Iter
  <2>1. n \in T
    <3> HIDE DEF T
    <3> QED BY <1>1, <1>2, <1>0, NumbersInduction
  <2> QED BY <2>1
<1> DEFINE iter == CHOOSE g : Iter(n, g)
           h == [i \in 0..n |-> iter[1..i]]
<1>4. Iter(n, iter)
  <2> HIDE DEF Iter
  <2> QED BY <1>3
<1>5. Obey(w) = iter[1..n]
  BY <1>0 DEF FoldLeft, MapThenFoldSet, Obey, q
<1> HIDE DEF iter
<1>6. h[0] = w
  <2>1. 1..0 = {} OBVIOUS
  <2> QED BY <1>0, <1>4, <2>1
<1>7. ASSUME NEW i \in 1..n PROVE h[i] = ObeyOne(h[i - 1], q[i])
  <2>1. Max(1..i) = i BY <1>0, GreatestNumber
  <2>2. (1..i) \ {i} = 1..(i - 1) BY <1>0
  <2>3. 1..i \in SUBSET (1..n) /\ 1..i # {} /\ i - 1 \in 0..n
    <3>1. i \in 1..i /\ i - 1 \in 0..n BY <1>0
    <3>2. \A x \in 1..i : x \in 1..n BY <1>0
    <3> QED BY <3>1, <3>2
  <2>4. h[i] = iter[1..i] /\ h[i - 1] = iter[1..(i - 1)] BY <2>3
  <2> HIDE DEF h
  <2>5. iter[1..i] = ObeyOne(iter[1..(i - 1)], q[i])
    <3> DEFINE s == 1..i
    <3>1. iter[s] = IF s = {} THEN w ELSE ObeyOne(iter[s \ {Max(s)}], q[Max(s)]) BY <1>4, <2>3
    <3> QED BY <1>0, <3>1, <2>1, <2>2, <2>3
  <2> QED BY <2>4, <2>5
<1>8. h[n] = iter[1..n] BY <1>0
<1> HIDE DEF h
<1>10. 1 \in 1..5 /\ 2 \in 1..5 /\ 3 \in 1..5 /\ 4 \in 1..5 /\ 5 \in 1..5 OBVIOUS
<1>11. /\ h[1] = ObeyOne(h[0], "reconfigure") /\ h[2] = ObeyOne(h[1], "restart")
       /\ h[3] = ObeyOne(h[2], "reopen") /\ h[4] = ObeyOne(h[3], "change_binary")
       /\ h[5] = ObeyOne(h[4], "noaccept")
  BY <1>7, <1>9, <1>10 DEF n
<1> QED BY <1>5, <1>6, <1>8, <1>11 DEF n

-----------------------------------------------------------------------------
(* What a spawn keeps                                                      *)

Sound(w, F, Z) == Book(w, F, Z) /\ Counters(w)

ServingOf(w) == {i \in Slots : /\ w.processes[i].pid
                               /\ w.processes[i].respawn
                               /\ ~w.processes[i].exiting}
\* those of them that a reload has just started
NewOf(w) == {i \in ServingOf(w) : w.processes[i].just_spawn}

SameTable(t, w) ==
    /\ DOMAIN t = WorkFields
    /\ t.processes = w.processes /\ t.child = w.child /\ t.peer = w.peer
    /\ t.last_process = w.last_process
    /\ w.failed => t.failed

LEMMA SameBook ==
    ASSUME NEW F, NEW Z, NEW w, NEW t, Book(w, F, Z), SameTable(t, w)
    PROVE  /\ Book(t, F, Z)
           /\ \A i \in Slots : RetiredAt(w, i) => RetiredAt(t, i)
           /\ \A i \in Slots : FreshAt(w, i) => FreshAt(t, i)
           /\ NoneNew(w) => NoneNew(t)
           /\ ServingOf(t) = ServingOf(w) /\ NewOf(t) = NewOf(w)
<1>1. TableTypes(t) BY DEF Book, SameTable, TableTypes
<1>2. Agrees(t) BY DEF Book, SameTable, Agrees
<1>3. ~F /\ ~t.failed => Leads(t) /\ Told(t) BY DEF Book, SameTable, Leads, Told
<1>4. ~Z => \A i \in Slots : t.child[i].st # "fatal" BY DEF Book, SameTable
<1>5. Book(t, F, Z) BY <1>1, <1>2, <1>3, <1>4 DEF Book
<1>6. ServingOf(t) = ServingOf(w) /\ NewOf(t) = NewOf(w) BY DEF SameTable, ServingOf, NewOf
<1>7. NoneNew(w) => NoneNew(t) BY DEF SameTable, NoneNew
<1>8. \A i \in Slots : FreshAt(w, i) => FreshAt(t, i) BY DEF SameTable, FreshAt
<1>9. \A i \in Slots : RetiredAt(w, i) => RetiredAt(t, i) BY DEF SameTable, RetiredAt
<1> QED BY <1>5, <1>6, <1>7, <1>8, <1>9

\* A fork fails only in the working record, and what failed stays failed.
SpawnKeeps(t, w) ==
    /\ Only(t, w, {"spawned", "forks", "child", "peer", "processes", "last_process",
                   "failed", "full"})
    /\ w.failed => t.failed
    /\ w.full => t.full

LEMMA SpawnsSound ==
    ASSUME NEW F, NEW Z, NEW w, NEW t, NEW type \in SpawnTypes, NEW s, NEW d,
           Book(w, F, Z), SpawnsAt(t, w, type, s, d)
    PROVE  Book(t, F, Z)
<1>1. /\ DOMAIN w = WorkFields /\ w.processes \in [Slots -> ProcessRecords]
      /\ w.child \in [Slots -> ChildRecords] /\ w.peer \in [Slots -> {0} \cup Slots]
      /\ w.last_process \in 0..MaxProcesses
  BY DEF Book, TableTypes
<1>2. Agrees(w) BY DEF Book
<1>3. s \in Slots /\ ~w.processes[s].pid /\ s <= w.last_process + 1 BY DEF SpawnsAt
<1>4. /\ t.child = [w.child EXCEPT ![s] = Child("run")]
      /\ t.peer = IF d = 0 THEN w.peer ELSE [w.peer EXCEPT ![d] = s]
      /\ t.last_process = IF s = w.last_process + 1 THEN s ELSE w.last_process
      /\ t.processes \in [Slots -> ProcessRecords]
      /\ \A i \in Slots \ {s} : t.processes[i] = w.processes[i]
  BY DEF SpawnsAt
<1>5. /\ t.processes[s].pid /\ ~t.processes[s].exiting /\ ~t.processes[s].exited
      /\ t.processes[s].detached => d = 0 /\ ~t.processes[s].respawn
      /\ t.processes[s].chan = d
      /\ d # 0 => d \in Slots /\ w.peer[d] = 0
  BY DEF SpawnsAt
<1>6. Child("run") = [st |-> "run", cmd |-> "none", old |-> FALSE] BY DEF Child
<1>7. t.child[s] = Child("run") /\ \A i \in Slots \ {s} : t.child[i] = w.child[i]
  BY <1>1, <1>3, <1>4
<1>8. s \in Nat /\ s <= t.last_process /\ w.last_process <= t.last_process
      /\ t.last_process \in 0..MaxProcesses
  BY <1>1, <1>3, <1>4, ProcessAssumption DEF Slots
<1>9. TableTypes(t)
  <2>1. DOMAIN t = WorkFields BY DEF SpawnsAt, Only
  <2>2. Child("run") \in ChildRecords BY DEF Child, ChildRecords
  <2>3. t.child \in [Slots -> ChildRecords] BY <1>1, <1>4, <2>2
  <2>4. t.peer \in [Slots -> {0} \cup Slots]
    <3>1. [w.peer EXCEPT ![d] = s] \in [Slots -> {0} \cup Slots] BY <1>1, <1>3
    <3>2. t.peer = w.peer \/ t.peer = [w.peer EXCEPT ![d] = s] BY <1>4
    <3> QED BY <1>1, <3>1, <3>2
  <2> QED BY <1>4, <1>8, <2>1, <2>3, <2>4 DEF TableTypes
<1>10. w.processes[s].chan = 0 BY <1>2, <1>3 DEF Agrees, NoProcess
<1>11. \A i \in Slots : w.last_process >= i => t.last_process >= i
  BY <1>1, <1>8 DEF Slots
<1>12. Agrees(t)
  <2>1. ASSUME NEW i \in Slots
        PROVE  /\ t.child[i].st # "none" <=> t.processes[i].pid /\ ~t.processes[i].exited
               /\ t.processes[i].pid => i <= t.last_process
               /\ ~t.processes[i].pid => t.processes[i] = NoProcess
               /\ t.processes[i].detached => t.processes[i].chan = 0 /\ ~t.processes[i].respawn
    <3>1. CASE i = s BY <1>5, <1>6, <1>7, <1>8, <3>1
    <3>2. CASE i # s
      <4>1. t.processes[i] = w.processes[i] /\ t.child[i] = w.child[i] BY <1>4, <1>7, <3>2
      <4>2. w.processes[i].pid => i <= w.last_process BY <1>2 DEF Agrees
      <4>3. i <= w.last_process => i <= t.last_process BY <1>1, <1>8 DEF Slots
      <4> QED BY <1>2, <4>1, <4>2, <4>3 DEF Agrees
    <3> QED BY <3>1, <3>2
  <2>2. ASSUME NEW x \in Slots, t.peer[x] # 0 PROVE \E i \in Slots : t.processes[i].chan = x
    <3>1. CASE x = d BY <1>3, <1>5, <3>1
    <3>2. CASE x # d
      <4>1. w.peer[x] # 0 BY <1>1, <1>4, <2>2, <3>2
      <4>2. PICK i \in Slots : w.processes[i].chan = x BY <1>2, <4>1 DEF Agrees
      <4>3. i # s BY <1>10, <4>2, SlotsFinite
      <4> QED BY <1>4, <4>2, <4>3
    <3> QED BY <3>1, <3>2
  <2> QED BY <2>1, <2>2 DEF Agrees
<1>13. t.failed = w.failed BY DEF SpawnsAt, Only, WorkFields
<1>14. ASSUME ~F, ~t.failed PROVE Leads(t) /\ Told(t)
  <2>1. Leads(w) /\ Told(w) BY <1>13, <1>14 DEF Book
  <2>2. ASSUME NEW i \in Slots, t.processes[i].chan # 0 PROVE t.peer[t.processes[i].chan] = i
    <3>1. CASE i = s BY <1>1, <1>4, <1>5, <2>2, <3>1
    <3>2. CASE i # s
      <4>1. w.peer[w.processes[i].chan] = i /\ w.processes[i].chan # 0
        BY <1>4, <2>1, <2>2, <3>2 DEF Leads
      <4>2. w.processes[i].chan # d BY <1>5, <4>1, SlotsFinite
      <4>3. w.processes[i].chan \in Slots
        <5>1. w.processes[i] \in ProcessRecords BY <1>1
        <5> QED BY <4>1, <5>1 DEF ProcessRecords
      <4> QED BY <1>1, <1>4, <3>2, <4>1, <4>2, <4>3
    <3> QED BY <3>1, <3>2
  <2>3. Told(t)
    <3> SUFFICES ASSUME NEW i \in Slots, Alive(t.child[i])
                 PROVE  /\ t.processes[i].exiting /\ ~t.processes[i].detached => t.child[i].cmd # "none"
                        /\ ~t.processes[i].exiting => t.child[i].cmd = "none"
      BY DEF Told
    <3>1. CASE i = s BY <1>5, <1>6, <1>7, <3>1
    <3>2. CASE i # s
      <4>1. t.processes[i] = w.processes[i] /\ t.child[i] = w.child[i] BY <1>4, <1>7, <3>2
      <4> QED BY <2>1, <4>1 DEF Told
    <3> QED BY <3>1, <3>2
  <2> QED BY <2>2, <2>3 DEF Leads
<1>15. ~Z => \A i \in Slots : t.child[i].st # "fatal"
  <2>1. Child("run").st # "fatal" BY <1>6
  <2> QED BY <1>7, <2>1 DEF Book
<1> QED BY <1>9, <1>12, <1>14, <1>15 DEF Book

LEMMA SpawnSound ==
    ASSUME NEW F, NEW Z, NEW w, Sound(w, F, Z), NEW type \in SpawnTypes
    PROVE  LET t == Spawn(w, type)
           IN /\ Sound(t, F, Z) /\ SpawnKeeps(t, w)
              /\ \A i \in Slots : RetiredAt(w, i) => RetiredAt(t, i)
              /\ \A i \in Slots : FreshAt(w, i) => FreshAt(t, i)
              /\ type # "JUST_RESPAWN" /\ NoneNew(w) => NoneNew(t)
              /\ type = "DETACHED" => ServingOf(t) = ServingOf(w)
              /\ type # "DETACHED" =>
                    \/ t.failed \/ t.full
                    \/ \E s \in Slots \ ServingOf(w) :
                          /\ ServingOf(t) = ServingOf(w) \cup {s}
                          /\ type = "JUST_RESPAWN" => NewOf(t) = NewOf(w) \cup {s}
<1> DEFINE t == Spawn(w, type)
<1>1. Book(w, F, Z) /\ TableTypes(w) /\ Agrees(w) /\ w.reuse \in BOOLEAN
  BY DEF Sound, Book, Counters
<1>2. \/ SpawnFull(t, w) \/ SpawnFails(t, w) \/ \E s, d : SpawnsAt(t, w, type, s, d)
  BY <1>1, SpawnOutcome
<1> HIDE DEF t
<1>3. SpawnKeeps(t, w) /\ Counters(t)
  <2>1. CASE SpawnFull(t, w)
    <3>1. SpawnKeeps(t, w) BY <2>1 DEF SpawnFull, SpawnKeeps, Only, WorkFields
    <3> QED BY <2>1, <3>1 DEF SpawnFull, Sound, Counters, Only, WorkFields
  <2>2. CASE SpawnFails(t, w)
    <3>1. SpawnKeeps(t, w) BY <2>2 DEF SpawnFails, SpawnKeeps, Only, WorkFields
    <3> QED BY <2>2, <3>1 DEF SpawnFails, Sound, Counters, Only, WorkFields
  <2>3. ASSUME NEW s, NEW d, SpawnsAt(t, w, type, s, d) PROVE SpawnKeeps(t, w) /\ Counters(t)
    <3>1. SpawnKeeps(t, w) BY <2>3 DEF SpawnsAt, SpawnKeeps, Only, WorkFields
    <3>2. t.forks \in Nat BY <2>3 DEF SpawnsAt, Sound, Counters
    <3> QED BY <2>3, <3>1, <3>2 DEF SpawnsAt, Sound, Counters, Only, WorkFields
  <2> QED BY <1>2, <2>1, <2>2, <2>3
<1> DEFINE Result == /\ Book(t, F, Z)
                     /\ \A i \in Slots : RetiredAt(w, i) => RetiredAt(t, i)
                     /\ \A i \in Slots : FreshAt(w, i) => FreshAt(t, i)
                     /\ type # "JUST_RESPAWN" /\ NoneNew(w) => NoneNew(t)
                     /\ type = "DETACHED" => ServingOf(t) = ServingOf(w)
                     /\ type # "DETACHED" =>
                           \/ t.failed \/ t.full
                           \/ \E s \in Slots \ ServingOf(w) :
                                 /\ ServingOf(t) = ServingOf(w) \cup {s}
                                 /\ type = "JUST_RESPAWN" => NewOf(t) = NewOf(w) \cup {s}
<1>4. ASSUME SpawnFull(t, w) PROVE Result
  <2>1. SameTable(t, w) BY <1>4 DEF SpawnFull, SameTable, Only, WorkFields
  <2>2. t.full BY <1>4 DEF SpawnFull
  <2>3. /\ Book(t, F, Z)
        /\ \A i \in Slots : RetiredAt(w, i) => RetiredAt(t, i)
        /\ \A i \in Slots : FreshAt(w, i) => FreshAt(t, i)
        /\ NoneNew(w) => NoneNew(t)
        /\ ServingOf(t) = ServingOf(w)
    BY <1>1, <2>1, SameBook
  <2> QED BY <2>2, <2>3
<1>5. ASSUME SpawnFails(t, w) PROVE Result
  <2>1. SameTable(t, w) BY <1>5 DEF SpawnFails, SameTable, Only, WorkFields
  <2>2. t.failed BY <1>5 DEF SpawnFails
  <2>3. /\ Book(t, F, Z)
        /\ \A i \in Slots : RetiredAt(w, i) => RetiredAt(t, i)
        /\ \A i \in Slots : FreshAt(w, i) => FreshAt(t, i)
        /\ NoneNew(w) => NoneNew(t)
        /\ ServingOf(t) = ServingOf(w)
    BY <1>1, <2>1, SameBook
  <2> QED BY <2>2, <2>3
<1>6. ASSUME NEW s, NEW d, SpawnsAt(t, w, type, s, d) PROVE Result
  <2>1. Book(t, F, Z) BY <1>1, <1>6, SpawnsSound
  <2>2. /\ s \in Slots /\ ~w.processes[s].pid /\ t.child[s] = Child("run")
        /\ \A i \in Slots \ {s} : t.processes[i] = w.processes[i] /\ t.child[i] = w.child[i]
    BY <1>1, <1>6 DEF SpawnsAt, TableTypes
  <2>3. /\ t.processes[s].pid /\ ~t.processes[s].exiting
        /\ t.processes[s].respawn <=> type # "DETACHED"
        /\ t.processes[s].just_spawn <=> type = "JUST_RESPAWN"
        /\ t.processes[s].detached <=> type = "DETACHED"
    BY <1>6 DEF SpawnsAt
  <2>4. ~Child("run").old BY DEF Child
  <2>5. \A i \in Slots : RetiredAt(w, i) => RetiredAt(t, i) BY <2>2, <2>4 DEF RetiredAt
  <2>6. \A i \in Slots : FreshAt(w, i) => FreshAt(t, i) BY <2>2, <2>3, <2>4 DEF FreshAt
  <2>7. type # "JUST_RESPAWN" /\ NoneNew(w) => NoneNew(t) BY <2>2, <2>3 DEF NoneNew
  <2>8. \A i \in Slots \ {s} : i \in ServingOf(t) <=> i \in ServingOf(w) BY <2>2 DEF ServingOf
  <2>9. s \notin ServingOf(w) /\ (s \in ServingOf(t) <=> type # "DETACHED")
    BY <2>2, <2>3 DEF ServingOf
  <2>10. ServingOf(t) \subseteq Slots /\ ServingOf(w) \subseteq Slots BY DEF ServingOf
  <2>11. ServingOf(t) = IF type = "DETACHED" THEN ServingOf(w) ELSE ServingOf(w) \cup {s}
    BY <2>2, <2>8, <2>9, <2>10
  <2>12. type = "JUST_RESPAWN" => NewOf(t) = NewOf(w) \cup {s}
    <3> SUFFICES ASSUME type = "JUST_RESPAWN" PROVE NewOf(t) = NewOf(w) \cup {s} OBVIOUS
    <3>1. ServingOf(t) = ServingOf(w) \cup {s} /\ t.processes[s].just_spawn BY <2>3, <2>11
    <3>2. \A i \in ServingOf(w) : t.processes[i] = w.processes[i] BY <2>2, <2>9, <2>10
    <3> QED BY <3>1, <3>2 DEF NewOf
  <2> QED BY <2>1, <2>2, <2>5, <2>6, <2>7, <2>9, <2>11, <2>12
<1>7. Result
  <2> HIDE DEF Result
  <2>1. (\E s, d : SpawnsAt(t, w, type, s, d)) => Result BY <1>6
  <2> QED BY <1>2, <1>4, <1>5, <2>1
<1> QED BY <1>3, <1>7 DEF Sound, t
\* The workers a call of ngx_start_worker_processes() counts as its own
StartedOf(w, type) == IF type = "JUST_RESPAWN" THEN NewOf(w) ELSE ServingOf(w)

\* n spawns have led from w to t.
StartedTo(t, w, type, F, Z, n) ==
    /\ Sound(t, F, Z) /\ SpawnKeeps(t, w)
    /\ \A i \in Slots : RetiredAt(w, i) => RetiredAt(t, i)
    /\ \A i \in Slots : FreshAt(w, i) => FreshAt(t, i)
    /\ type = "RESPAWN" /\ NoneNew(w) => NoneNew(t)
    /\ t.failed \/ t.full \/ Cardinality(StartedOf(t, type)) >= n

LEMMA StartedFinite ==
    ASSUME NEW w, NEW type
    PROVE  /\ IsFiniteSet(ServingOf(w)) /\ IsFiniteSet(StartedOf(w, type))
           /\ Cardinality(StartedOf(w, type)) \in Nat /\ Cardinality(ServingOf(w)) \in Nat
           /\ Cardinality(StartedOf(w, type)) <= Cardinality(ServingOf(w))
<1>1. ServingOf(w) \subseteq Slots /\ StartedOf(w, type) \subseteq ServingOf(w)
  BY DEF ServingOf, StartedOf, NewOf
<1>2. IsFiniteSet(ServingOf(w)) BY <1>1, SlotsFinite, FS_Subset
<1>3. IsFiniteSet(StartedOf(w, type)) BY <1>1, <1>2, FS_Subset
<1>4. Cardinality(StartedOf(w, type)) <= Cardinality(ServingOf(w)) BY <1>1, <1>2, FS_Subset
<1> QED BY <1>2, <1>3, <1>4, FS_CardinalityType

LEMMA StartedStep ==
    ASSUME NEW F, NEW Z, NEW w, NEW type \in {"RESPAWN", "JUST_RESPAWN"}, NEW n \in Nat,
           NEW v, StartedTo(v, w, type, F, Z, n)
    PROVE  StartedTo(Spawn(v, type), w, type, F, Z, n + 1)
<1> DEFINE t == Spawn(v, type)
<1>1. type \in SpawnTypes /\ type # "DETACHED" BY DEF SpawnTypes
<1>2. Sound(v, F, Z) BY DEF StartedTo
<1>3. /\ Sound(t, F, Z) /\ SpawnKeeps(t, v)
      /\ \A i \in Slots : RetiredAt(v, i) => RetiredAt(t, i)
      /\ \A i \in Slots : FreshAt(v, i) => FreshAt(t, i)
      /\ type # "JUST_RESPAWN" /\ NoneNew(v) => NoneNew(t)
      /\ \/ t.failed \/ t.full
         \/ \E s \in Slots \ ServingOf(v) :
               /\ ServingOf(t) = ServingOf(v) \cup {s}
               /\ type = "JUST_RESPAWN" => NewOf(t) = NewOf(v) \cup {s}
  BY <1>1, <1>2, SpawnSound
<1> HIDE DEF t
<1>4. SpawnKeeps(t, w)
  <2>1. SpawnKeeps(v, w) BY DEF StartedTo
  <2> QED BY <1>3, <2>1 DEF SpawnKeeps, Only
<1>5. t.failed \/ t.full \/ Cardinality(StartedOf(t, type)) >= n + 1
  <2>1. CASE v.failed \/ v.full BY <1>3, <2>1 DEF SpawnKeeps
  <2>2. ASSUME ~v.failed, ~v.full, ~t.failed, ~t.full
        PROVE  Cardinality(StartedOf(t, type)) >= n + 1
    <3>1. PICK s \in Slots \ ServingOf(v) :
               /\ ServingOf(t) = ServingOf(v) \cup {s}
               /\ type = "JUST_RESPAWN" => NewOf(t) = NewOf(v) \cup {s}
      BY <1>3, <2>2
    <3>2. StartedOf(t, type) = StartedOf(v, type) \cup {s} BY <3>1 DEF StartedOf
    <3>3. s \notin StartedOf(v, type) BY <3>1 DEF StartedOf, NewOf
    <3>4. Cardinality(StartedOf(v, type)) >= n BY <2>2 DEF StartedTo
    <3>5. IsFiniteSet(StartedOf(v, type)) /\ Cardinality(StartedOf(v, type)) \in Nat
      BY StartedFinite
    <3>6. Cardinality(StartedOf(t, type)) = Cardinality(StartedOf(v, type)) + 1
      BY <3>2, <3>3, <3>5, FS_AddElement
    <3> QED BY <3>4, <3>5, <3>6
  <2> QED BY <2>1, <2>2
<1>6. /\ \A i \in Slots : RetiredAt(w, i) => RetiredAt(t, i)
      /\ \A i \in Slots : FreshAt(w, i) => FreshAt(t, i)
      /\ type = "RESPAWN" /\ NoneNew(w) => NoneNew(t)
  BY <1>3 DEF StartedTo
<1>7. StartedTo(t, w, type, F, Z, n + 1)
  BY <1>3, <1>4, <1>5, <1>6 DEF StartedTo
<1> QED BY <1>7 DEF t

LEMMA StartedSound ==
    ASSUME NEW F, NEW Z, NEW w, NEW type \in {"RESPAWN", "JUST_RESPAWN"}, Sound(w, F, Z)
    PROVE  StartedTo(StartWorkerProcesses(w, type), w, type, F, Z, WorkerProcesses)
<1>1. WorkerProcesses \in Nat BY ProcessAssumption
<1>2. PICK h : /\ h[0] = w
               /\ \A i \in 1..WorkerProcesses : h[i] = Spawn(h[i - 1], type)
               /\ StartWorkerProcesses(w, type) = h[WorkerProcesses]
  BY <1>1, SpawnLoop
<1> DEFINE T == {n \in Nat : n <= WorkerProcesses => StartedTo(h[n], w, type, F, Z, n)}
<1>3. 0 \in T
  <2>1. SpawnKeeps(w, w) BY DEF SpawnKeeps, Only, Sound, Book, TableTypes
  <2>2. Cardinality(StartedOf(w, type)) >= 0 BY StartedFinite
  <2>3. StartedTo(w, w, type, F, Z, 0) BY <2>1, <2>2 DEF StartedTo
  <2> QED BY <1>2, <2>3
<1>4. ASSUME NEW n \in Nat, n \in T PROVE n + 1 \in T
  <2> SUFFICES ASSUME n + 1 <= WorkerProcesses
               PROVE  StartedTo(h[n + 1], w, type, F, Z, n + 1)
    OBVIOUS
  <2>1. n <= WorkerProcesses /\ n + 1 \in 1..WorkerProcesses /\ (n + 1) - 1 = n BY <1>1
  <2>2. StartedTo(h[n], w, type, F, Z, n) BY <1>4, <2>1
  <2>3. h[n + 1] = Spawn(h[n], type) BY <1>2, <2>1
  <2> QED BY <2>2, <2>3, StartedStep
<1>5. WorkerProcesses \in T
  <2> HIDE DEF T
  <2> QED BY <1>1, <1>3, <1>4, NumbersInduction
<1> QED BY <1>1, <1>2, <1>5
-----------------------------------------------------------------------------
(* Signals to the workers                                                  *)

Sigs == {"KILL", "TERM", "QUIT", "USR1"}

\* What a command leaves of the child x
Tells(t, w, x, sig) ==
    /\ Only(t, w, {"child", "pending"})
    /\ t.pending \subseteq w.pending \cup {"CHLD"}
    /\ t.child \in [Slots -> ChildRecords]
    /\ \A j \in Slots : j # x => t.child[j] = w.child[j]
    /\ t.child[x].old = w.child[x].old
    /\ t.child[x].st # "none" <=> w.child[x].st # "none"
    /\ t.child[x].st = "fatal" => w.child[x].st = "fatal"
    /\ Alive(t.child[x]) => Alive(w.child[x])
    /\ Alive(t.child[x]) /\ sig # "USR1" => t.child[x].cmd # "none"
    /\ Alive(t.child[x]) => w.child[x].cmd = "none" \/ t.child[x].cmd # "none"
    /\ sig = "USR1" => t.child[x] = w.child[x]

LEMMA TellOutcome ==
    ASSUME NEW w, TableTypes(w), NEW x \in Slots, NEW sig \in Sigs
    PROVE  Tells(Tell(w, x, sig), w, x, sig)
<1> DEFINE t == Tell(w, x, sig)
           c == w.child[x]
<1>1. DOMAIN w = WorkFields /\ w.child \in [Slots -> ChildRecords] BY DEF TableTypes
<1>2. c \in ChildRecords BY <1>1
<1>3. ASSUME t = w, ~Alive(c) \/ sig = "USR1" \/ c.cmd # "none" PROVE Tells(t, w, x, sig)
  <2> HIDE DEF t
  <2>1. Alive(c) /\ sig # "USR1" => c.cmd # "none" BY <1>3
  <2> QED BY <1>1, <1>3, <2>1 DEF Tells, Only
<1>4. ASSUME NEW e \in ChildRecords, t.child = [w.child EXCEPT ![x] = e],
             Only(t, w, {"child", "pending"}), t.pending \subseteq w.pending \cup {"CHLD"},
             Alive(c), sig # "USR1",
             e.old = c.old, (e.st = c.st /\ e.cmd # "none") \/ e.st = "zombie"
      PROVE  Tells(t, w, x, sig)
  <2> HIDE DEF t
  <2>1. t.child \in [Slots -> ChildRecords] /\ t.child[x] = e
        /\ \A j \in Slots : j # x => t.child[j] = w.child[j]
    BY <1>1, <1>4
  <2> QED BY <1>4, <2>1 DEF Tells, Alive
<1>5. CASE ~Alive(c) BY <1>3, <1>5 DEF Tell
<1>6. CASE Alive(c) /\ sig = "KILL"
  <2> DEFINE e == [c EXCEPT !.st = "zombie"]
  <2>1. e \in ChildRecords /\ e.old = c.old /\ e.st = "zombie"
    <3> HIDE DEF c
    <3> QED BY <1>2 DEF ChildRecords
  <2>2. t = [w EXCEPT !.child[x].st = "zombie", !.pending = @ \cup {"CHLD"}]
    BY <1>6 DEF Tell
  <2>3. t.child = [w.child EXCEPT ![x] = e] /\ Only(t, w, {"child", "pending"})
        /\ t.pending \subseteq w.pending \cup {"CHLD"}
    BY <1>1, <2>2 DEF Only, WorkFields
  <2> HIDE DEF e, t, c
  <2> QED BY <1>4, <1>6, <2>1, <2>3 DEF t
<1>7. CASE Alive(c) /\ sig = "TERM"
  <2> DEFINE e == [c EXCEPT !.cmd = "terminate"]
  <2>1. e \in ChildRecords /\ e.old = c.old /\ e.st = c.st /\ e.cmd # "none"
    <3> HIDE DEF c
    <3> QED BY <1>2 DEF ChildRecords
  <2>2. t = [w EXCEPT !.child[x].cmd = "terminate"] BY <1>7 DEF Tell
  <2>3. t.child = [w.child EXCEPT ![x] = e] /\ Only(t, w, {"child", "pending"})
        /\ t.pending \subseteq w.pending \cup {"CHLD"}
    BY <1>1, <2>2 DEF Only, WorkFields
  <2> HIDE DEF e, t, c
  <2> QED BY <1>4, <1>7, <2>1, <2>3 DEF t
<1>8. CASE Alive(c) /\ sig = "QUIT" /\ c.cmd = "none"
  <2> DEFINE e == [c EXCEPT !.cmd = "quit"]
  <2>1. e \in ChildRecords /\ e.old = c.old /\ e.st = c.st /\ e.cmd # "none"
    <3> HIDE DEF c
    <3> QED BY <1>2 DEF ChildRecords
  <2>2. t = [w EXCEPT !.child[x].cmd = "quit"] BY <1>8 DEF Tell
  <2>3. t.child = [w.child EXCEPT ![x] = e] /\ Only(t, w, {"child", "pending"})
        /\ t.pending \subseteq w.pending \cup {"CHLD"}
    BY <1>1, <2>2 DEF Only, WorkFields
  <2> HIDE DEF e, t, c
  <2> QED BY <1>4, <1>8, <2>1, <2>3 DEF t
<1>9. CASE Alive(c) /\ (sig = "USR1" \/ (sig = "QUIT" /\ c.cmd # "none"))
  <2>1. t = w BY <1>9 DEF Tell
  <2> QED BY <1>3, <1>9, <2>1
<1> QED BY <1>5, <1>6, <1>7, <1>8, <1>9 DEF Sigs

\* What ngx_signal_worker_processes() does for the slot i, and to the others
Signalled(t, w, i) ==
    /\ Only(t, w, {"processes", "child", "pending", "flags"})
    /\ w.flags \subseteq t.flags /\ t.flags \subseteq w.flags \cup {"reap"}
    /\ \A j \in Slots : j # i => t.processes[j] = w.processes[j]
    /\ \A j \in Slots : /\ t.child[j].old = w.child[j].old
                        /\ Alive(t.child[j]) => Alive(w.child[j])
    /\ t.processes[i].pid = w.processes[i].pid
    /\ t.processes[i].detached = w.processes[i].detached
    /\ t.processes[i].respawn = w.processes[i].respawn
    /\ t.processes[i].just_spawn => w.processes[i].just_spawn
    /\ w.processes[i].exiting /\ Alive(t.child[i]) => t.processes[i].exiting

\* A command to x, on behalf of the slot i
Marked(sig, v, i) ==
    IF sig = "USR1" THEN v ELSE [v EXCEPT !.processes[i].exiting = TRUE]

LEMMA MarkedSound ==
    ASSUME NEW F, NEW Z, NEW w, Sound(w, F, Z), NEW i \in Slots, NEW x \in Slots,
           NEW sig \in Sigs, w.processes[i].pid, ~w.processes[i].detached,
           ~F /\ ~w.failed => x = i
    PROVE  LET t == Marked(sig, Tell(w, x, sig), i)
           IN /\ Sound(t, F, Z) /\ Signalled(t, w, i)
              /\ t.processes[i].just_spawn = w.processes[i].just_spawn
              /\ sig # "USR1" => t.processes[i].exiting
              /\ sig = "USR1" => t.processes = w.processes
<1> DEFINE v == Tell(w, x, sig)
           t == Marked(sig, v, i)
           p == w.processes[i]
           e == IF sig = "USR1" THEN p ELSE [p EXCEPT !.exiting = TRUE]
<1>1. Book(w, F, Z) /\ TableTypes(w) /\ Agrees(w) /\ Counters(w) BY DEF Sound, Book
<1>2. DOMAIN w = WorkFields /\ w.processes \in [Slots -> ProcessRecords] BY <1>1 DEF TableTypes
<1>3. Tells(v, w, x, sig) BY <1>1, TellOutcome
<1>4. p \in ProcessRecords BY <1>2
<1> HIDE DEF v, p
<1>5. /\ e \in ProcessRecords
      /\ e.pid = p.pid /\ e.exited = p.exited /\ e.respawn = p.respawn /\ e.chan = p.chan
      /\ e.just_spawn = p.just_spawn /\ e.detached = p.detached
      /\ sig # "USR1" => e.exiting
      /\ sig = "USR1" => e = p
  BY <1>4 DEF ProcessRecords
<1>6. DOMAIN v = WorkFields /\ v.processes = w.processes
  BY <1>3 DEF Tells, Only, WorkFields
<1>7. /\ Only(t, v, {"processes"})
      /\ t.processes = [w.processes EXCEPT ![i] = e]
  <2>1. CASE sig = "USR1"
    <3>1. t = v /\ [w.processes EXCEPT ![i] = p] = w.processes
      BY <1>2, <2>1 DEF Marked, p
    <3> QED BY <1>6, <2>1, <3>1 DEF Only
  <2>2. CASE sig # "USR1"
    <3>1. t = [v EXCEPT !.processes[i].exiting = TRUE] BY <2>2 DEF Marked
    <3> QED BY <1>6, <2>2, <3>1 DEF Only, WorkFields, p
  <2> QED BY <2>1, <2>2
<1> HIDE DEF t, e
<1>8. /\ t.processes \in [Slots -> ProcessRecords] /\ t.processes[i] = e
      /\ \A j \in Slots : j # i => t.processes[j] = w.processes[j]
  BY <1>2, <1>5, <1>7
<1>9. /\ Only(t, w, {"processes", "child", "pending"})
      /\ t.child = v.child /\ t.pending = v.pending
  BY <1>3, <1>7 DEF Tells, Only, WorkFields
<1>10. /\ t.flags = w.flags /\ t.peer = w.peer /\ t.last_process = w.last_process
       /\ t.failed = w.failed
  BY <1>9 DEF Only, WorkFields
<1>11. \A j \in Slots : /\ t.child[j].old = w.child[j].old
                        /\ Alive(t.child[j]) => Alive(w.child[j])
                        /\ t.child[j].st # "none" <=> w.child[j].st # "none"
                        /\ t.child[j].st = "fatal" => w.child[j].st = "fatal"
  BY <1>3, <1>9 DEF Tells
<1>12. Signalled(t, w, i)
  BY <1>5, <1>8, <1>9, <1>10, <1>11 DEF Signalled, Only, p
<1>13. Counters(t)
  <2>1. t.pending \subseteq Signals BY <1>1, <1>3, <1>9 DEF Tells, Counters, Signals
  <2> QED BY <1>1, <1>9, <2>1 DEF Counters, Only, WorkFields
<1>14. TableTypes(t)
  BY <1>1, <1>3, <1>8, <1>9, <1>10 DEF TableTypes, Tells, Only
<1>15. Agrees(t)
  <2>1. ASSUME NEW j \in Slots
        PROVE  /\ t.processes[j].pid = w.processes[j].pid
               /\ t.processes[j].exited = w.processes[j].exited
               /\ t.processes[j].chan = w.processes[j].chan
               /\ t.processes[j].respawn = w.processes[j].respawn
               /\ t.processes[j].detached = w.processes[j].detached
               /\ ~t.processes[j].pid => t.processes[j] = w.processes[j]
    BY <1>5, <1>8 DEF p
  <2> QED BY <1>1, <1>10, <1>11, <2>1 DEF Agrees
<1>16. ASSUME ~F, ~t.failed PROVE Leads(t) /\ Told(t)
  <2>1. Leads(w) /\ Told(w) /\ x = i BY <1>1, <1>10, <1>16 DEF Book
  <2>2. \A j \in Slots : t.processes[j].chan = w.processes[j].chan BY <1>5, <1>8 DEF p
  <2>3. Leads(t) BY <1>10, <2>1, <2>2 DEF Leads
  <2>4. ASSUME NEW j \in Slots, Alive(t.child[j])
        PROVE  /\ t.processes[j].exiting /\ ~t.processes[j].detached => t.child[j].cmd # "none"
               /\ ~t.processes[j].exiting => t.child[j].cmd = "none"
    <3>1. CASE j # i
      <4>1. t.processes[j] = w.processes[j] /\ t.child[j] = w.child[j]
        BY <1>3, <1>8, <1>9, <2>1, <3>1 DEF Tells
      <4> QED BY <2>1, <2>4, <4>1 DEF Told
    <3>2. CASE j = i /\ sig # "USR1"
      <4>1. t.child[j].cmd # "none" BY <1>3, <1>9, <2>1, <2>4, <3>2 DEF Tells
      <4> QED BY <1>5, <1>8, <3>2, <4>1
    <3>3. CASE j = i /\ sig = "USR1"
      <4>1. t.processes[j] = w.processes[j] /\ t.child[j] = w.child[j]
        BY <1>3, <1>5, <1>8, <1>9, <2>1, <3>3 DEF Tells, p
      <4> QED BY <2>1, <2>4, <4>1 DEF Told
    <3> QED BY <3>1, <3>2, <3>3
  <2> QED BY <2>3, <2>4 DEF Told
<1>17. ~Z => \A j \in Slots : t.child[j].st # "fatal" BY <1>1, <1>11 DEF Book
<1>18. Sound(t, F, Z) BY <1>13, <1>14, <1>15, <1>16, <1>17 DEF Sound, Book
<1>19. sig = "USR1" => t.processes = w.processes
  <2>1. sig = "USR1" => e = w.processes[i] BY <1>5 DEF p
  <2> QED BY <1>2, <1>7, <2>1
<1>20. t.processes[i].just_spawn = w.processes[i].just_spawn /\ (sig # "USR1" => t.processes[i].exiting)
  BY <1>5, <1>8 DEF p
<1> QED BY <1>12, <1>18, <1>19, <1>20 DEF t, v

\* A step that rewrites the entry of a slot in use
LEMMA EntrySound ==
    ASSUME NEW F, NEW Z, NEW w, Sound(w, F, Z), NEW i \in Slots, w.processes[i].pid,
           NEW t, Only(t, w, {"processes", "flags", "live"}), t.flags \subseteq Flags,
           t.live \in BOOLEAN,
           NEW e \in ProcessRecords, t.processes = [w.processes EXCEPT ![i] = e],
           e.pid, w.child[i].st # "none" <=> ~e.exited, e.chan = w.processes[i].chan,
           e.detached = w.processes[i].detached, e.respawn = w.processes[i].respawn,
           Alive(w.child[i]) => e.exiting = w.processes[i].exiting
    PROVE  Sound(t, F, Z)
<1>1. Book(w, F, Z) /\ TableTypes(w) /\ Agrees(w) /\ Counters(w) BY DEF Sound, Book
<1>2. /\ t.processes \in [Slots -> ProcessRecords] /\ t.processes[i] = e
      /\ \A j \in Slots : j # i => t.processes[j] = w.processes[j]
  BY <1>1 DEF TableTypes
<1>3. /\ t.child = w.child /\ t.peer = w.peer /\ t.last_process = w.last_process
      /\ t.failed = w.failed /\ DOMAIN t = WorkFields
  BY DEF Only, WorkFields
<1>4. Counters(t) BY <1>1 DEF Counters, Only, WorkFields
<1>5. TableTypes(t) BY <1>1, <1>2, <1>3 DEF TableTypes
<1>6. Agrees(t)
  <2>1. \A j \in Slots : t.processes[j].chan = w.processes[j].chan BY <1>2
  <2>2. ASSUME NEW j \in Slots
        PROVE  /\ t.child[j].st # "none" <=> t.processes[j].pid /\ ~t.processes[j].exited
               /\ t.processes[j].pid => j <= t.last_process
               /\ ~t.processes[j].pid => t.processes[j] = NoProcess
               /\ t.processes[j].detached => t.processes[j].chan = 0 /\ ~t.processes[j].respawn
    <3>1. CASE j = i BY <1>1, <1>2, <1>3, <3>1 DEF Agrees
    <3>2. CASE j # i BY <1>1, <1>2, <1>3, <3>2 DEF Agrees
    <3> QED BY <3>1, <3>2
  <2>3. \A d \in Slots : t.peer[d] # 0 => \E j \in Slots : t.processes[j].chan = d
    BY <1>1, <1>3, <2>1 DEF Agrees
  <2> QED BY <2>2, <2>3 DEF Agrees
<1>7. ASSUME ~F, ~t.failed PROVE Leads(t) /\ Told(t)
  <2>1. Leads(w) /\ Told(w) BY <1>1, <1>3, <1>7 DEF Book
  <2>2. Leads(t) BY <1>2, <1>3, <2>1 DEF Leads
  <2>3. \A j \in Slots : t.processes[j].detached = w.processes[j].detached
                         /\ (Alive(w.child[j]) => t.processes[j].exiting = w.processes[j].exiting)
    BY <1>2
  <2>4. Told(t) BY <1>3, <2>1, <2>3 DEF Told
  <2> QED BY <2>2, <2>4
<1>8. Book(t, F, Z) BY <1>1, <1>3, <1>5, <1>6, <1>7 DEF Book
<1> QED BY <1>4, <1>8 DEF Sound

\* What a signal to the slot i means for the promises of the cycle
SignalResult(t, w, i, sig) ==
    /\ Signalled(t, w, i)
    /\ FreshAt(w, i) => ~t.processes[i].just_spawn
    /\ FreshAt(w, i) /\ sig = "QUIT" => RetiredAt(t, i)
    /\ sig = "USR1" => ServingOf(w) \subseteq ServingOf(t)
    /\ i \in NewOf(w) => i \in ServingOf(t)

LEMMA SignalOneSound ==
    ASSUME NEW F, NEW Z, NEW w, Sound(w, F, Z), NEW i \in Slots, NEW sig \in Sigs
    PROVE  LET t == SignalOne(sig, w, i) IN Sound(t, F, Z) /\ SignalResult(t, w, i, sig)
<1> DEFINE t == SignalOne(sig, w, i)
           p == w.processes[i]
           Goal == Sound(t, F, Z) /\ SignalResult(t, w, i, sig)
<1>1. /\ Book(w, F, Z) /\ Agrees(w) /\ Counters(w)
      /\ DOMAIN w = WorkFields /\ w.processes \in [Slots -> ProcessRecords]
      /\ w.peer \in [Slots -> {0} \cup Slots]
  BY DEF Sound, Book, TableTypes
<1>2. p \in ProcessRecords BY <1>1
<1>3. ASSUME t = w, ~p.just_spawn \/ p.detached,
             p.detached \/ ~p.pid \/ (p.exiting /\ sig = "QUIT")
      PROVE  Goal
  <2> HIDE DEF t
  <2>1. Signalled(t, w, i) BY <1>1, <1>3 DEF Signalled, Only
  <2>2. FreshAt(w, i) => ~t.processes[i].just_spawn BY <1>3 DEF FreshAt
  <2>3. ~p.pid => w.child[i].st = "none" BY <1>1 DEF Agrees
  <2>4. sig = "QUIT" => RetiredAt(t, i) BY <1>3, <2>3 DEF RetiredAt, Alive
  <2>5. i \in NewOf(w) => i \in ServingOf(t) BY <1>3 DEF NewOf
  <2> QED BY <1>3, <2>1, <2>2, <2>4, <2>5 DEF SignalResult
<1>4. ASSUME p.pid, ~p.detached, p.just_spawn PROVE Goal
  <2> DEFINE e == [p EXCEPT !.just_spawn = FALSE]
  <2>1. t = [w EXCEPT !.processes[i].just_spawn = FALSE] BY <1>4 DEF SignalOne
  <2> HIDE DEF t
  <2>2. t.processes = [w.processes EXCEPT ![i] = e] /\ Only(t, w, {"processes"})
    BY <1>1, <2>1 DEF Only, WorkFields
  <2> HIDE DEF p
  <2>3. /\ e \in ProcessRecords
        /\ e.pid = p.pid /\ e.exited = p.exited /\ e.respawn = p.respawn /\ e.chan = p.chan
        /\ e.exiting = p.exiting /\ e.detached = p.detached /\ ~e.just_spawn
    BY <1>2 DEF ProcessRecords
  <2> HIDE DEF e
  <2>4. t.flags = w.flags /\ t.live = w.live /\ t.child = w.child
        /\ Only(t, w, {"processes", "flags", "live"})
    BY <2>2 DEF Only, WorkFields
  <2>5. w.child[i].st # "none" <=> ~e.exited BY <1>1, <1>4, <2>3 DEF Agrees, p
  <2>6. t.flags \subseteq Flags /\ t.live \in BOOLEAN BY <1>1, <2>4 DEF Counters
  <2>7. Sound(t, F, Z) BY <1>4, <2>2, <2>3, <2>4, <2>5, <2>6, EntrySound DEF p
  <2>8. t.processes[i] = e /\ \A j \in Slots : j # i => t.processes[j] = w.processes[j]
    BY <1>1, <2>2
  <2>9. Signalled(t, w, i)
    BY <2>2, <2>3, <2>4, <2>8 DEF Signalled, Only, p
  <2>10. FreshAt(w, i) => RetiredAt(t, i)
    BY <1>4, <2>4 DEF FreshAt, RetiredAt, p
  <2>11. ServingOf(w) \subseteq ServingOf(t)
    BY <2>3, <2>8 DEF ServingOf, p
  <2> QED BY <2>3, <2>7, <2>8, <2>9, <2>10, <2>11 DEF SignalResult, NewOf
<1>5. ASSUME p.pid, ~p.detached, ~p.just_spawn, NEW x \in Slots, ~F /\ ~w.failed => x = i,
             t = Marked(sig, Tell(w, x, sig), i)
      PROVE  Goal
  <2> HIDE DEF t
  <2>1. /\ Sound(t, F, Z) /\ Signalled(t, w, i)
        /\ t.processes[i].just_spawn = w.processes[i].just_spawn
        /\ sig # "USR1" => t.processes[i].exiting
        /\ sig = "USR1" => t.processes = w.processes
    BY <1>5, MarkedSound
  <2>2. ~t.processes[i].just_spawn /\ (sig = "QUIT" => RetiredAt(t, i))
    BY <1>5, <2>1 DEF RetiredAt
  <2>3. sig = "USR1" => ServingOf(w) \subseteq ServingOf(t) BY <2>1 DEF ServingOf
  <2>4. i \notin NewOf(w) BY <1>5 DEF NewOf
  <2> QED BY <2>1, <2>2, <2>3, <2>4 DEF SignalResult
<1>6. ASSUME p.pid, ~p.detached, ~p.just_spawn, w.child[i].st = "none",
             t = [w EXCEPT !.processes[i].exited = TRUE, !.processes[i].exiting = FALSE,
                           !.flags = @ \cup {"reap"}]
      PROVE  Goal
  <2> DEFINE e == [p EXCEPT !.exited = TRUE, !.exiting = FALSE]
  <2> HIDE DEF t
  <2>1. /\ t.processes = [w.processes EXCEPT ![i] = e] /\ Only(t, w, {"processes", "flags"})
        /\ t.flags = w.flags \cup {"reap"}
    BY <1>1, <1>6 DEF Only, WorkFields
  <2> HIDE DEF p
  <2>2. /\ e \in ProcessRecords
        /\ e.pid = p.pid /\ e.exited /\ e.respawn = p.respawn /\ e.chan = p.chan
        /\ ~e.exiting /\ e.detached = p.detached /\ e.just_spawn = p.just_spawn
    BY <1>2 DEF ProcessRecords
  <2> HIDE DEF e
  <2>3. t.live = w.live /\ t.child = w.child /\ Only(t, w, {"processes", "flags", "live"})
    BY <2>1 DEF Only, WorkFields
  <2>4. t.flags \subseteq Flags /\ t.live \in BOOLEAN
    BY <1>1, <2>1, <2>3 DEF Counters, Flags
  <2>5. w.child[i].st # "none" <=> ~e.exited BY <1>6, <2>2
  <2>6. ~Alive(w.child[i]) BY <1>6 DEF Alive
  <2>7. Sound(t, F, Z)
    <3>1. /\ w.processes[i].pid /\ e.pid /\ e.chan = w.processes[i].chan
          /\ e.detached = w.processes[i].detached /\ e.respawn = w.processes[i].respawn
          /\ Alive(w.child[i]) => e.exiting = w.processes[i].exiting
          /\ t.processes = [w.processes EXCEPT ![i] = e]
      BY <1>6, <2>1, <2>2, <2>6 DEF p
    <3>2. e \in ProcessRecords BY <2>2
    <3> QED BY <2>3, <2>4, <2>5, <3>1, <3>2, EntrySound
  <2>8. t.processes[i] = e /\ \A j \in Slots : j # i => t.processes[j] = w.processes[j]
    BY <1>1, <2>1
  <2>9. Signalled(t, w, i)
    BY <2>1, <2>2, <2>3, <2>6, <2>8 DEF Signalled, Only, p
  <2>10. RetiredAt(t, i) BY <2>3, <2>6 DEF RetiredAt
  <2>11. ServingOf(w) \subseteq ServingOf(t) BY <2>2, <2>8 DEF ServingOf, p
  <2> QED BY <1>6, <2>2, <2>7, <2>8, <2>9, <2>10, <2>11 DEF SignalResult, NewOf, p
<1>7. Goal
  <2>1. ~p.pid => ~p.just_spawn BY <1>1 DEF Agrees, NoProcess
  <2>2. CASE p.detached \/ ~p.pid
    <3>1. t = w BY <2>2 DEF SignalOne
    <3> HIDE DEF t, Goal
    <3> QED BY <1>3, <2>1, <2>2, <3>1
  <2>3. CASE ~(p.detached \/ ~p.pid) /\ p.just_spawn
    <3> HIDE DEF Goal
    <3> QED BY <1>4, <2>3
  <2>4. CASE ~(p.detached \/ ~p.pid) /\ ~p.just_spawn
    <3>1. t = Send(sig, w, i) BY <2>4 DEF SignalOne
    <3>2. CASE p.exiting /\ sig = "QUIT"
      <4>1. t = w BY <3>1, <3>2 DEF Send
      <4> HIDE DEF t, Goal
      <4> QED BY <1>3, <2>4, <3>2, <4>1
    <3>3. CASE ~(p.exiting /\ sig = "QUIT") /\ sig # "KILL" /\ p.chan # 0 /\ w.peer[p.chan] # 0
      <4>1. t = Marked(sig, Tell(w, w.peer[p.chan], sig), i)
        BY <3>1, <3>3 DEF Send, Marked
      <4>2. w.peer[p.chan] \in Slots
        <5>1. p.chan \in Slots BY <1>2, <3>3 DEF ProcessRecords
        <5> QED BY <1>1, <3>3, <5>1
      <4>3. ~F /\ ~w.failed => w.peer[p.chan] = i BY <1>1, <3>3 DEF Book, Leads
      <4> HIDE DEF t, Goal
      <4> QED BY <1>5, <2>4, <4>1, <4>2, <4>3
    <3>4. CASE /\ ~(p.exiting /\ sig = "QUIT")
               /\ ~(sig # "KILL" /\ p.chan # 0 /\ w.peer[p.chan] # 0)
               /\ w.child[i].st = "none"
      <4>1. t = [w EXCEPT !.processes[i].exited = TRUE, !.processes[i].exiting = FALSE,
                           !.flags = @ \cup {"reap"}]
        BY <3>1, <3>4 DEF Send
      <4> HIDE DEF t, Goal
      <4> QED BY <1>6, <2>4, <3>4, <4>1
    <3>5. CASE /\ ~(p.exiting /\ sig = "QUIT")
               /\ ~(sig # "KILL" /\ p.chan # 0 /\ w.peer[p.chan] # 0)
               /\ w.child[i].st # "none"
      <4>1. t = Marked(sig, Tell(w, i, sig), i)
        BY <3>1, <3>5 DEF Send, Marked
      <4> HIDE DEF t, Goal
      <4> QED BY <1>5, <2>4, <4>1
    <3> QED BY <3>2, <3>3, <3>4, <3>5
  <2> QED BY <2>2, <2>3, <2>4
<1> QED BY <1>7

\* The slots up to n have been signalled.
SweptTo(t, w, sig, F, Z, n) ==
    /\ Sound(t, F, Z)
    /\ Only(t, w, {"processes", "child", "pending", "flags"})
    /\ w.flags \subseteq t.flags /\ t.flags \subseteq w.flags \cup {"reap"}
    /\ \A i \in Slots : /\ RetiredAt(w, i) => RetiredAt(t, i)
                        /\ t.child[i].old = w.child[i].old
                        /\ i > n => t.processes[i] = w.processes[i]
                        /\ i <= n /\ FreshAt(w, i) => ~t.processes[i].just_spawn
                        /\ i <= n /\ FreshAt(w, i) /\ sig = "QUIT" => RetiredAt(t, i)
    /\ NewOf(w) \subseteq ServingOf(t)
    /\ sig = "USR1" => ServingOf(w) \subseteq ServingOf(t)

LEMMA SweptStep ==
    ASSUME NEW F, NEW Z, NEW w, NEW sig \in Sigs, NEW n \in Nat, n + 1 \in Slots,
           NEW v, SweptTo(v, w, sig, F, Z, n)
    PROVE  SweptTo(SignalOne(sig, v, n + 1), w, sig, F, Z, n + 1)
<1> DEFINE i == n + 1
           t == SignalOne(sig, v, i)
<1>1. Sound(v, F, Z) BY DEF SweptTo
<1>2. Sound(t, F, Z) /\ SignalResult(t, v, i, sig) BY <1>1, SignalOneSound
<1>3. \A j \in Slots : j \in Nat BY SlotsFinite
<1>4. \A j \in Nat : (j > i => j > n) /\ (j <= i /\ j # i => j <= n) BY <1>3
<1>5. i \in Slots /\ i > n OBVIOUS
<1> HIDE DEF t, i
<1>6. Signalled(t, v, i) BY <1>2 DEF SignalResult
<1>7. /\ Only(t, w, {"processes", "child", "pending", "flags"})
      /\ w.flags \subseteq t.flags /\ t.flags \subseteq w.flags \cup {"reap"}
  <2>1. /\ Only(v, w, {"processes", "child", "pending", "flags"})
        /\ w.flags \subseteq v.flags /\ v.flags \subseteq w.flags \cup {"reap"}
    BY DEF SweptTo
  <2>2. /\ Only(t, v, {"processes", "child", "pending", "flags"})
        /\ v.flags \subseteq t.flags /\ t.flags \subseteq v.flags \cup {"reap"}
    BY <1>6 DEF Signalled
  <2> QED BY <2>1, <2>2 DEF Only
<1>8. v.processes[i] = w.processes[i] /\ v.child[i].old = w.child[i].old BY <1>5 DEF SweptTo
<1>9. ASSUME NEW j \in Slots
      PROVE  /\ RetiredAt(w, j) => RetiredAt(t, j)
             /\ t.child[j].old = w.child[j].old
             /\ j > i => t.processes[j] = w.processes[j]
             /\ j <= i /\ FreshAt(w, j) => ~t.processes[j].just_spawn
             /\ j <= i /\ FreshAt(w, j) /\ sig = "QUIT" => RetiredAt(t, j)
  <2>1. RetiredAt(v, j) => RetiredAt(t, j)
    <3>1. CASE j = i BY <1>6, <3>1 DEF RetiredAt, Signalled
    <3>2. CASE j # i BY <1>6, <3>2 DEF RetiredAt, Signalled
    <3> QED BY <3>1, <3>2
  <2>2. RetiredAt(w, j) => RetiredAt(t, j) BY <2>1 DEF SweptTo
  <2>3. t.child[j].old = w.child[j].old BY <1>6 DEF SweptTo, Signalled
  <2>4. j > i => t.processes[j] = w.processes[j]
    <3> SUFFICES ASSUME j > i PROVE t.processes[j] = w.processes[j] OBVIOUS
    <3>1. j > n BY <1>3, <1>4
    <3>2. j # i BY <1>3, <1>5
    <3>3. v.processes[j] = w.processes[j] BY <3>1 DEF SweptTo
    <3> QED BY <1>6, <3>2, <3>3 DEF Signalled
  <2>5. ASSUME j <= i, FreshAt(w, j)
        PROVE  ~t.processes[j].just_spawn /\ (sig = "QUIT" => RetiredAt(t, j))
    <3>1. CASE j = i
      <4>1. FreshAt(v, i) BY <1>8, <2>5, <3>1 DEF FreshAt
      <4> QED BY <1>2, <3>1, <4>1 DEF SignalResult
    <3>2. CASE j # i
      <4>1. j <= n BY <1>3, <1>4, <2>5, <3>2
      <4>2. ~v.processes[j].just_spawn /\ (sig = "QUIT" => RetiredAt(v, j))
        BY <2>5, <4>1 DEF SweptTo
      <4>3. t.processes[j] = v.processes[j] BY <1>6, <3>2 DEF Signalled
      <4> QED BY <2>1, <4>2, <4>3
    <3> QED BY <3>1, <3>2
  <2> QED BY <2>2, <2>3, <2>4, <2>5
<1>10. \A j \in Slots \ {i} : j \in ServingOf(v) => j \in ServingOf(t)
  BY <1>6 DEF ServingOf, Signalled
<1>11. NewOf(w) \subseteq ServingOf(t)
  <2> SUFFICES ASSUME NEW j \in NewOf(w) PROVE j \in ServingOf(t) OBVIOUS
  <2>1. j \in ServingOf(v) /\ j \in Slots BY DEF SweptTo, ServingOf, NewOf
  <2>2. CASE j = i
    <3>1. i \in NewOf(v) BY <1>8, <2>1, <2>2 DEF NewOf
    <3> QED BY <1>2, <2>2, <3>1 DEF SignalResult
  <2>3. CASE j # i BY <1>10, <2>1, <2>3
  <2> QED BY <2>2, <2>3
<1>12. sig = "USR1" => ServingOf(w) \subseteq ServingOf(t)
  BY <1>2 DEF SweptTo, SignalResult
<1>13. SweptTo(t, w, sig, F, Z, i) BY <1>2, <1>7, <1>9, <1>11, <1>12 DEF SweptTo
<1> QED BY <1>13 DEF t, i

\* All of them have.
Swept(t, w, sig, F, Z) ==
    /\ Sound(t, F, Z)
    /\ Only(t, w, {"processes", "child", "pending", "flags"})
    /\ w.flags \subseteq t.flags /\ t.flags \subseteq w.flags \cup {"reap"}
    /\ Retired(w) => Retired(t)
    /\ (\A i \in Slots : FreshAt(w, i)) =>
          NoneNew(t) /\ (sig = "QUIT" => Retired(t))
    /\ NewOf(w) \subseteq ServingOf(t)
    /\ sig = "USR1" => ServingOf(w) \subseteq ServingOf(t)

LEMMA SweptSound ==
    ASSUME NEW F, NEW Z, NEW w, NEW sig \in Sigs, Sound(w, F, Z)
    PROVE  Swept(SignalWorkerProcesses(w, sig), w, sig, F, Z)
<1> DEFINE l == w.last_process
<1>1. l \in Nat /\ l <= MaxProcesses /\ MaxProcesses \in Nat
  BY ProcessAssumption DEF Sound, Book, TableTypes
<1> HIDE DEF l
<1>2. PICK h : /\ h[0] = w
               /\ \A i \in 1..l : h[i] = SignalOne(sig, h[i - 1], i)
               /\ SignalWorkerProcesses(w, sig) = h[l]
  BY <1>1, SignalLoop DEF l
<1> DEFINE T == {n \in Nat : n <= l => SweptTo(h[n], w, sig, F, Z, n)}
<1>3. 0 \in T
  <2>1. Only(w, w, {"processes", "child", "pending", "flags"})
    BY DEF Only, Sound, Book, TableTypes
  <2>2. \A i \in Slots : ~(i <= 0) BY DEF Slots
  <2>3. NewOf(w) \subseteq ServingOf(w) BY DEF NewOf
  <2>4. SweptTo(w, w, sig, F, Z, 0) BY <2>1, <2>2, <2>3 DEF SweptTo
  <2> QED BY <1>2, <2>4
<1>4. ASSUME NEW n \in Nat, n \in T PROVE n + 1 \in T
  <2> SUFFICES ASSUME n + 1 <= l PROVE SweptTo(h[n + 1], w, sig, F, Z, n + 1) OBVIOUS
  <2>1. n <= l /\ n + 1 \in 1..l /\ (n + 1) - 1 = n BY <1>1
  <2>2. n + 1 \in Slots BY <1>1, <2>1 DEF Slots
  <2>3. SweptTo(h[n], w, sig, F, Z, n) BY <1>4, <2>1
  <2>4. h[n + 1] = SignalOne(sig, h[n], n + 1) BY <1>2, <2>1
  <2> QED BY <2>2, <2>3, <2>4, SweptStep
<1>5. l \in T
  <2> HIDE DEF T
  <2> QED BY <1>1, <1>3, <1>4, NumbersInduction
<1>6. SweptTo(h[l], w, sig, F, Z, l) BY <1>1, <1>5
<1> DEFINE t == h[l]
<1> HIDE DEF t
<1>7. SweptTo(t, w, sig, F, Z, l) BY <1>6 DEF t
<1>8. ASSUME NEW i \in Slots, ~(i <= l)
      PROVE  ~t.processes[i].just_spawn /\ RetiredAt(t, i)
  <2>1. i > l BY <1>1, <1>8, SlotsFinite
  <2>2. t.processes[i] = w.processes[i] BY <1>7, <2>1 DEF SweptTo
  <2>3. ~w.processes[i].pid BY <1>8 DEF Sound, Book, Agrees, l
  <2>4. w.processes[i] = NoProcess BY <2>3 DEF Sound, Book, Agrees
  <2>5. t.child[i].st = "none"
    BY <1>7, <2>2, <2>3 DEF SweptTo, Sound, Book, Agrees
  <2> QED BY <2>2, <2>4, <2>5 DEF NoProcess, RetiredAt, Alive
<1>9. (\A i \in Slots : FreshAt(w, i)) => NoneNew(t) /\ (sig = "QUIT" => Retired(t))
  BY <1>7, <1>8 DEF SweptTo, NoneNew, Retired
<1>10. Retired(w) => Retired(t) BY <1>7 DEF SweptTo, Retired
<1>11. Swept(t, w, sig, F, Z) BY <1>7, <1>9, <1>10 DEF SweptTo, Swept
<1> QED BY <1>2, <1>11 DEF t

-----------------------------------------------------------------------------
(* Reaping                                                                 *)

\* v is w but for the entry of the slot i, which keeps all but some fields.
KeepsEntry(v, w, i) ==
    /\ \A j \in Slots : j # i => v.processes[j] = w.processes[j]
    /\ v.processes[i].pid = w.processes[i].pid
    /\ v.processes[i].exiting = w.processes[i].exiting
    /\ v.processes[i].respawn = w.processes[i].respawn
    /\ v.processes[i].just_spawn = w.processes[i].just_spawn
    /\ v.processes[i].detached = w.processes[i].detached

Closed(v, w, i) ==
    /\ Only(v, w, {"peer", "processes"})
    /\ KeepsEntry(v, w, i)
    /\ v.processes[i].exited = w.processes[i].exited
    /\ v.processes[i].chan = 0

LEMMA CloseSound ==
    ASSUME NEW F, NEW Z, NEW w, Sound(w, F, Z), NEW i \in Slots, w.processes[i].pid
    PROVE  LET v == CloseChannel(w, i) IN Sound(v, F, Z) /\ Closed(v, w, i)
<1> DEFINE v == CloseChannel(w, i)
           p == w.processes[i]
           d == p.chan
           e == [p EXCEPT !.chan = 0]
<1>1. /\ Book(w, F, Z) /\ TableTypes(w) /\ Agrees(w) /\ Counters(w)
      /\ DOMAIN w = WorkFields /\ w.processes \in [Slots -> ProcessRecords]
      /\ w.peer \in [Slots -> {0} \cup Slots]
  BY DEF Sound, Book, TableTypes
<1>2. /\ Only(v, w, {"peer", "processes"})
      /\ v.peer = IF d = 0 THEN w.peer ELSE [w.peer EXCEPT ![d] = 0]
      /\ v.processes = [w.processes EXCEPT ![i] = e]
  BY <1>1 DEF CloseChannel, Only, WorkFields
<1>3. p \in ProcessRecords BY <1>1
<1>4. /\ e \in ProcessRecords /\ e.chan = 0
      /\ e.pid = p.pid /\ e.exited = p.exited /\ e.respawn = p.respawn
      /\ e.exiting = p.exiting /\ e.just_spawn = p.just_spawn /\ e.detached = p.detached
      /\ d \in {0} \cup Slots
  <2> HIDE DEF p
  <2> QED BY <1>3 DEF ProcessRecords
<1> HIDE DEF v, e
<1>5. /\ v.processes \in [Slots -> ProcessRecords] /\ v.processes[i] = e
      /\ \A j \in Slots : j # i => v.processes[j] = w.processes[j]
  BY <1>1, <1>2, <1>4
<1>6. /\ v.child = w.child /\ v.last_process = w.last_process /\ v.failed = w.failed
      /\ DOMAIN v = WorkFields
  BY <1>2 DEF Only, WorkFields
<1>7. Closed(v, w, i) BY <1>2, <1>4, <1>5 DEF Closed, KeepsEntry
<1>8. Counters(v) BY <1>1, <1>2 DEF Counters, Only, WorkFields
<1>9. v.peer \in [Slots -> {0} \cup Slots]
  <2>1. [w.peer EXCEPT ![d] = 0] \in [Slots -> {0} \cup Slots] BY <1>1
  <2> QED BY <1>1, <1>2, <2>1
<1>10. TableTypes(v) BY <1>1, <1>5, <1>6, <1>9 DEF TableTypes
<1>11. Agrees(v)
  <2>1. ASSUME NEW j \in Slots
        PROVE  /\ v.child[j].st # "none" <=> v.processes[j].pid /\ ~v.processes[j].exited
               /\ v.processes[j].pid => j <= v.last_process
               /\ ~v.processes[j].pid => v.processes[j] = NoProcess
               /\ v.processes[j].detached => v.processes[j].chan = 0 /\ ~v.processes[j].respawn
    <3>1. CASE j = i BY <1>1, <1>4, <1>5, <1>6, <3>1 DEF Agrees
    <3>2. CASE j # i BY <1>1, <1>5, <1>6, <3>2 DEF Agrees
    <3> QED BY <3>1, <3>2
  <2>2. ASSUME NEW x \in Slots, v.peer[x] # 0 PROVE \E j \in Slots : v.processes[j].chan = x
    <3>1. x # d /\ w.peer[x] # 0
      <4>1. CASE d = 0 BY <1>2, <2>2, <4>1, SlotsFinite
      <4>2. CASE d # 0 BY <1>1, <1>2, <2>2, <4>2
      <4> QED BY <4>1, <4>2
    <3>2. PICK j \in Slots : w.processes[j].chan = x BY <1>1, <3>1 DEF Agrees
    <3>3. j # i BY <3>1, <3>2
    <3> QED BY <1>5, <3>2, <3>3
  <2> QED BY <2>1, <2>2 DEF Agrees
<1>12. ASSUME ~F, ~v.failed PROVE Leads(v) /\ Told(v)
  <2>1. Leads(w) /\ Told(w) BY <1>1, <1>6, <1>12 DEF Book
  <2>2. ASSUME NEW j \in Slots, v.processes[j].chan # 0 PROVE v.peer[v.processes[j].chan] = j
    <3>1. j # i BY <1>4, <1>5, <2>2
    <3>2. w.processes[j].chan # 0 /\ w.peer[w.processes[j].chan] = j
          /\ v.processes[j].chan = w.processes[j].chan
      BY <1>5, <2>1, <2>2, <3>1 DEF Leads
    <3>3. w.processes[j].chan # d
      <4>1. d # 0 => w.peer[d] = i BY <2>1 DEF Leads
      <4> QED BY <3>1, <3>2, <4>1
    <3>4. w.processes[j].chan \in Slots
      <4>1. w.processes[j] \in ProcessRecords BY <1>1
      <4> QED BY <3>2, <4>1 DEF ProcessRecords
    <3>5. v.peer[w.processes[j].chan] = w.peer[w.processes[j].chan]
      BY <1>1, <1>2, <3>3, <3>4
    <3> QED BY <3>2, <3>5
  <2>3. \A j \in Slots : /\ v.processes[j].exiting = w.processes[j].exiting
                         /\ v.processes[j].detached = w.processes[j].detached
    BY <1>4, <1>5
  <2>4. Told(v) BY <1>6, <2>1, <2>3 DEF Told
  <2> QED BY <2>2, <2>4 DEF Leads
<1>13. ~Z => \A j \in Slots : v.child[j].st # "fatal" BY <1>1, <1>6 DEF Book
<1>14. Sound(v, F, Z) BY <1>8, <1>10, <1>11, <1>12, <1>13 DEF Sound, Book
<1> QED BY <1>7, <1>14 DEF v

Respawned(t, v, i) ==
    /\ Only(t, v, {"processes", "child", "peer", "forks", "failed"})
    /\ v.failed => t.failed
    /\ KeepsEntry(t, v, i)
    /\ \A j \in Slots : j # i => t.child[j] = v.child[j]
    /\ Alive(t.child[i]) => ~t.child[i].old

LEMMA RespawnSound ==
    ASSUME NEW F, NEW Z, NEW v, Sound(v, F, Z), NEW i \in Slots,
           v.processes[i].pid, v.processes[i].exited, v.processes[i].chan = 0,
           v.processes[i].respawn, ~v.processes[i].exiting
    PROVE  LET t == Respawn(v, i) IN Sound(t, F, Z) /\ Respawned(t, v, i)
<1> DEFINE t == Respawn(v, i)
           d == FreeChan(v)
           p == v.processes[i]
<1>1. /\ Book(v, F, Z) /\ TableTypes(v) /\ Agrees(v) /\ Counters(v)
      /\ DOMAIN v = WorkFields /\ v.processes \in [Slots -> ProcessRecords]
      /\ v.child \in [Slots -> ChildRecords] /\ v.peer \in [Slots -> {0} \cup Slots]
  BY DEF Sound, Book, TableTypes
<1>2. d \in Slots /\ v.peer[d] = 0 /\ d # 0
  BY <1>1, FreeChanFree, SlotsFinite DEF Counters
<1> HIDE DEF d
<1>3. p \in ProcessRecords /\ ~p.detached /\ v.child[i].st = "none"
  BY <1>1 DEF Agrees
<1>7. p.pid = TRUE BY <1>3 DEF ProcessRecords
<1>4. i <= v.last_process BY <1>1 DEF Agrees
<1>5. CASE v.forks = 0
  <2> DEFINE e == [p EXCEPT !.chan = d]
  <2>1. t = [v EXCEPT !.processes[i].chan = d, !.failed = TRUE]
    BY <1>5 DEF Respawn, Fork, d
  <2> HIDE DEF t
  <2>2. t.processes = [v.processes EXCEPT ![i] = e] /\ Only(t, v, {"processes", "failed"})
        /\ t.failed = TRUE
    BY <1>1, <2>1 DEF Only, WorkFields
  <2> HIDE DEF p
  <2>3. /\ e \in ProcessRecords /\ e.chan = d
        /\ e.pid = p.pid /\ e.exited = p.exited /\ e.respawn = p.respawn
        /\ e.exiting = p.exiting /\ e.just_spawn = p.just_spawn /\ e.detached = p.detached
    BY <1>2, <1>3 DEF ProcessRecords
  <2> HIDE DEF e
  <2>4. /\ t.processes \in [Slots -> ProcessRecords] /\ t.processes[i] = e
        /\ \A j \in Slots : j # i => t.processes[j] = v.processes[j]
    BY <1>1, <2>2, <2>3
  <2>5. /\ t.child = v.child /\ t.peer = v.peer /\ t.last_process = v.last_process
        /\ DOMAIN t = WorkFields
    BY <2>2 DEF Only, WorkFields
  <2>6. Counters(t) BY <1>1, <2>2 DEF Counters, Only, WorkFields
  <2>7. TableTypes(t) BY <1>1, <2>4, <2>5 DEF TableTypes
  <2>8. Agrees(t)
    <3>1. ASSUME NEW j \in Slots
          PROVE  /\ t.child[j].st # "none" <=> t.processes[j].pid /\ ~t.processes[j].exited
                 /\ t.processes[j].pid => j <= t.last_process
                 /\ ~t.processes[j].pid => t.processes[j] = NoProcess
                 /\ t.processes[j].detached => t.processes[j].chan = 0 /\ ~t.processes[j].respawn
      <4>1. CASE j = i BY <1>3, <1>4, <2>3, <2>4, <2>5, <4>1 DEF p
      <4>2. CASE j # i BY <1>1, <2>4, <2>5, <4>2 DEF Agrees
      <4> QED BY <4>1, <4>2
    <3>2. ASSUME NEW x \in Slots, t.peer[x] # 0 PROVE \E j \in Slots : t.processes[j].chan = x
      <4>1. PICK j \in Slots : v.processes[j].chan = x BY <1>1, <2>5, <3>2 DEF Agrees
      <4>2. j # i BY <4>1, SlotsFinite
      <4> QED BY <2>4, <4>1, <4>2
    <3> QED BY <3>1, <3>2 DEF Agrees
  <2>9. ~Z => \A j \in Slots : t.child[j].st # "fatal" BY <1>1, <2>5 DEF Book
  <2>10. Sound(t, F, Z) BY <2>2, <2>6, <2>7, <2>8, <2>9 DEF Sound, Book
  <2>11. Respawned(t, v, i)
    BY <1>3, <2>2, <2>3, <2>4, <2>5 DEF Respawned, KeepsEntry, Only, Alive, p
  <2> QED BY <2>10, <2>11 DEF t
<1>6. CASE v.forks # 0
  <2> DEFINE e == [p EXCEPT !.chan = d, !.pid = TRUE, !.exited = FALSE]
  <2>1. /\ t.processes = [v.processes EXCEPT ![i] = e]
        /\ Only(t, v, {"processes", "forks", "child", "peer"})
        /\ t.forks = v.forks - 1
        /\ t.child = [v.child EXCEPT ![i] = Child("run")]
        /\ t.peer = [v.peer EXCEPT ![d] = i]
    BY <1>1, <1>2, <1>6 DEF Respawn, Fork, d, Only, WorkFields
  <2> HIDE DEF t, p
  <2>2. /\ e \in ProcessRecords /\ e.chan = d /\ e.pid = TRUE /\ ~e.exited
        /\ e.respawn = p.respawn
        /\ e.exiting = p.exiting /\ e.just_spawn = p.just_spawn /\ e.detached = p.detached
    BY <1>2, <1>3 DEF ProcessRecords
  <2> HIDE DEF e
  <2>3. /\ t.processes \in [Slots -> ProcessRecords] /\ t.processes[i] = e
        /\ \A j \in Slots : j # i => t.processes[j] = v.processes[j]
    BY <1>1, <2>1, <2>2
  <2>4. /\ t.last_process = v.last_process /\ t.failed = v.failed /\ DOMAIN t = WorkFields
    BY <2>1 DEF Only, WorkFields
  <2>5. Child("run") \in ChildRecords /\ Child("run") = [st |-> "run", cmd |-> "none", old |-> FALSE]
    BY DEF Child, ChildRecords
  <2>6. /\ t.child \in [Slots -> ChildRecords] /\ t.child[i] = Child("run")
        /\ \A j \in Slots : j # i => t.child[j] = v.child[j]
        /\ t.peer \in [Slots -> {0} \cup Slots] /\ t.peer[d] = i
        /\ \A x \in Slots : x # d => t.peer[x] = v.peer[x]
    BY <1>1, <1>2, <2>1, <2>5
  <2>7. Counters(t)
    <3>1. t.forks \in Nat BY <1>1, <1>6, <2>1 DEF Counters
    <3> QED BY <1>1, <2>1, <3>1 DEF Counters, Only, WorkFields
  <2>8. TableTypes(t) BY <1>1, <2>3, <2>4, <2>6 DEF TableTypes
  <2>9. Agrees(t)
    <3>1. ASSUME NEW j \in Slots
          PROVE  /\ t.child[j].st # "none" <=> t.processes[j].pid /\ ~t.processes[j].exited
                 /\ t.processes[j].pid => j <= t.last_process
                 /\ ~t.processes[j].pid => t.processes[j] = NoProcess
                 /\ t.processes[j].detached => t.processes[j].chan = 0 /\ ~t.processes[j].respawn
      <4>1. CASE j = i BY <1>3, <1>4, <2>2, <2>3, <2>4, <2>5, <2>6, <4>1
      <4>2. CASE j # i BY <1>1, <2>3, <2>4, <2>6, <4>2 DEF Agrees
      <4> QED BY <4>1, <4>2
    <3>2. ASSUME NEW x \in Slots, t.peer[x] # 0 PROVE \E j \in Slots : t.processes[j].chan = x
      <4>1. CASE x = d BY <2>2, <2>3, <4>1
      <4>2. CASE x # d
        <5>1. PICK j \in Slots : v.processes[j].chan = x BY <1>1, <2>6, <3>2, <4>2 DEF Agrees
        <5>2. j # i BY <5>1, SlotsFinite
        <5> QED BY <2>3, <5>1, <5>2
      <4> QED BY <4>1, <4>2
    <3> QED BY <3>1, <3>2 DEF Agrees
  <2>10. ASSUME ~F, ~t.failed PROVE Leads(t) /\ Told(t)
    <3>1. Leads(v) /\ Told(v) BY <1>1, <2>4, <2>10 DEF Book
    <3>2. ASSUME NEW j \in Slots, t.processes[j].chan # 0 PROVE t.peer[t.processes[j].chan] = j
      <4>1. CASE j = i BY <2>2, <2>3, <2>6, <4>1
      <4>2. CASE j # i
        <5>1. v.peer[v.processes[j].chan] = j /\ v.processes[j].chan # 0
              /\ t.processes[j].chan = v.processes[j].chan
          BY <2>3, <3>1, <3>2, <4>2 DEF Leads
        <5>2. v.processes[j].chan # d BY <1>2, <5>1, SlotsFinite
        <5>3. v.processes[j].chan \in Slots
          <6>1. v.processes[j] \in ProcessRecords BY <1>1
          <6> QED BY <5>1, <6>1 DEF ProcessRecords
        <5> QED BY <2>6, <5>1, <5>2, <5>3
      <4> QED BY <4>1, <4>2
    <3>3. Told(t)
      <4> SUFFICES ASSUME NEW j \in Slots, Alive(t.child[j])
                   PROVE  /\ t.processes[j].exiting /\ ~t.processes[j].detached => t.child[j].cmd # "none"
                          /\ ~t.processes[j].exiting => t.child[j].cmd = "none"
        BY DEF Told
      <4>1. CASE j = i BY <2>2, <2>3, <2>5, <2>6, <4>1 DEF p
      <4>2. CASE j # i BY <2>3, <2>6, <3>1, <4>2 DEF Told
      <4> QED BY <4>1, <4>2
    <3> QED BY <3>2, <3>3 DEF Leads
  <2>11. ~Z => \A j \in Slots : t.child[j].st # "fatal" BY <1>1, <2>5, <2>6 DEF Book
  <2>12. Sound(t, F, Z) BY <2>7, <2>8, <2>9, <2>10, <2>11 DEF Sound, Book
  <2>13. Respawned(t, v, i)
    <3>1. Only(t, v, {"processes", "child", "peer", "forks", "failed"}) BY <2>1 DEF Only
    <3>2. KeepsEntry(t, v, i) BY <1>7, <2>2, <2>3 DEF KeepsEntry, p
    <3>3. ~t.child[i].old BY <2>5, <2>6
    <3> QED BY <2>4, <2>6, <3>1, <3>2, <3>3 DEF Respawned
  <2> QED BY <2>12, <2>13 DEF t
<1> QED BY <1>5, <1>6

Discarded(t, v, i) ==
    /\ Only(t, v, {"processes", "last_process", "new_binary", "flags", "noaccepting"})
    /\ t.processes = [v.processes EXCEPT ![i] = NoProcess]
    /\ v.flags \subseteq t.flags /\ t.flags \subseteq v.flags \cup {"restart"}
    /\ v.noaccepting => t.noaccepting \/ "restart" \in t.flags

LEMMA DiscardSound ==
    ASSUME NEW F, NEW Z, NEW v, Sound(v, F, Z), NEW i \in Slots,
           v.processes[i].pid, v.processes[i].exited, v.processes[i].chan = 0
    PROVE  LET t == Discard(v, i) IN Sound(t, F, Z) /\ Discarded(t, v, i)
<1> DEFINE t == Discard(v, i)
           gone == v.new_binary = i
<1>1. /\ Book(v, F, Z) /\ TableTypes(v) /\ Agrees(v) /\ Counters(v)
      /\ DOMAIN v = WorkFields /\ v.processes \in [Slots -> ProcessRecords]
  BY DEF Sound, Book, TableTypes
<1>2. /\ Only(t, v, {"processes", "last_process", "new_binary", "flags", "noaccepting"})
      /\ t.processes = [v.processes EXCEPT ![i] = NoProcess]
      /\ t.last_process = IF i = v.last_process THEN v.last_process - 1 ELSE v.last_process
      /\ t.new_binary = IF gone THEN 0 ELSE v.new_binary
      /\ t.flags = IF gone /\ v.noaccepting THEN v.flags \cup {"restart"} ELSE v.flags
      /\ t.noaccepting = IF gone THEN FALSE ELSE v.noaccepting
  BY <1>1 DEF Discard, Only, WorkFields
<1> HIDE DEF t
<1>3. v.child[i].st = "none" /\ i <= v.last_process BY <1>1 DEF Agrees
<1>4. Discarded(t, v, i) BY <1>2 DEF Discarded
<1>5. NoProcess \in ProcessRecords /\ ~NoProcess.pid /\ NoProcess.chan = 0 /\ ~NoProcess.detached
  BY DEF NoProcess, ProcessRecords
<1>6. /\ t.processes \in [Slots -> ProcessRecords] /\ t.processes[i] = NoProcess
      /\ \A j \in Slots : j # i => t.processes[j] = v.processes[j]
  BY <1>1, <1>2, <1>5
<1>7. /\ t.child = v.child /\ t.peer = v.peer /\ t.failed = v.failed /\ DOMAIN t = WorkFields
  BY <1>2 DEF Only, WorkFields
<1>8. Counters(t)
  <2>1. t.flags \subseteq Flags BY <1>1, <1>2 DEF Counters, Flags
  <2>2. t.new_binary \in {-1, 0} \cup Slots /\ t.noaccepting \in BOOLEAN
    BY <1>1, <1>2 DEF Counters
  <2> QED BY <1>1, <1>2, <2>1, <2>2 DEF Counters, Only, WorkFields
<1>9. /\ t.last_process \in 0..MaxProcesses
      /\ \A j \in Slots : j # i /\ j <= v.last_process => j <= t.last_process
  BY <1>1, <1>2, <1>3, ProcessAssumption DEF TableTypes, Slots
<1>10. TableTypes(t) BY <1>1, <1>6, <1>7, <1>9 DEF TableTypes
<1>11. Agrees(t)
  <2>1. ASSUME NEW j \in Slots
        PROVE  /\ t.child[j].st # "none" <=> t.processes[j].pid /\ ~t.processes[j].exited
               /\ t.processes[j].pid => j <= t.last_process
               /\ ~t.processes[j].pid => t.processes[j] = NoProcess
               /\ t.processes[j].detached => t.processes[j].chan = 0 /\ ~t.processes[j].respawn
    <3>1. CASE j = i BY <1>3, <1>5, <1>6, <1>7, <3>1
    <3>2. CASE j # i
      <4>1. v.processes[j].pid => j <= t.last_process BY <1>1, <1>9, <3>2 DEF Agrees
      <4> QED BY <1>1, <1>6, <1>7, <3>2, <4>1 DEF Agrees
    <3> QED BY <3>1, <3>2
  <2>2. \A j \in Slots : t.processes[j].chan = v.processes[j].chan BY <1>5, <1>6
  <2>3. \A x \in Slots : t.peer[x] # 0 => \E j \in Slots : t.processes[j].chan = x
    BY <1>1, <1>7, <2>2 DEF Agrees
  <2> QED BY <2>1, <2>3 DEF Agrees
<1>12. ASSUME ~F, ~t.failed PROVE Leads(t) /\ Told(t)
  <2>1. Leads(v) /\ Told(v) BY <1>1, <1>7, <1>12 DEF Book
  <2>2. Leads(t) BY <1>5, <1>6, <1>7, <2>1 DEF Leads
  <2>3. ~Alive(t.child[i]) BY <1>3, <1>7 DEF Alive
  <2>4. Told(t) BY <1>6, <1>7, <2>1, <2>3 DEF Told
  <2> QED BY <2>2, <2>4
<1>13. ~Z => \A j \in Slots : t.child[j].st # "fatal" BY <1>1, <1>7 DEF Book
<1>14. Sound(t, F, Z) BY <1>8, <1>10, <1>11, <1>12, <1>13 DEF Sound, Book
<1> QED BY <1>4, <1>14 DEF t

ReapFields == {"processes", "child", "peer", "last_process", "live", "new_binary", "flags",
               "noaccepting", "forks", "failed"}

\* What reaping a slot, or all of them, means for the promises of the cycle
Reaped(t, w) ==
    /\ Only(t, w, ReapFields)
    /\ w.failed => t.failed
    /\ w.flags \subseteq t.flags /\ t.flags \subseteq w.flags \cup {"restart"}
    /\ w.noaccepting => t.noaccepting \/ "restart" \in t.flags
    /\ Retired(w) => Retired(t)
    /\ NoneNew(w) => NoneNew(t)
    /\ ShuttingDown(w) \/ ServingOf(w) \subseteq ServingOf(t)

LEMMA ReapOneSound ==
    ASSUME NEW F, NEW Z, NEW w, Sound(w, F, Z), NEW i \in Slots
    PROVE  LET t == ReapOne(w, i) IN Sound(t, F, Z) /\ Reaped(t, w)
<1> DEFINE t == ReapOne(w, i)
           p == w.processes[i]
           v == IF p.detached THEN w ELSE CloseChannel(w, i)
           Goal == Sound(t, F, Z) /\ Reaped(t, w)
<1>1. /\ Book(w, F, Z) /\ Agrees(w) /\ Counters(w)
      /\ DOMAIN w = WorkFields /\ w.processes \in [Slots -> ProcessRecords]
  BY DEF Sound, Book, TableTypes
<1>2. p \in ProcessRecords BY <1>1
<1>3. CASE ~p.pid
  <2>1. t = w BY <1>3 DEF ReapOne
  <2> HIDE DEF t
  <2>2. Reaped(t, w) BY <1>1, <2>1 DEF Reaped, Only
  <2> QED BY <2>1, <2>2 DEF t
<1>4. CASE p.pid /\ ~p.exited
  <2>1. t = [w EXCEPT !.live = @ \/ p.exiting \/ ~p.detached] BY <1>4 DEF ReapOne
  <2> HIDE DEF t
  <2>2. /\ Only(t, w, {"live"}) /\ t.live \in BOOLEAN
    BY <1>1, <2>1 DEF Only, WorkFields
  <2>3. SameTable(t, w) /\ t.flags = w.flags /\ t.noaccepting = w.noaccepting
    BY <2>2 DEF SameTable, Only, WorkFields
  <2>4. /\ Book(t, F, Z)
        /\ NoneNew(w) => NoneNew(t)
        /\ \A j \in Slots : RetiredAt(w, j) => RetiredAt(t, j)
        /\ ServingOf(t) = ServingOf(w)
    <3>1. Book(w, F, Z) /\ SameTable(t, w) BY <1>1, <2>3
    <3>2. Book(t, F, Z) BY <3>1, SameBook
    <3>3. NoneNew(w) => NoneNew(t) BY <3>1, SameBook
    <3>4. \A j \in Slots : RetiredAt(w, j) => RetiredAt(t, j) BY <3>1, SameBook
    <3>5. ServingOf(t) = ServingOf(w) BY <3>1 DEF SameTable, ServingOf
    <3> QED BY <3>2, <3>3, <3>4, <3>5
  <2>5. Counters(t) BY <1>1, <2>2 DEF Counters, Only, WorkFields
  <2>6. Reaped(t, w)
    <3>1. Only(t, w, ReapFields) BY <2>2 DEF Only, ReapFields
    <3> QED BY <2>3, <2>4, <3>1 DEF Reaped, SameTable, Retired
  <2> QED BY <2>4, <2>5, <2>6 DEF Sound, t
<1>5. ASSUME p.pid, p.exited
      PROVE  /\ Sound(v, F, Z) /\ Only(v, w, {"peer", "processes"})
             /\ KeepsEntry(v, w, i) /\ v.processes[i].exited
             /\ v.processes[i].chan = 0
  <2>1. CASE p.detached BY <1>1, <1>5, <2>1 DEF Agrees, Only, KeepsEntry
  <2>2. CASE ~p.detached
    <3>1. v = CloseChannel(w, i) BY <2>2
    <3> HIDE DEF v
    <3>2. Sound(v, F, Z) /\ Closed(v, w, i) BY <1>5, <3>1, CloseSound
    <3> QED BY <1>5, <3>2 DEF Closed
  <2> QED BY <2>1, <2>2
<1>6. ASSUME p.pid, p.exited, p.respawn, ~p.exiting, ~ShuttingDown(w) PROVE Goal
  <2> DEFINE again == Respawn(v, i)
  <2>1. t = [again EXCEPT !.live = @ \/ v.forks > 0] BY <1>6 DEF ReapOne
  <2> HIDE DEF t, v
  <2>2. /\ Sound(v, F, Z) /\ Only(v, w, {"peer", "processes"})
        /\ KeepsEntry(v, w, i) /\ v.processes[i].exited
        /\ v.processes[i].chan = 0
    BY <1>5, <1>6
  <2>3. v.processes[i].pid /\ v.processes[i].respawn /\ ~v.processes[i].exiting
    BY <1>6, <2>2 DEF KeepsEntry
  <2>4. Sound(again, F, Z) /\ Respawned(again, v, i) BY <2>2, <2>3, RespawnSound
  <2> HIDE DEF again
  <2>5. DOMAIN again = WorkFields BY <2>4 DEF Sound, Book, TableTypes
  <2>6. Only(t, again, {"live"}) BY <2>1, <2>5 DEF Only, WorkFields
  <2>7. t.live \in BOOLEAN BY <2>1, <2>5 DEF WorkFields
  <2>8. SameTable(t, again)
    BY <2>6 DEF SameTable, Only, WorkFields
  <2>9. /\ Book(t, F, Z) BY <2>4, <2>8, SameBook DEF Sound
  <2>10. Counters(t) BY <2>4, <2>6, <2>7 DEF Sound, Counters, Only, WorkFields
  <2>11. /\ Only(t, w, ReapFields)
         /\ t.flags = w.flags /\ t.noaccepting = w.noaccepting
         /\ w.failed => t.failed
         /\ t.processes = again.processes /\ t.child = again.child /\ v.child = w.child
    <3>1. Only(again, v, {"processes", "child", "peer", "forks", "failed"})
          /\ (v.failed => again.failed)
      BY <2>4 DEF Respawned
    <3>2. Only(t, w, ReapFields) BY <2>2, <2>6, <3>1 DEF Only, ReapFields
    <3>3. w.failed => t.failed BY <2>2, <2>6, <3>1 DEF Only, WorkFields
    <3> QED BY <2>2, <2>6, <3>1, <3>2, <3>3 DEF Only, WorkFields
  <2>12. KeepsEntry(t, w, i)
    <3>1. KeepsEntry(again, v, i) /\ KeepsEntry(v, w, i) BY <2>2, <2>4 DEF Respawned
    <3> QED BY <2>11, <3>1 DEF KeepsEntry
  <2>13. /\ \A j \in Slots : j # i => t.child[j] = w.child[j]
         /\ Alive(t.child[i]) => ~t.child[i].old
    BY <2>4, <2>11 DEF Respawned
  <2>14. Retired(w) => Retired(t) BY <2>12, <2>13 DEF Retired, RetiredAt, KeepsEntry
  <2>15. NoneNew(w) => NoneNew(t) BY <2>12 DEF NoneNew, KeepsEntry
  <2>16. ServingOf(w) \subseteq ServingOf(t) BY <2>12 DEF ServingOf, KeepsEntry
  <2> QED BY <2>9, <2>10, <2>11, <2>14, <2>15, <2>16 DEF Sound, Reaped
<1>7. ASSUME p.pid, p.exited, ~(p.respawn /\ ~p.exiting /\ ~ShuttingDown(w)) PROVE Goal
  <2>1. t = Discard(v, i) BY <1>7 DEF ReapOne
  <2> HIDE DEF t, v
  <2>2. /\ Sound(v, F, Z) /\ Only(v, w, {"peer", "processes"})
        /\ KeepsEntry(v, w, i) /\ v.processes[i].exited
        /\ v.processes[i].chan = 0
    BY <1>5, <1>7
  <2>3. v.processes[i].pid BY <1>7, <2>2 DEF KeepsEntry
  <2>4. Sound(t, F, Z) /\ Discarded(t, v, i) BY <2>1, <2>2, <2>3, DiscardSound
  <2>5. /\ Only(t, v, {"processes", "last_process", "new_binary", "flags", "noaccepting"})
        /\ t.processes = [v.processes EXCEPT ![i] = NoProcess]
        /\ v.flags \subseteq t.flags /\ t.flags \subseteq v.flags \cup {"restart"}
        /\ v.noaccepting => t.noaccepting \/ "restart" \in t.flags
    BY <2>4 DEF Discarded
  <2>6. /\ v.flags = w.flags /\ v.noaccepting = w.noaccepting /\ v.child = w.child
        /\ v.failed = w.failed
    BY <2>2 DEF Only, WorkFields
  <2>7. t.child = v.child /\ t.failed = v.failed BY <2>5 DEF Only, WorkFields
  <2>8. Only(t, w, ReapFields) BY <2>2, <2>5 DEF Only, ReapFields
  <2>9. v.processes \in [Slots -> ProcessRecords] BY <2>2 DEF Sound, Book, TableTypes
  <2>10. /\ t.processes[i] = NoProcess
         /\ \A j \in Slots : j # i => t.processes[j] = w.processes[j]
    BY <2>2, <2>5, <2>9 DEF KeepsEntry
  <2>11. t.child[i].st = "none"
    BY <2>4, <2>10 DEF Sound, Book, Agrees, NoProcess
  <2>12. Retired(w) => Retired(t)
    BY <2>6, <2>7, <2>10, <2>11 DEF Retired, RetiredAt, Alive
  <2>13. NoneNew(w) => NoneNew(t) BY <2>10 DEF NoneNew, NoProcess
  <2>14. ShuttingDown(w) \/ ServingOf(w) \subseteq ServingOf(t)
    <3>1. ~ShuttingDown(w) => i \notin ServingOf(w) BY <1>7 DEF ServingOf
    <3> QED BY <2>10, <3>1 DEF ServingOf
  <2> QED BY <2>4, <2>5, <2>6, <2>7, <2>8, <2>12, <2>13, <2>14 DEF Reaped
<1> HIDE DEF v
<1> QED BY <1>3, <1>4, <1>6, <1>7

LEMMA ReapedSound ==
    ASSUME NEW F, NEW Z, NEW u, Sound(u, F, Z)
    PROVE  LET t == ReapChildren(u) IN Sound(t, F, Z) /\ Reaped(t, u)
<1> DEFINE w == [u EXCEPT !.live = FALSE]
           l == u.last_process
<1>1. /\ l \in Nat /\ l <= MaxProcesses /\ MaxProcesses \in Nat
      /\ DOMAIN u = WorkFields /\ Book(u, F, Z) /\ Counters(u)
  BY ProcessAssumption DEF Sound, Book, TableTypes
<1>2. Only(w, u, {"live"}) /\ w.live = FALSE BY <1>1 DEF Only, WorkFields
<1> HIDE DEF w
<1>3. PICK h : /\ h[0] = w
               /\ \A i \in 1..l : h[i] = ReapOne(h[i - 1], i)
               /\ ReapChildren(u) = h[l]
  BY <1>1, ReapLoop DEF w
<1> HIDE DEF l
<1> DEFINE T == {n \in Nat : n <= l => Sound(h[n], F, Z) /\ Reaped(h[n], u)}
<1>4. 0 \in T
  <2>1. SameTable(w, u) /\ w.flags = u.flags /\ w.noaccepting = u.noaccepting
    BY <1>2 DEF SameTable, Only, WorkFields
  <2>2. /\ Book(w, F, Z)
        /\ NoneNew(u) => NoneNew(w)
        /\ \A j \in Slots : RetiredAt(u, j) => RetiredAt(w, j)
        /\ ServingOf(w) = ServingOf(u)
    <3>1. Book(u, F, Z) /\ SameTable(w, u) BY <1>1, <2>1
    <3> QED BY <3>1, SameBook
  <2>3. Counters(w) BY <1>1, <1>2 DEF Counters, Only, WorkFields
  <2>4. Reaped(w, u)
    <3>1. Only(w, u, ReapFields) BY <1>2 DEF Only, ReapFields
    <3> QED BY <2>1, <2>2, <3>1 DEF Reaped, SameTable, Retired
  <2> QED BY <1>3, <2>2, <2>3, <2>4 DEF Sound
<1>5. ASSUME NEW n \in Nat, n \in T PROVE n + 1 \in T
  <2> SUFFICES ASSUME n + 1 <= l PROVE Sound(h[n + 1], F, Z) /\ Reaped(h[n + 1], u) OBVIOUS
  <2>1. n <= l /\ n + 1 \in 1..l /\ (n + 1) - 1 = n BY <1>1
  <2>2. n + 1 \in Slots BY <1>1, <2>1 DEF Slots
  <2>3. Sound(h[n], F, Z) /\ Reaped(h[n], u) BY <1>5, <2>1
  <2>4. h[n + 1] = ReapOne(h[n], n + 1) BY <1>3, <2>1
  <2>5. Sound(h[n + 1], F, Z) /\ Reaped(h[n + 1], h[n]) BY <2>2, <2>3, <2>4, ReapOneSound
  <2> DEFINE a == h[n]
             b == h[n + 1]
  <2> HIDE DEF a, b
  <2>6. Reaped(a, u) /\ Reaped(b, a) BY <2>3, <2>5 DEF a, b
  <2>7. Only(b, u, ReapFields) BY <2>6 DEF Reaped, Only
  <2>8. ShuttingDown(a) <=> ShuttingDown(u) BY <2>6 DEF Reaped, ShuttingDown
  <2>9. ShuttingDown(u) \/ ServingOf(u) \subseteq ServingOf(b) BY <2>6, <2>8 DEF Reaped
  <2>10. /\ u.failed => b.failed
         /\ u.flags \subseteq b.flags /\ b.flags \subseteq u.flags \cup {"restart"}
         /\ u.noaccepting => b.noaccepting \/ "restart" \in b.flags
         /\ Retired(u) => Retired(b)
         /\ NoneNew(u) => NoneNew(b)
    BY <2>6 DEF Reaped
  <2>11. Reaped(b, u) BY <2>7, <2>9, <2>10 DEF Reaped
  <2> QED BY <2>5, <2>11 DEF b
<1>6. l \in T
  <2> HIDE DEF T
  <2> QED BY <1>1, <1>4, <1>5, NumbersInduction
<1> QED BY <1>1, <1>3, <1>6

-----------------------------------------------------------------------------
(* Commands                                                                *)

\* What the body of the cycle changes without the table
TouchFields == {"running", "flags", "new_binary", "noaccepting", "live", "delay", "sigio", "skip"}
TouchTypes(t) ==
    /\ t.running \in BOOLEAN
    /\ t.flags \subseteq Flags
    /\ t.new_binary \in {-1, 0} \cup Slots
    /\ t.noaccepting \in BOOLEAN /\ t.live \in BOOLEAN /\ t.skip \in BOOLEAN
    /\ t.delay \in Delays
    /\ t.sigio \in 0..(WorkerProcesses + 2)

LEMMA CountersTouch == ASSUME NEW w, Counters(w) PROVE TouchTypes(w)
BY DEF Counters, TouchTypes

LEMMA TouchSound ==
    ASSUME NEW F, NEW Z, NEW w, Sound(w, F, Z), NEW t, Only(t, w, TouchFields), TouchTypes(t)
    PROVE  /\ Sound(t, F, Z)
           /\ Retired(w) => Retired(t)
           /\ NoneNew(w) => NoneNew(t)
           /\ \A i \in Slots : FreshAt(w, i) => FreshAt(t, i)
           /\ ServingOf(t) = ServingOf(w)
           /\ NewOf(t) = NewOf(w)
           /\ t.failed = w.failed /\ t.full = w.full /\ t.conf = w.conf
           /\ t.last_process = w.last_process
<1>1. /\ SameTable(t, w)
      /\ t.failed = w.failed /\ t.full = w.full /\ t.conf = w.conf
      /\ t.last_process = w.last_process
  BY DEF SameTable, Only, WorkFields, TouchFields
<1>2. Book(w, F, Z) /\ SameTable(t, w) BY <1>1 DEF Sound
<1>3. Book(t, F, Z) BY <1>2, SameBook
<1>4. Counters(t)
  <2>1. /\ t.pending = w.pending /\ t.forks = w.forks /\ t.reuse = w.reuse
        /\ t.spawned = w.spawned
    BY DEF Only, WorkFields, TouchFields
  <2> QED BY <1>1, <2>1 DEF Sound, Counters, TouchTypes
<1>5. /\ ServingOf(t) = ServingOf(w) /\ NewOf(t) = NewOf(w)
      /\ NoneNew(w) => NoneNew(t)
  BY <1>1 DEF SameTable, ServingOf, NewOf, NoneNew
<1>6. /\ Retired(w) => Retired(t)
      /\ \A i \in Slots : FreshAt(w, i) => FreshAt(t, i)
  BY <1>1 DEF SameTable, Retired, RetiredAt, FreshAt
<1> QED BY <1>1, <1>3, <1>4, <1>5, <1>6 DEF Sound

\* A new configuration replaces the one every child runs.
LEMMA LoadedSound ==
    ASSUME NEW F, NEW Z, NEW w, Sound(w, F, Z), NEW t, Only(t, w, {"child"}),
           t.child = [i \in Slots |-> IF w.child[i].st = "none" THEN w.child[i]
                                      ELSE [w.child[i] EXCEPT !.old = TRUE]]
    PROVE  /\ Sound(t, F, Z)
           /\ NoneNew(w) => NoneNew(t)
<1>1. /\ Book(w, F, Z) /\ TableTypes(w) /\ Agrees(w) /\ Counters(w)
      /\ w.child \in [Slots -> ChildRecords]
  BY DEF Sound, Book, TableTypes
<1>2. /\ t.processes = w.processes /\ t.peer = w.peer /\ t.last_process = w.last_process
      /\ t.failed = w.failed /\ DOMAIN t = WorkFields
  BY DEF Only, WorkFields
<1>3. ASSUME NEW i \in Slots
      PROVE  t.child[i] \in ChildRecords /\ t.child[i].st = w.child[i].st
             /\ t.child[i].cmd = w.child[i].cmd
  <2> DEFINE c == w.child[i]
  <2>1. c \in ChildRecords BY <1>1
  <2>2. t.child[i] = c \/ t.child[i] = [c EXCEPT !.old = TRUE] OBVIOUS
  <2> HIDE DEF c
  <2>3. t.child[i] \in ChildRecords /\ t.child[i].st = c.st /\ t.child[i].cmd = c.cmd
    BY <2>1, <2>2 DEF ChildRecords
  <2> QED BY <2>3 DEF c
<1>4. t.child \in [Slots -> ChildRecords] BY <1>3
<1>5. Counters(t) BY <1>1 DEF Counters, Only, WorkFields
<1>6. TableTypes(t) BY <1>1, <1>2, <1>4 DEF TableTypes
<1>7. Agrees(t) BY <1>1, <1>2, <1>3 DEF Agrees
<1>8. ~F /\ ~t.failed => Leads(t) /\ Told(t)
  BY <1>1, <1>2, <1>3 DEF Book, Leads, Told, Alive
<1>9. ~Z => \A i \in Slots : t.child[i].st # "fatal" BY <1>1, <1>3 DEF Book
<1>10. NoneNew(w) => NoneNew(t) BY <1>2 DEF NoneNew
<1> QED BY <1>5, <1>6, <1>7, <1>8, <1>9, <1>10 DEF Sound, Book

\* A fork failed or the table was full, or there are enough workers.
Enough(w, F, Z) ==
    \/ ShuttingDown(w) \/ w.noaccepting
    \/ F \/ w.failed \/ w.full \/ Z
    \/ Cardinality(ServingOf(w)) >= WorkerProcesses

LEMMA EnoughGrows ==
    ASSUME NEW S, NEW w, S \subseteq ServingOf(w), Cardinality(S) >= WorkerProcesses
    PROVE  Cardinality(ServingOf(w)) >= WorkerProcesses
<1>1. IsFiniteSet(ServingOf(w)) BY StartedFinite
<1>2. IsFiniteSet(S) /\ Cardinality(S) <= Cardinality(ServingOf(w)) BY <1>1, FS_Subset
<1>3. Cardinality(S) \in Nat /\ Cardinality(ServingOf(w)) \in Nat
  BY <1>1, <1>2, FS_CardinalityType
<1> QED BY <1>2, <1>3, ProcessAssumption

\* What holds between two commands: before the restart flag is looked at, and after
Good(w, F, Z) == Sound(w, F, Z) /\ Retired(w) /\ NoneNew(w)
ToRestart(w, F, Z) ==
    Enough(w, F, Z) \/ ("restart" \in w.flags /\ (w.skip => ~w.conf))
Restarted(w, F, Z) ==
    Enough(w, F, Z) \/ ("restart" \in w.flags /\ w.skip /\ ~w.conf)

LEMMA ClearSound ==
    ASSUME NEW F, NEW Z, NEW w, Sound(w, F, Z), NEW f
    PROVE  /\ Only(Clear(w, f), w, {"flags"})
           /\ Clear(w, f).flags = w.flags \ {f}
           /\ Sound(Clear(w, f), F, Z)
           /\ Retired(w) => Retired(Clear(w, f))
           /\ NoneNew(w) => NoneNew(Clear(w, f))
           /\ ServingOf(Clear(w, f)) = ServingOf(w)
<1> DEFINE t == Clear(w, f)
<1>1. DOMAIN w = WorkFields /\ Counters(w) BY DEF Sound, Book, TableTypes
<1>2. Only(t, w, {"flags"}) /\ t.flags = w.flags \ {f}
  BY <1>1 DEF Clear, Only, WorkFields
<1> HIDE DEF t
<1>3. Only(t, w, TouchFields) BY <1>2 DEF Only, TouchFields
<1>4. TouchTypes(t)
  <2>1. t.flags \subseteq Flags BY <1>1, <1>2 DEF Counters
  <2> QED BY <1>1, <1>2, <2>1 DEF Counters, TouchTypes, Only, WorkFields
<1> QED BY <1>2, <1>3, <1>4, TouchSound DEF t

LEMMA EnoughStays ==
    ASSUME NEW F, NEW Z, NEW w, NEW t, Enough(w, F, Z),
           ShuttingDown(w) => ShuttingDown(t), w.noaccepting => t.noaccepting,
           w.failed => t.failed, w.full => t.full, ServingOf(w) \subseteq ServingOf(t)
    PROVE  Enough(t, F, Z)
<1>1. CASE Cardinality(ServingOf(w)) >= WorkerProcesses
  <2>1. Cardinality(ServingOf(t)) >= WorkerProcesses BY <1>1, EnoughGrows
  <2> QED BY <2>1 DEF Enough
<1>2. CASE ~(Cardinality(ServingOf(w)) >= WorkerProcesses) BY <1>2 DEF Enough
<1> QED BY <1>1, <1>2

\* reconfigure
LEMMA ReconfigureGood ==
    ASSUME NEW F, NEW Z, NEW w, Good(w, F, Z), ToRestart(w, F, Z)
    PROVE  LET t == Reconfigure(w) IN Good(t, F, Z) /\ ToRestart(t, F, Z)
<1> DEFINE t == Reconfigure(w)
           v == Clear(w, "reconfigure")
           s == StartWorkerProcesses(v, "RESPAWN")
           loaded == [v EXCEPT !.child = [i \in Slots |->
                         IF v.child[i].st = "none" THEN v.child[i]
                         ELSE [v.child[i] EXCEPT !.old = TRUE]]]
           started == StartWorkerProcesses(loaded, "JUST_RESPAWN")
           lively == [started EXCEPT !.live = TRUE]
<1>1. /\ Only(v, w, {"flags"}) /\ v.flags = w.flags \ {"reconfigure"}
      /\ Sound(v, F, Z) /\ Retired(v) /\ NoneNew(v)
      /\ ServingOf(v) = ServingOf(w)
  BY ClearSound DEF Good
<1>2. t = IF v.new_binary # 0 THEN [s EXCEPT !.noaccepting = FALSE, !.skip = TRUE]
          ELSE IF ~v.conf THEN [v EXCEPT !.skip = TRUE]
          ELSE SignalWorkerProcesses(lively, "QUIT")
  BY DEF Reconfigure
<1> HIDE DEF v, t
<1>3. DOMAIN v = WorkFields /\ Counters(v) BY <1>1 DEF Sound, Book, TableTypes
<1>4. CASE v.new_binary # 0
  <2>1. t = [s EXCEPT !.noaccepting = FALSE, !.skip = TRUE] BY <1>2, <1>4
  <2>2. StartedTo(s, v, "RESPAWN", F, Z, WorkerProcesses) BY <1>1, StartedSound
  <2> HIDE DEF s
  <2>3. /\ Sound(s, F, Z)
        /\ \A i \in Slots : RetiredAt(v, i) => RetiredAt(s, i)
        /\ NoneNew(v) => NoneNew(s)
        /\ s.failed \/ s.full \/ Cardinality(ServingOf(s)) >= WorkerProcesses
    BY <2>2 DEF StartedTo, StartedOf
  <2>4. DOMAIN s = WorkFields /\ Counters(s) BY <2>3 DEF Sound, Book, TableTypes
  <2>5. Only(t, s, {"noaccepting", "skip"}) /\ t.noaccepting = FALSE /\ t.skip = TRUE
    BY <2>1, <2>4 DEF Only, WorkFields
  <2>6. Only(t, s, TouchFields) BY <2>5 DEF Only, TouchFields
  <2>7. TouchTypes(t) BY <2>4, <2>5 DEF Counters, TouchTypes, Only, WorkFields
  <2>8. Retired(s) /\ NoneNew(s) BY <1>1, <2>3 DEF Retired
  <2>9. Good(t, F, Z) BY <2>3, <2>6, <2>7, <2>8, TouchSound DEF Good
  <2>10. t.failed = s.failed /\ t.full = s.full /\ ServingOf(t) = ServingOf(s)
    BY <2>3, <2>6, <2>7, TouchSound
  <2>11. ToRestart(t, F, Z) BY <2>3, <2>10 DEF ToRestart, Enough
  <2> QED BY <2>9, <2>11 DEF t
<1>5. CASE v.new_binary = 0 /\ ~v.conf
  <2>1. t = [v EXCEPT !.skip = TRUE] BY <1>2, <1>5
  <2>2. Only(t, v, {"skip"}) /\ t.skip = TRUE BY <1>3, <2>1 DEF Only, WorkFields
  <2>3. Only(t, v, TouchFields) BY <2>2 DEF Only, TouchFields
  <2>4. TouchTypes(t) BY <1>3, <2>2 DEF Counters, TouchTypes, Only, WorkFields
  <2>5. Good(t, F, Z) BY <1>1, <2>3, <2>4, TouchSound DEF Good
  <2>6. /\ t.failed = w.failed /\ t.full = w.full /\ t.conf = v.conf
        /\ t.flags = w.flags \ {"reconfigure"} /\ t.noaccepting = w.noaccepting
    BY <1>1, <2>2 DEF Only, WorkFields
  <2>7. ServingOf(t) = ServingOf(w)
    <3>1. ServingOf(t) = ServingOf(v) BY <1>1, <2>3, <2>4, TouchSound
    <3> QED BY <1>1, <3>1
  <2>8. ShuttingDown(w) => ShuttingDown(t) BY <2>6 DEF ShuttingDown
  <2>9. Enough(w, F, Z) => Enough(t, F, Z)
    <3> SUFFICES ASSUME Enough(w, F, Z) PROVE Enough(t, F, Z) OBVIOUS
    <3>1. ServingOf(w) \subseteq ServingOf(t) BY <2>7
    <3> QED BY <2>6, <2>8, <3>1, EnoughStays
  <2>10. "restart" \in w.flags => "restart" \in t.flags BY <2>6
  <2>11. ToRestart(t, F, Z) BY <1>5, <2>6, <2>9, <2>10 DEF ToRestart
  <2> QED BY <2>5, <2>11 DEF t
<1>6. CASE v.new_binary = 0 /\ v.conf
  <2>1. t = SignalWorkerProcesses(lively, "QUIT") BY <1>2, <1>6
  <2>2. /\ Only(loaded, v, {"child"})
        /\ loaded.child = [i \in Slots |-> IF v.child[i].st = "none" THEN v.child[i]
                                           ELSE [v.child[i] EXCEPT !.old = TRUE]]
    BY <1>3 DEF Only, WorkFields
  <2> HIDE DEF loaded
  <2>3. Sound(loaded, F, Z) /\ NoneNew(loaded) BY <1>1, <2>2, LoadedSound
  <2>4. StartedTo(started, loaded, "JUST_RESPAWN", F, Z, WorkerProcesses)
    BY <2>3, StartedSound
  <2> HIDE DEF started
  <2>5. /\ Sound(started, F, Z)
        /\ \A i \in Slots : FreshAt(loaded, i) => FreshAt(started, i)
        /\ started.failed \/ started.full \/ Cardinality(NewOf(started)) >= WorkerProcesses
    BY <2>4 DEF StartedTo, StartedOf
  <2>6. \A i \in Slots : FreshAt(started, i) BY <2>3, <2>5 DEF NoneNew, FreshAt
  <2>7. DOMAIN started = WorkFields /\ Counters(started) BY <2>5 DEF Sound, Book, TableTypes
  <2>8. Only(lively, started, {"live"}) /\ lively.live = TRUE
    BY <2>7 DEF Only, WorkFields
  <2> HIDE DEF lively
  <2>9. Only(lively, started, TouchFields) BY <2>8 DEF Only, TouchFields
  <2>10. TouchTypes(lively) BY <2>7, <2>8 DEF Counters, TouchTypes, Only, WorkFields
  <2>11. /\ Sound(lively, F, Z) /\ \A i \in Slots : FreshAt(lively, i)
         /\ NewOf(lively) = NewOf(started)
         /\ lively.failed = started.failed /\ lively.full = started.full
    BY <2>5, <2>6, <2>9, <2>10, TouchSound
  <2>12. Swept(t, lively, "QUIT", F, Z)
    <3>1. "QUIT" \in Sigs BY DEF Sigs
    <3> QED BY <2>1, <2>11, <3>1, SweptSound
  <2>13. Good(t, F, Z) BY <2>11, <2>12 DEF Swept, Good
  <2>14. /\ NewOf(lively) \subseteq ServingOf(t)
         /\ t.failed = lively.failed /\ t.full = lively.full
    BY <2>12 DEF Swept, Only, WorkFields
  <2>15. t.failed \/ t.full \/ Cardinality(ServingOf(t)) >= WorkerProcesses
    BY <2>5, <2>11, <2>14, EnoughGrows
  <2>16. ToRestart(t, F, Z) BY <2>15 DEF ToRestart, Enough
  <2> QED BY <2>13, <2>16 DEF t
<1> QED BY <1>4, <1>5, <1>6

\* restart
LEMMA RestartGood ==
    ASSUME NEW F, NEW Z, NEW w, Good(w, F, Z)
    PROVE  LET t == Restart(w) IN Good(t, F, Z) /\ Enough(t, F, Z)
<1> DEFINE t == Restart(w)
           v == Clear(w, "restart")
           s == StartWorkerProcesses(v, "RESPAWN")
<1>1. t = [s EXCEPT !.live = TRUE] BY DEF Restart
<1>2. Sound(v, F, Z) /\ Retired(v) /\ NoneNew(v) BY ClearSound DEF Good
<1> HIDE DEF v, t
<1>3. StartedTo(s, v, "RESPAWN", F, Z, WorkerProcesses) BY <1>2, StartedSound
<1> HIDE DEF s
<1>4. /\ Sound(s, F, Z)
      /\ \A i \in Slots : RetiredAt(v, i) => RetiredAt(s, i)
      /\ NoneNew(v) => NoneNew(s)
      /\ s.failed \/ s.full \/ Cardinality(ServingOf(s)) >= WorkerProcesses
  BY <1>3 DEF StartedTo, StartedOf
<1>5. DOMAIN s = WorkFields /\ Counters(s) BY <1>4 DEF Sound, Book, TableTypes
<1>6. Only(t, s, {"live"}) /\ t.live = TRUE BY <1>1, <1>5 DEF Only, WorkFields
<1>7. Only(t, s, TouchFields) BY <1>6 DEF Only, TouchFields
<1>8. TouchTypes(t) BY <1>5, <1>6 DEF Counters, TouchTypes, Only, WorkFields
<1>9. Retired(s) /\ NoneNew(s) BY <1>2, <1>4 DEF Retired
<1>10. Good(t, F, Z) BY <1>4, <1>7, <1>8, <1>9, TouchSound DEF Good
<1>11. t.failed = s.failed /\ t.full = s.full /\ ServingOf(t) = ServingOf(s)
  BY <1>4, <1>7, <1>8, TouchSound
<1>12. Enough(t, F, Z) BY <1>4, <1>11 DEF Enough
<1> QED BY <1>10, <1>12 DEF t

\* reopen
LEMMA ReopenGood ==
    ASSUME NEW F, NEW Z, NEW w, Good(w, F, Z), Enough(w, F, Z)
    PROVE  LET t == Reopen(w) IN Good(t, F, Z) /\ Enough(t, F, Z)
<1> DEFINE t == Reopen(w)
           v == Clear(w, "reopen")
<1>1. t = SignalWorkerProcesses(v, "USR1") BY DEF Reopen
<1>2. /\ Only(v, w, {"flags"}) /\ v.flags = w.flags \ {"reopen"}
      /\ Sound(v, F, Z) /\ Retired(v) /\ NoneNew(v)
      /\ ServingOf(v) = ServingOf(w)
  BY ClearSound DEF Good
<1> HIDE DEF v, t
<1>3. Swept(t, v, "USR1", F, Z)
  <2>1. "USR1" \in Sigs BY DEF Sigs
  <2> QED BY <1>1, <1>2, <2>1, SweptSound
<1>4. Good(t, F, Z) BY <1>2, <1>3 DEF Swept, Good, NoneNew, FreshAt
<1>5. /\ t.noaccepting = v.noaccepting /\ t.failed = v.failed /\ t.full = v.full
      /\ v.flags \subseteq t.flags
      /\ ServingOf(v) \subseteq ServingOf(t)
  BY <1>3 DEF Swept, Only, WorkFields
<1>6. v.noaccepting = w.noaccepting /\ v.failed = w.failed /\ v.full = w.full
  BY <1>2 DEF Only, WorkFields
<1>7. ShuttingDown(w) => ShuttingDown(t) BY <1>2, <1>5 DEF ShuttingDown
<1>8. ServingOf(w) \subseteq ServingOf(t) BY <1>2, <1>5
<1>9. Enough(t, F, Z) BY <1>5, <1>6, <1>7, <1>8, EnoughStays
<1> QED BY <1>4, <1>9 DEF t

\* change_binary
LEMMA ChangeBinaryGood ==
    ASSUME NEW F, NEW Z, NEW w, Good(w, F, Z), Enough(w, F, Z)
    PROVE  LET t == ChangeBinary(w) IN Good(t, F, Z) /\ Enough(t, F, Z)
<1> DEFINE t == ChangeBinary(w)
           c == Clear(w, "change_binary")
           v == Spawn(c, "DETACHED")
<1>1. t = [v EXCEPT !.new_binary = IF v.spawned = 0 THEN -1 ELSE v.spawned]
  BY DEF ChangeBinary
<1>2. /\ Only(c, w, {"flags"}) /\ c.flags = w.flags \ {"change_binary"}
      /\ Sound(c, F, Z) /\ Retired(c) /\ NoneNew(c)
      /\ ServingOf(c) = ServingOf(w)
  BY ClearSound DEF Good
<1> HIDE DEF c, t
<1>3. /\ Sound(v, F, Z) /\ SpawnKeeps(v, c)
      /\ \A i \in Slots : RetiredAt(c, i) => RetiredAt(v, i)
      /\ NoneNew(c) => NoneNew(v)
      /\ ServingOf(v) = ServingOf(c)
  <2>1. "DETACHED" \in SpawnTypes BY DEF SpawnTypes
  <2> QED BY <1>2, <2>1, SpawnSound
<1> HIDE DEF v
<1>4. DOMAIN v = WorkFields /\ Counters(v) BY <1>3 DEF Sound, Book, TableTypes
<1>5. /\ Only(t, v, {"new_binary"})
      /\ t.new_binary = IF v.spawned = 0 THEN -1 ELSE v.spawned
  BY <1>1, <1>4 DEF Only, WorkFields
<1>6. Only(t, v, TouchFields) BY <1>5 DEF Only, TouchFields
<1>7. TouchTypes(t)
  <2>1. t.new_binary \in {-1, 0} \cup Slots BY <1>4, <1>5 DEF Counters
  <2> QED BY <1>4, <1>5, <2>1 DEF Counters, TouchTypes, Only, WorkFields
<1>8. Retired(v) /\ NoneNew(v) BY <1>2, <1>3 DEF Retired
<1>9. Good(t, F, Z) BY <1>3, <1>6, <1>7, <1>8, TouchSound DEF Good
<1>10. ServingOf(t) = ServingOf(v) BY <1>3, <1>6, <1>7, TouchSound
<1>11. /\ w.failed => t.failed
       /\ w.full => t.full
       /\ t.noaccepting = w.noaccepting /\ t.flags = c.flags
  <2>1. c.failed = w.failed /\ c.full = w.full /\ c.noaccepting = w.noaccepting
    BY <1>2 DEF Only, WorkFields
  <2>2. /\ c.failed => v.failed
        /\ c.full => v.full
        /\ v.noaccepting = c.noaccepting /\ v.flags = c.flags
    BY <1>3 DEF SpawnKeeps, Only, WorkFields
  <2>3. t.failed = v.failed /\ t.full = v.full /\ t.noaccepting = v.noaccepting /\ t.flags = v.flags
    BY <1>5 DEF Only, WorkFields
  <2> QED BY <2>1, <2>2, <2>3
<1>12. ShuttingDown(w) => ShuttingDown(t) BY <1>2, <1>11 DEF ShuttingDown
<1>13. ServingOf(w) \subseteq ServingOf(t) BY <1>2, <1>3, <1>10
<1>14. Enough(t, F, Z) BY <1>11, <1>12, <1>13, EnoughStays
<1> QED BY <1>9, <1>14 DEF t

\* noaccept
LEMMA NoAcceptGood ==
    ASSUME NEW F, NEW Z, NEW w, Good(w, F, Z)
    PROVE  LET t == NoAccept(w) IN Good(t, F, Z) /\ Enough(t, F, Z)
<1> DEFINE t == NoAccept(w)
           c == Clear(w, "noaccept")
           v == [c EXCEPT !.noaccepting = TRUE]
<1>1. t = SignalWorkerProcesses(v, "QUIT") BY DEF NoAccept
<1>2. Sound(c, F, Z) /\ Retired(c) /\ NoneNew(c) BY ClearSound DEF Good
<1> HIDE DEF c, t
<1>3. DOMAIN c = WorkFields /\ Counters(c) BY <1>2 DEF Sound, Book, TableTypes
<1>4. Only(v, c, {"noaccepting"}) /\ v.noaccepting = TRUE BY <1>3 DEF Only, WorkFields
<1> HIDE DEF v
<1>5. Only(v, c, TouchFields) BY <1>4 DEF Only, TouchFields
<1>6. TouchTypes(v) BY <1>3, <1>4 DEF Counters, TouchTypes, Only, WorkFields
<1>7. Sound(v, F, Z) /\ Retired(v) /\ NoneNew(v) BY <1>2, <1>5, <1>6, TouchSound
<1>8. Swept(t, v, "QUIT", F, Z)
  <2>1. "QUIT" \in Sigs BY DEF Sigs
  <2> QED BY <1>1, <1>7, <2>1, SweptSound
<1>9. Good(t, F, Z) BY <1>7, <1>8 DEF Swept, Good, NoneNew, FreshAt
<1>10. t.noaccepting = v.noaccepting BY <1>8 DEF Swept, Only, WorkFields
<1>11. Enough(t, F, Z) BY <1>4, <1>10 DEF Enough
<1> QED BY <1>9, <1>11 DEF t

LEMMA ObeyGood ==
    ASSUME NEW F, NEW Z, NEW w, Good(w, F, Z), ToRestart(w, F, Z)
    PROVE  LET t == Obey(w) IN Good(t, F, Z) /\ Restarted(t, F, Z)
<1> DEFINE a == ObeyOne(w, "reconfigure")
           b == ObeyOne(a, "restart")
           c == ObeyOne(b, "reopen")
           d == ObeyOne(c, "change_binary")
           e == ObeyOne(d, "noaccept")
<1>1. Good(a, F, Z) /\ ToRestart(a, F, Z)
  <2>1. CASE w.skip \/ "reconfigure" \notin w.flags BY <2>1 DEF ObeyOne
  <2>2. CASE ~(w.skip \/ "reconfigure" \notin w.flags)
    <3>1. a = Reconfigure(w) BY <2>2 DEF ObeyOne
    <3> HIDE DEF a
    <3> QED BY <3>1, ReconfigureGood
  <2> QED BY <2>1, <2>2
<1> HIDE DEF a
<1>2. Good(b, F, Z) /\ Restarted(b, F, Z)
  <2>1. CASE a.skip \/ "restart" \notin a.flags
    <3>1. b = a BY <2>1 DEF ObeyOne
    <3> HIDE DEF b
    <3> QED BY <1>1, <2>1, <3>1 DEF ToRestart, Restarted
  <2>2. CASE ~(a.skip \/ "restart" \notin a.flags)
    <3>1. b = Restart(a) BY <2>2 DEF ObeyOne
    <3> HIDE DEF b
    <3> QED BY <1>1, <3>1, RestartGood DEF Restarted
  <2> QED BY <2>1, <2>2
<1> HIDE DEF b
<1>3. Good(c, F, Z) /\ Restarted(c, F, Z)
  <2>1. CASE b.skip \/ "reopen" \notin b.flags BY <1>2, <2>1 DEF ObeyOne
  <2>2. CASE ~(b.skip \/ "reopen" \notin b.flags)
    <3>1. c = Reopen(b) BY <2>2 DEF ObeyOne
    <3>2. Enough(b, F, Z) BY <1>2, <2>2 DEF Restarted
    <3> HIDE DEF c
    <3> QED BY <1>2, <3>1, <3>2, ReopenGood DEF Restarted
  <2> QED BY <2>1, <2>2
<1> HIDE DEF c
<1>4. Good(d, F, Z) /\ Restarted(d, F, Z)
  <2>1. CASE c.skip \/ "change_binary" \notin c.flags BY <1>3, <2>1 DEF ObeyOne
  <2>2. CASE ~(c.skip \/ "change_binary" \notin c.flags)
    <3>1. d = ChangeBinary(c) BY <2>2 DEF ObeyOne
    <3>2. Enough(c, F, Z) BY <1>3, <2>2 DEF Restarted
    <3> HIDE DEF d
    <3> QED BY <1>3, <3>1, <3>2, ChangeBinaryGood DEF Restarted
  <2> QED BY <2>1, <2>2
<1> HIDE DEF d
<1>5. Good(e, F, Z) /\ Restarted(e, F, Z)
  <2>1. CASE d.skip \/ "noaccept" \notin d.flags BY <1>4, <2>1 DEF ObeyOne
  <2>2. CASE ~(d.skip \/ "noaccept" \notin d.flags)
    <3>1. e = NoAccept(d) BY <2>2 DEF ObeyOne
    <3> HIDE DEF e
    <3> QED BY <1>4, <3>1, NoAcceptGood DEF Restarted
  <2> QED BY <2>1, <2>2
<1>6. Obey(w) = e BY ObeyLoop DEF a, b, c, d
<1> HIDE DEF e
<1> QED BY <1>5, <1>6

-----------------------------------------------------------------------------
(* The signal handler                                                      *)

LEMMA GetStatusSound ==
    ASSUME NEW F, NEW Z, NEW w, Sound(w, F, Z)
    PROVE  LET t == GetStatus(w)
           IN /\ Sound(t, F, Z) /\ Only(t, w, {"processes", "child"})
              /\ Retired(w) => Retired(t)
              /\ NoneNew(w) => NoneNew(t)
              /\ Z \/ ServingOf(t) = ServingOf(w)
<1> DEFINE t == GetStatus(w)
           dead == {i \in Slots : w.child[i].st \in {"zombie", "fatal"}}
           e(i) == Exited(w.processes[i], w.child[i])
<1>1. /\ Book(w, F, Z) /\ TableTypes(w) /\ Agrees(w) /\ Counters(w)
      /\ DOMAIN w = WorkFields /\ w.processes \in [Slots -> ProcessRecords]
      /\ w.child \in [Slots -> ChildRecords]
  BY DEF Sound, Book, TableTypes
<1>2. /\ Only(t, w, {"processes", "child"})
      /\ t.processes = [i \in Slots |-> IF i \in dead THEN e(i) ELSE w.processes[i]]
      /\ t.child = [i \in Slots |-> IF i \in dead THEN NoChild ELSE w.child[i]]
  BY <1>1 DEF GetStatus, Only, WorkFields
<1> HIDE DEF t
<1>3. ASSUME NEW i \in Slots
      PROVE  /\ e(i) \in ProcessRecords /\ e(i).exited /\ e(i).pid = w.processes[i].pid
             /\ e(i).chan = w.processes[i].chan /\ e(i).exiting = w.processes[i].exiting
             /\ e(i).detached = w.processes[i].detached
             /\ e(i).just_spawn = w.processes[i].just_spawn
             /\ e(i).respawn <=> w.processes[i].respawn /\ w.child[i].st # "fatal"
  <2> DEFINE p == w.processes[i]
             r == p.respawn /\ w.child[i].st # "fatal"
             x == [p EXCEPT !.exited = TRUE, !.respawn = r]
  <2>1. p \in ProcessRecords BY <1>1
  <2>2. r \in BOOLEAN OBVIOUS
  <2>3. e(i) = x BY DEF Exited
  <2> HIDE DEF p, r
  <2>4. /\ x \in ProcessRecords /\ x.exited /\ x.pid = p.pid
        /\ x.chan = p.chan /\ x.exiting = p.exiting
        /\ x.detached = p.detached /\ x.just_spawn = p.just_spawn
        /\ x.respawn = r
    BY <2>1, <2>2 DEF ProcessRecords
  <2> HIDE DEF e
  <2> QED BY <2>3, <2>4 DEF p, r
<1> HIDE DEF e
<1>4. ASSUME NEW i \in Slots
      PROVE  /\ i \in dead => t.processes[i] = e(i) /\ t.child[i] = NoChild
             /\ i \notin dead => t.processes[i] = w.processes[i] /\ t.child[i] = w.child[i]
  BY <1>2
<1>5. NoChild \in ChildRecords /\ NoChild.st = "none" BY DEF NoChild, ChildRecords
<1>6. /\ t.processes \in [Slots -> ProcessRecords] /\ t.child \in [Slots -> ChildRecords]
  BY <1>1, <1>2, <1>3, <1>5
<1>7. /\ t.peer = w.peer /\ t.last_process = w.last_process /\ t.failed = w.failed
      /\ DOMAIN t = WorkFields
  BY <1>2 DEF Only, WorkFields
<1>8. Counters(t) BY <1>1, <1>2 DEF Counters, Only, WorkFields
<1>9. TableTypes(t) BY <1>1, <1>6, <1>7 DEF TableTypes
<1>10. \A i \in Slots : i \in dead => w.child[i].st # "none" OBVIOUS
<1> HIDE DEF dead
<1>11. Agrees(t)
  <2>1. ASSUME NEW j \in Slots
        PROVE  /\ t.child[j].st # "none" <=> t.processes[j].pid /\ ~t.processes[j].exited
               /\ t.processes[j].pid => j <= t.last_process
               /\ ~t.processes[j].pid => t.processes[j] = NoProcess
               /\ t.processes[j].detached => t.processes[j].chan = 0 /\ ~t.processes[j].respawn
    <3>1. CASE j \in dead
      <4>1. w.processes[j].pid BY <1>1, <1>10, <3>1 DEF Agrees
      <4> QED BY <1>1, <1>3, <1>4, <1>5, <1>7, <3>1, <4>1 DEF Agrees
    <3>2. CASE j \notin dead BY <1>1, <1>4, <1>7, <3>2 DEF Agrees
    <3> QED BY <3>1, <3>2
  <2>2. \A j \in Slots : t.processes[j].chan = w.processes[j].chan BY <1>3, <1>4
  <2>3. \A d \in Slots : t.peer[d] # 0 => \E j \in Slots : t.processes[j].chan = d
    BY <1>1, <1>7, <2>2 DEF Agrees
  <2> QED BY <2>1, <2>3 DEF Agrees
<1>12. \A j \in Slots : Alive(t.child[j]) => t.child[j] = w.child[j] /\ t.processes[j] = w.processes[j]
  BY <1>4, <1>5 DEF Alive
<1>13. ASSUME ~F, ~t.failed PROVE Leads(t) /\ Told(t)
  <2>1. Leads(w) /\ Told(w) BY <1>1, <1>7, <1>13 DEF Book
  <2>2. \A j \in Slots : t.processes[j].chan = w.processes[j].chan BY <1>3, <1>4
  <2>3. Leads(t) BY <1>7, <2>1, <2>2 DEF Leads
  <2>4. Told(t) BY <1>12, <2>1 DEF Told
  <2> QED BY <2>3, <2>4
<1>14. ~Z => \A i \in Slots : t.child[i].st # "fatal" BY <1>1, <1>4, <1>5 DEF Book
<1>15. Sound(t, F, Z) BY <1>8, <1>9, <1>11, <1>13, <1>14 DEF Sound, Book
<1>16. Retired(w) => Retired(t) BY <1>12 DEF Retired, RetiredAt
<1>17. NoneNew(w) => NoneNew(t) BY <1>3, <1>4 DEF NoneNew
<1>18. ASSUME ~Z PROVE ServingOf(t) = ServingOf(w)
  <2>1. ASSUME NEW j \in Slots
        PROVE  /\ t.processes[j].pid <=> w.processes[j].pid
               /\ t.processes[j].exiting <=> w.processes[j].exiting
               /\ t.processes[j].respawn <=> w.processes[j].respawn
    <3>1. w.child[j].st # "fatal" BY <1>1, <1>18 DEF Book
    <3> QED BY <1>3, <1>4, <3>1
  <2> QED BY <2>1 DEF ServingOf
<1> QED BY <1>2, <1>15, <1>16, <1>17, <1>18 DEF t

\* The iteration begins with enough workers, or will start them.
Begins(w, F, Z) == Enough(w, F, Z) \/ "restart" \in w.flags

LEMMA HandlerGood ==
    ASSUME NEW F, NEW Z, NEW w, Good(w, F, Z), Begins(w, F, Z)
    PROVE  LET t == SignalHandler(w)
           IN Good(t, F, Z) /\ Begins(t, F, Z) /\ t.skip = w.skip
<1> DEFINE t == SignalHandler(w)
           heard == {s \in w.pending \ {"IO"} : s # "USR2" \/ w.new_binary <= 0}
           raised == {FlagOf[s] : s \in heard}
           v == [w EXCEPT !.flags = @ \cup {FlagOf[s] : s \in heard}, !.pending = {}]
<1>1. DOMAIN w = WorkFields /\ Counters(w) /\ Book(w, F, Z)
  BY DEF Good, Sound, Book, TableTypes
<1>2. raised \subseteq Flags
  <2>1. heard \subseteq Signals \ {"IO"} BY <1>1 DEF Counters
  <2>2. \A s \in Signals \ {"IO"} : FlagOf[s] \in Flags
    BY DEF Signals, Commands, FlagOf, Flags
  <2> QED BY <2>1, <2>2
<1>3. /\ Only(v, w, {"flags", "pending"}) /\ v.flags = w.flags \cup raised /\ v.pending = {}
  BY <1>1 DEF Only, WorkFields
<1>4. t = IF "CHLD" \in heard THEN GetStatus(v) ELSE v BY DEF SignalHandler
<1> HIDE DEF v, heard, raised, t
<1>5. SameTable(v, w) BY <1>3 DEF SameTable, Only, WorkFields
<1>6. Counters(v)
  <2>1. v.flags \subseteq Flags /\ v.pending \subseteq Signals BY <1>1, <1>2, <1>3 DEF Counters
  <2> QED BY <1>1, <1>3, <2>1 DEF Counters, Only, WorkFields
<1>7. Sound(v, F, Z)
  <2>1. Book(v, F, Z) BY <1>1, <1>5, SameBook
  <2> QED BY <1>6, <2>1 DEF Sound
<1>8. Retired(v) /\ NoneNew(v)
  BY <1>5 DEF SameTable, Good, Retired, RetiredAt, NoneNew
<1>9. ServingOf(v) = ServingOf(w) BY <1>5 DEF SameTable, ServingOf
<1>10. /\ v.noaccepting = w.noaccepting /\ v.failed = w.failed /\ v.full = w.full
       /\ v.skip = w.skip
  BY <1>3 DEF Only, WorkFields
<1>11. ShuttingDown(w) => ShuttingDown(v) BY <1>3 DEF ShuttingDown
<1>12. Begins(v, F, Z)
  <2>1. Enough(w, F, Z) => Enough(v, F, Z)
    <3>1. ServingOf(w) \subseteq ServingOf(v) BY <1>9
    <3> QED BY <1>10, <1>11, <3>1, EnoughStays
  <2> QED BY <1>3, <2>1 DEF Begins
<1>13. CASE "CHLD" \notin heard
  <2>1. t = v BY <1>4, <1>13
  <2> QED BY <1>7, <1>8, <1>10, <1>12, <2>1 DEF Good, t
<1>14. CASE "CHLD" \in heard
  <2>1. t = GetStatus(v) BY <1>4, <1>14
  <2>2. /\ Sound(t, F, Z) /\ Only(t, v, {"processes", "child"})
        /\ Retired(v) => Retired(t)
        /\ NoneNew(v) => NoneNew(t)
        /\ Z \/ ServingOf(t) = ServingOf(v)
    BY <1>7, <2>1, GetStatusSound
  <2>3. /\ t.flags = v.flags /\ t.noaccepting = v.noaccepting /\ t.failed = v.failed
        /\ t.full = v.full /\ t.skip = v.skip
    BY <2>2 DEF Only, WorkFields
  <2>4. ShuttingDown(v) => ShuttingDown(t) BY <2>3 DEF ShuttingDown
  <2>5. Enough(v, F, Z) => Enough(t, F, Z)
    <3>1. CASE Z BY <3>1 DEF Enough
    <3>2. CASE ~Z
      <4>1. ServingOf(v) \subseteq ServingOf(t) BY <2>2, <3>2
      <4> QED BY <2>3, <2>4, <4>1, EnoughStays
    <3> QED BY <3>1, <3>2
  <2> QED BY <1>8, <1>10, <1>12, <2>2, <2>3, <2>5 DEF Good, Begins, t
<1> QED BY <1>13, <1>14

-----------------------------------------------------------------------------
(* One iteration                                                           *)

\* TERM and QUIT: the master signals its workers and goes on waiting.
LEMMA ShutdownGood ==
    ASSUME NEW F, NEW Z, NEW w, Good(w, F, Z), NEW sig \in Sigs, ShuttingDown(w)
    PROVE  LET t == SignalWorkerProcesses(w, sig)
           IN Good(t, F, Z) /\ Restarted(t, F, Z)
<1> DEFINE t == SignalWorkerProcesses(w, sig)
<1>1. Swept(t, w, sig, F, Z) BY SweptSound DEF Good
<1> HIDE DEF t
<1>2. Good(t, F, Z) BY <1>1 DEF Swept, Good, NoneNew, FreshAt
<1>3. ShuttingDown(t) BY <1>1 DEF Swept, ShuttingDown
<1> QED BY <1>2, <1>3 DEF Restarted, Enough, t

LEMMA TerminateGood ==
    ASSUME NEW F, NEW Z, NEW w, Good(w, F, Z), ShuttingDown(w)
    PROVE  LET t == Terminate(w) IN Good(t, F, Z) /\ Restarted(t, F, Z)
<1> DEFINE t == Terminate(w)
           v == [w EXCEPT !.delay = IF @ = 0 THEN 50 ELSE @]
           x == [v EXCEPT !.sigio = @ - 1]
           y == [v EXCEPT !.sigio = WorkerProcesses + 2]
           sig == IF v.delay > 1000 THEN "KILL" ELSE "TERM"
<1>1. DOMAIN w = WorkFields /\ Counters(w) BY DEF Good, Sound, Book, TableTypes
<1>2. t = IF v.sigio > 0 THEN x ELSE SignalWorkerProcesses(y, sig) BY DEF Terminate
<1>3. sig \in Sigs BY DEF Sigs
<1>4. Only(v, w, {"delay"}) /\ v.delay \in Delays
  <2>1. v.delay = IF w.delay = 0 THEN 50 ELSE w.delay BY <1>1 DEF WorkFields
  <2>2. w.delay \in Delays BY <1>1 DEF Counters
  <2>3. v.delay \in Delays BY <2>1, <2>2 DEF Delays
  <2> QED BY <1>1, <2>3 DEF Only, WorkFields
<1> HIDE DEF v, t, sig
<1>5. DOMAIN v = WorkFields /\ v.sigio \in 0..(WorkerProcesses + 2)
  BY <1>1, <1>4 DEF Only, WorkFields, Counters
<1>6. CASE v.sigio > 0
  <2>1. t = x BY <1>2, <1>6
  <2>2. Only(x, v, {"sigio"}) /\ x.sigio = v.sigio - 1 BY <1>5 DEF Only, WorkFields
  <2> HIDE DEF x
  <2>3. x.sigio \in 0..(WorkerProcesses + 2)
    <3>1. v.sigio - 1 \in 0..(WorkerProcesses + 2) BY <1>5, <1>6, ProcessAssumption
    <3> QED BY <2>2, <3>1
  <2>4. x.delay = v.delay /\ x.flags = w.flags BY <1>4, <2>2 DEF Only, WorkFields
  <2>5. Only(x, w, TouchFields) BY <1>4, <2>2 DEF Only, TouchFields
  <2>6. Only(x, w, {"delay", "sigio"}) BY <1>4, <2>2 DEF Only
  <2>7. TouchTypes(x) BY <1>1, <1>4, <2>3, <2>4, <2>6 DEF Counters, TouchTypes, Only, WorkFields
  <2>8. Good(x, F, Z) BY <2>5, <2>7, TouchSound DEF Good
  <2>9. ShuttingDown(x) BY <2>4 DEF ShuttingDown
  <2> QED BY <2>1, <2>8, <2>9 DEF Restarted, Enough, t
<1>7. CASE ~(v.sigio > 0)
  <2>1. t = SignalWorkerProcesses(y, sig) BY <1>2, <1>7
  <2>2. Only(y, v, {"sigio"}) /\ y.sigio = WorkerProcesses + 2 BY <1>5 DEF Only, WorkFields
  <2> HIDE DEF y
  <2>3. y.sigio \in 0..(WorkerProcesses + 2)
    <3>1. WorkerProcesses + 2 \in 0..(WorkerProcesses + 2) BY ProcessAssumption
    <3> QED BY <2>2, <3>1
  <2>4. y.delay = v.delay /\ y.flags = w.flags BY <1>4, <2>2 DEF Only, WorkFields
  <2>5. Only(y, w, TouchFields) BY <1>4, <2>2 DEF Only, TouchFields
  <2>6. Only(y, w, {"delay", "sigio"}) BY <1>4, <2>2 DEF Only
  <2>7. TouchTypes(y) BY <1>1, <1>4, <2>3, <2>4, <2>6 DEF Counters, TouchTypes, Only, WorkFields
  <2>8. Good(y, F, Z) BY <2>5, <2>7, TouchSound DEF Good
  <2>9. ShuttingDown(y) BY <2>4 DEF ShuttingDown
  <2> QED BY <1>3, <2>1, <2>8, <2>9, ShutdownGood DEF t
<1> QED BY <1>6, <1>7

LEMMA ReapGood ==
    ASSUME NEW F, NEW Z, NEW w, Good(w, F, Z), Begins(w, F, Z)
    PROVE  LET t == ReapChildren(Clear(w, "reap"))
           IN Good(t, F, Z) /\ Begins(t, F, Z) /\ t.skip = w.skip
<1> DEFINE v == Clear(w, "reap")
           t == ReapChildren(v)
<1>1. /\ Only(v, w, {"flags"}) /\ v.flags = w.flags \ {"reap"}
      /\ Sound(v, F, Z) /\ Retired(v) /\ NoneNew(v)
      /\ ServingOf(v) = ServingOf(w)
  BY ClearSound DEF Good
<1> HIDE DEF v
<1>2. Sound(t, F, Z) /\ Reaped(t, v) BY <1>1, ReapedSound
<1> HIDE DEF t
<1>3. Good(t, F, Z) BY <1>1, <1>2 DEF Good, Reaped
<1>4. /\ v.noaccepting = w.noaccepting /\ v.failed = w.failed /\ v.full = w.full
      /\ v.skip = w.skip
  BY <1>1 DEF Only, WorkFields
<1>5. t.skip = v.skip /\ t.full = v.full BY <1>2 DEF Reaped, Only, WorkFields, ReapFields
<1>6. ShuttingDown(w) <=> ShuttingDown(v) BY <1>1 DEF ShuttingDown
<1>7. Enough(w, F, Z) => Enough(v, F, Z)
  <2>1. ServingOf(w) \subseteq ServingOf(v) BY <1>1
  <2> QED BY <1>4, <1>6, <2>1, EnoughStays
<1>8. ASSUME Enough(v, F, Z) PROVE Begins(t, F, Z)
  <2>1. /\ v.failed => t.failed
        /\ v.flags \subseteq t.flags
        /\ v.noaccepting => t.noaccepting \/ "restart" \in t.flags
        /\ ShuttingDown(v) \/ ServingOf(v) \subseteq ServingOf(t)
    BY <1>2 DEF Reaped
  <2>2. CASE ShuttingDown(v)
    <3>1. ShuttingDown(t) BY <2>1, <2>2 DEF ShuttingDown
    <3> QED BY <3>1 DEF Begins, Enough
  <2>3. CASE ~ShuttingDown(v) /\ v.noaccepting BY <2>1, <2>3 DEF Begins, Enough
  <2>4. CASE ~ShuttingDown(v) /\ ~v.noaccepting
    <3>1. ServingOf(v) \subseteq ServingOf(t) BY <2>1, <2>4
    <3>2. ShuttingDown(v) => ShuttingDown(t) BY <2>4
    <3>3. Enough(t, F, Z) BY <1>5, <1>8, <2>1, <2>4, <3>1, <3>2, EnoughStays
    <3> QED BY <3>3 DEF Begins
  <2> QED BY <2>2, <2>3, <2>4
<1>9. "restart" \in w.flags => "restart" \in t.flags
  <2>1. v.flags \subseteq t.flags BY <1>2 DEF Reaped
  <2> QED BY <1>1, <2>1
<1>10. Begins(t, F, Z) BY <1>7, <1>8, <1>9 DEF Begins
<1> QED BY <1>3, <1>4, <1>5, <1>10 DEF t, v

LEMMA CycleGood ==
    ASSUME NEW F, NEW Z, NEW w, Good(w, F, Z), Begins(w, F, Z), ~w.skip
    PROVE  LET t == Cycle(w) IN Good(t, F, Z) /\ (~t.running \/ Restarted(t, F, Z))
<1> DEFINE t == Cycle(w)
           v == IF "reap" \in w.flags THEN ReapChildren(Clear(w, "reap")) ELSE w
<1>1. t = IF ~v.live /\ ShuttingDown(v) THEN [v EXCEPT !.running = FALSE]
          ELSE IF "terminate" \in v.flags THEN Terminate(v)
          ELSE IF "quit" \in v.flags THEN SignalWorkerProcesses(v, "QUIT")
          ELSE Obey(v)
  BY DEF Cycle
<1>2. Good(v, F, Z) /\ Begins(v, F, Z) /\ v.skip = w.skip
  <2>1. CASE "reap" \in w.flags
    <3>1. v = ReapChildren(Clear(w, "reap")) BY <2>1
    <3> HIDE DEF v
    <3> QED BY <3>1, ReapGood
  <2>2. CASE "reap" \notin w.flags BY <2>2
  <2> QED BY <2>1, <2>2
<1> HIDE DEF v, t
<1>3. DOMAIN v = WorkFields /\ Counters(v) BY <1>2 DEF Good, Sound, Book, TableTypes
<1>4. CASE ~v.live /\ ShuttingDown(v)
  <2>1. t = [v EXCEPT !.running = FALSE] BY <1>1, <1>4
  <2>2. Only(t, v, {"running"}) /\ t.running = FALSE BY <1>3, <2>1 DEF Only, WorkFields
  <2>3. Only(t, v, TouchFields) BY <2>2 DEF Only, TouchFields
  <2>4. TouchTypes(t) BY <1>3, <2>2 DEF Counters, TouchTypes, Only, WorkFields
  <2>5. Good(t, F, Z) BY <1>2, <2>3, <2>4, TouchSound DEF Good
  <2> QED BY <2>2, <2>5 DEF t
<1>5. CASE ~(~v.live /\ ShuttingDown(v)) /\ "terminate" \in v.flags
  <2>1. t = Terminate(v) /\ ShuttingDown(v) BY <1>1, <1>5 DEF ShuttingDown
  <2> QED BY <1>2, <2>1, TerminateGood DEF t
<1>6. CASE ~(~v.live /\ ShuttingDown(v)) /\ "terminate" \notin v.flags /\ "quit" \in v.flags
  <2>1. t = SignalWorkerProcesses(v, "QUIT") /\ ShuttingDown(v) BY <1>1, <1>6 DEF ShuttingDown
  <2>2. "QUIT" \in Sigs BY DEF Sigs
  <2> QED BY <1>2, <2>1, <2>2, ShutdownGood DEF t
<1>7. CASE ~(~v.live /\ ShuttingDown(v)) /\ "terminate" \notin v.flags /\ "quit" \notin v.flags
  <2>1. t = Obey(v) BY <1>1, <1>7
  <2>2. ToRestart(v, F, Z) BY <1>2 DEF Begins, ToRestart
  <2> QED BY <1>2, <2>1, <2>2, ObeyGood DEF t
<1> QED BY <1>4, <1>5, <1>6, <1>7

LEMMA ArmTimerGood ==
    ASSUME NEW F, NEW Z, NEW w, Good(w, F, Z), ~w.running \/ Restarted(w, F, Z)
    PROVE  LET t == ArmTimer(w) IN Good(t, F, Z) /\ (~t.running \/ Restarted(t, F, Z))
<1> DEFINE t == ArmTimer(w)
           c == Clear(w, "sigalrm")
           v == [c EXCEPT !.sigio = 0, !.delay = IF @ = 1600 THEN @ ELSE 2 * @]
<1>1. CASE w.delay > 0 /\ "sigalrm" \in w.flags
  <2>1. t = v BY <1>1 DEF ArmTimer
  <2>2. /\ Only(c, w, {"flags"}) /\ c.flags = w.flags \ {"sigalrm"}
        /\ Sound(c, F, Z) /\ Retired(c) /\ NoneNew(c)
        /\ ServingOf(c) = ServingOf(w)
    BY ClearSound DEF Good
  <2> HIDE DEF c
  <2>3. DOMAIN c = WorkFields /\ Counters(c) BY <2>2 DEF Sound, Book, TableTypes
  <2> DEFINE y == IF c.delay = 1600 THEN c.delay ELSE 2 * c.delay
  <2>4. v = [c EXCEPT !.sigio = 0, !.delay = y] OBVIOUS
  <2> HIDE DEF v, y
  <2>5. Only(v, c, {"sigio", "delay"}) /\ v.sigio = 0 /\ v.delay = y
    BY <2>3, <2>4 DEF Only, WorkFields
  <2>6. Only(v, c, TouchFields) BY <2>5 DEF Only, TouchFields
  <2>7. TouchTypes(v)
    <3>1. v.delay \in Delays
      <4>1. c.delay \in Delays BY <2>3 DEF Counters
      <4> QED BY <2>5, <4>1 DEF Delays, y
    <3>2. v.sigio \in 0..(WorkerProcesses + 2) BY <2>5, ProcessAssumption
    <3> QED BY <2>3, <2>5, <3>1, <3>2 DEF Counters, TouchTypes, Only, WorkFields
  <2>8. Good(v, F, Z) /\ ServingOf(v) = ServingOf(c) BY <2>2, <2>6, <2>7, TouchSound DEF Good
  <2>9. /\ v.noaccepting = w.noaccepting /\ v.failed = w.failed /\ v.full = w.full
        /\ v.skip = w.skip /\ v.conf = w.conf /\ v.running = w.running
        /\ v.flags = w.flags \ {"sigalrm"}
    BY <2>2, <2>5 DEF Only, WorkFields
  <2>10. ShuttingDown(w) => ShuttingDown(v) BY <2>9 DEF ShuttingDown
  <2>11. Enough(w, F, Z) => Enough(v, F, Z)
    <3>1. ServingOf(w) \subseteq ServingOf(v) BY <2>2, <2>8
    <3> QED BY <2>9, <2>10, <3>1, EnoughStays
  <2>12. Restarted(w, F, Z) => Restarted(v, F, Z) BY <2>9, <2>11 DEF Restarted
  <2> QED BY <2>1, <2>8, <2>9, <2>12
<1>2. CASE ~(w.delay > 0 /\ "sigalrm" \in w.flags) BY <1>2 DEF ArmTimer
<1> QED BY <1>1, <1>2

\* What an iteration keeps, from sigsuspend() to the next
LEMMA IterationGood ==
    ASSUME NEW F, NEW Z, NEW w, Good(w, F, Z), Begins(w, F, Z), ~w.skip
    PROVE  LET t == ArmTimer(Cycle(SignalHandler(w)))
           IN Good(t, F, Z) /\ (~t.running \/ Restarted(t, F, Z))
<1> DEFINE a == SignalHandler(w)
           b == Cycle(a)
<1>1. Good(a, F, Z) /\ Begins(a, F, Z) /\ ~a.skip BY HandlerGood
<1> HIDE DEF a
<1>2. Good(b, F, Z) /\ (~b.running \/ Restarted(b, F, Z)) BY <1>1, CycleGood
<1> HIDE DEF b
<1> QED BY <1>2, ArmTimerGood DEF a, b

-----------------------------------------------------------------------------
(* The state between iterations                                            *)

\* The table of another working record, with what is remembered of w
SameGood(t, w) ==
    /\ DOMAIN t = WorkFields
    /\ t.processes = w.processes /\ t.child = w.child /\ t.peer = w.peer
    /\ t.last_process = w.last_process

LEMMA TableGood ==
    ASSUME NEW F, NEW Z, NEW G, NEW Y, NEW w, NEW t, Good(w, F, Z), SameGood(t, w),
           Counters(t), F \/ w.failed => G \/ t.failed, Z => Y
    PROVE  Good(t, G, Y) /\ ServingOf(t) = ServingOf(w)
<1>1. Book(w, F, Z) /\ Retired(w) /\ NoneNew(w) BY DEF Good, Sound
<1>2. TableTypes(t) BY <1>1 DEF Book, SameGood, TableTypes
<1>3. Agrees(t) BY <1>1 DEF Book, SameGood, Agrees
<1>4. ~G /\ ~t.failed => Leads(t) /\ Told(t) BY <1>1 DEF Book, SameGood, Leads, Told
<1>5. ~Y => \A i \in Slots : t.child[i].st # "fatal" BY <1>1 DEF Book, SameGood
<1>6. Retired(t) /\ NoneNew(t) BY <1>1 DEF SameGood, Retired, RetiredAt, NoneNew
<1>7. ServingOf(t) = ServingOf(w) BY DEF SameGood, ServingOf
<1> QED BY <1>2, <1>3, <1>4, <1>5, <1>6, <1>7 DEF Good, Sound, Book

\* A child dies or gets stuck.
ChildSteps(t, w, i, how) == t.child = [w.child EXCEPT ![i].st = how]

LEMMA ChildGood ==
    ASSUME NEW F, NEW Z, NEW Y, NEW w, NEW t, Good(w, F, Z), Counters(t),
           NEW i \in Slots, w.child[i].st = "run", NEW how \in {"zombie", "fatal", "stuck"},
           DOMAIN t = WorkFields, ChildSteps(t, w, i, how),
           t.processes = w.processes, t.peer = w.peer, t.last_process = w.last_process,
           t.failed = w.failed, Z => Y, how = "fatal" => Y
    PROVE  Good(t, F, Y) /\ ServingOf(t) = ServingOf(w)
<1> DEFINE c == [w.child[i] EXCEPT !.st = how]
<1>1. /\ Book(w, F, Z) /\ Retired(w) /\ NoneNew(w) /\ TableTypes(w) /\ Agrees(w)
      /\ w.child \in [Slots -> ChildRecords]
  BY DEF Good, Sound, Book, TableTypes
<1>2. /\ c \in ChildRecords /\ c.st = how /\ c.cmd = w.child[i].cmd /\ c.old = w.child[i].old
  BY <1>1 DEF ChildRecords
<1>3. t.child = [w.child EXCEPT ![i] = c] BY DEF ChildSteps
<1> HIDE DEF c
<1>4. t.child \in [Slots -> ChildRecords] BY <1>1, <1>2, <1>3
<1>5. \A j \in Slots : /\ j = i => t.child[j] = c
                       /\ j # i => t.child[j] = w.child[j]
  BY <1>1, <1>3
<1>6. \A j \in Slots : /\ t.child[j].st = "none" <=> w.child[j].st = "none"
                       /\ Alive(t.child[j]) => Alive(w.child[j])
                       /\ t.child[j].cmd = w.child[j].cmd /\ t.child[j].old = w.child[j].old
  BY <1>2, <1>5 DEF Alive
<1>7. TableTypes(t) BY <1>1, <1>4 DEF TableTypes
<1>8. Agrees(t) BY <1>1, <1>6 DEF Agrees
<1>9. ~F /\ ~t.failed => Leads(t) /\ Told(t) BY <1>1, <1>6 DEF Book, Leads, Told
<1>10. ~Y => \A j \in Slots : t.child[j].st # "fatal" BY <1>1, <1>2, <1>5 DEF Book
<1>11. Retired(t) /\ NoneNew(t) BY <1>1, <1>6 DEF Retired, RetiredAt, NoneNew
<1>12. ServingOf(t) = ServingOf(w) BY DEF ServingOf
<1> QED BY <1>7, <1>8, <1>9, <1>10, <1>11, <1>12 DEF Good, Sound, Book

-----------------------------------------------------------------------------
(* The first workers: no fork fails before the table is full.              *)

Dense(w, F, Z) ==
    /\ Sound(w, F, Z) /\ w.failed = FALSE
    /\ w.forks = MaxProcesses - w.last_process
    /\ \A i \in 1..w.last_process : w.processes[i].pid

LEMMA DenseStep == ASSUME NEW F, NEW Z, NEW w, Dense(w, F, Z) PROVE Dense(Spawn(w, "RESPAWN"), F, Z)
<1> DEFINE t == Spawn(w, "RESPAWN")
<1>1. /\ TableTypes(w) /\ Agrees(w) /\ w.reuse \in BOOLEAN /\ Sound(w, F, Z)
      /\ w.last_process \in 0..MaxProcesses /\ "RESPAWN" \in SpawnTypes
      /\ w.failed = FALSE /\ w.forks = MaxProcesses - w.last_process
      /\ \A i \in 1..w.last_process : w.processes[i].pid
  BY DEF Dense, Sound, Book, Counters, TableTypes, SpawnTypes
<1>2. FreeSlot(w) = w.last_process + 1
  <2>1. {s \in 1..w.last_process : ~w.processes[s].pid} = {} BY <1>1
  <2> QED BY <2>1 DEF FreeSlot
<1>3. Sound(t, F, Z) BY <1>1, SpawnSound
<1>4. \/ SpawnFull(t, w)
      \/ w.forks = 0 /\ ~(FreeSlot(w) > MaxProcesses)
      \/ \E s, d : SpawnsAt(t, w, "RESPAWN", s, d) /\ s = FreeSlot(w)
  BY <1>1, SpawnOutcome
<1> HIDE DEF t
<1>5. CASE SpawnFull(t, w)
  <2>1. /\ t.failed = w.failed /\ t.forks = w.forks /\ t.processes = w.processes
        /\ t.last_process = w.last_process
    BY <1>5 DEF SpawnFull, Only, WorkFields
  <2> QED BY <1>1, <1>3, <2>1 DEF Dense, t
<1>6. CASE w.forks = 0 /\ ~(FreeSlot(w) > MaxProcesses)
  BY <1>1, <1>2, <1>6, ProcessAssumption
<1>7. ASSUME NEW s, NEW d, SpawnsAt(t, w, "RESPAWN", s, d), s = FreeSlot(w)
      PROVE  Dense(t, F, Z)
  <2>1. /\ t.failed = w.failed /\ t.forks = w.forks - 1 /\ t.processes[s].pid
        /\ \A i \in Slots \ {s} : t.processes[i] = w.processes[i]
        /\ t.last_process = s /\ s = w.last_process + 1 /\ s \in Slots
    BY <1>2, <1>7 DEF SpawnsAt, Only, WorkFields
  <2>2. t.failed = FALSE /\ t.forks = MaxProcesses - t.last_process
    BY <1>1, <2>1, ProcessAssumption
  <2>3. ASSUME NEW i \in 1..t.last_process PROVE t.processes[i].pid
    <3>1. CASE i = s BY <2>1, <3>1
    <3>2. CASE i # s
      <4>1. i \in 1..w.last_process /\ i \in Slots
        BY <1>1, <2>1, <3>2, ProcessAssumption DEF Slots
      <4> QED BY <1>1, <2>1, <3>2, <4>1
    <3> QED BY <3>1, <3>2
  <2> QED BY <1>3, <2>2, <2>3 DEF Dense
<1> QED BY <1>4, <1>5, <1>6, <1>7 DEF t

LEMMA FirstWorkers ==
    ASSUME NEW F, NEW Z, NEW w, Dense(w, F, Z), NoneNew(w), Retired(w)
    PROVE  LET v == StartWorkerProcesses(w, "RESPAWN")
           IN /\ Good(v, F, Z) /\ v.failed = FALSE
              /\ v.full \/ Cardinality(ServingOf(v)) >= WorkerProcesses
<1> DEFINE v == StartWorkerProcesses(w, "RESPAWN")
<1>1. WorkerProcesses \in Nat BY ProcessAssumption
<1>2. PICK h : /\ h[0] = w
               /\ \A i \in 1..WorkerProcesses : h[i] = Spawn(h[i - 1], "RESPAWN")
               /\ v = h[WorkerProcesses]
  BY <1>1, SpawnLoop
<1> DEFINE T == {n \in Nat : n <= WorkerProcesses => Dense(h[n], F, Z)}
<1>3. 0 \in T BY <1>2
<1>4. ASSUME NEW n \in Nat, n \in T PROVE n + 1 \in T
  <2> SUFFICES ASSUME n + 1 <= WorkerProcesses PROVE Dense(h[n + 1], F, Z) OBVIOUS
  <2>1. n <= WorkerProcesses /\ n + 1 \in 1..WorkerProcesses /\ (n + 1) - 1 = n BY <1>1
  <2>2. Dense(h[n], F, Z) BY <1>4, <2>1
  <2>3. h[n + 1] = Spawn(h[n], "RESPAWN") BY <1>2, <2>1
  <2> QED BY <2>2, <2>3, DenseStep
<1>5. WorkerProcesses \in T
  <2> HIDE DEF T
  <2> QED BY <1>1, <1>3, <1>4, NumbersInduction
<1>6. Dense(v, F, Z) BY <1>1, <1>2, <1>5
<1>7. Sound(w, F, Z) BY DEF Dense
<1>8. StartedTo(v, w, "RESPAWN", F, Z, WorkerProcesses) BY <1>7, StartedSound
<1> HIDE DEF v
<1>9. Good(v, F, Z) BY <1>8 DEF StartedTo, Good, Retired
<1>10. v.failed = FALSE BY <1>6 DEF Dense
<1>11. v.full \/ Cardinality(ServingOf(v)) >= WorkerProcesses
  BY <1>8, <1>10 DEF StartedTo, StartedOf
<1> QED BY <1>9, <1>10, <1>11 DEF v

-----------------------------------------------------------------------------
(* The inductive invariant                                                 *)

\* The working record with which the next iteration would begin, but for
\* its forks
Table == Working(0, master.conf, TRUE)
FatalExit == budget.fatal < MaxFatals

Budgets == [signals : Int, crashes : Int, fatal : Int, forks : Int, full : BOOLEAN]

IInv ==
    /\ Good(Table, ForkFailed, FatalExit)
    /\ \/ ~master.running
       \/ Enough(Table, ForkFailed, FatalExit)
       \/ "restart" \in master.flags /\ ~master.conf
    /\ budget \in Budgets /\ budget.forks <= MaxForkFails /\ budget.fatal <= MaxFatals

\* What joins the record of an iteration and the variables
Joins(w) ==
    /\ DOMAIN w = WorkFields
    /\ w.running = master.running /\ w.processes = master.processes
    /\ w.last_process = master.last_process /\ w.flags = master.flags
    /\ w.new_binary = master.new_binary /\ w.noaccepting = master.noaccepting
    /\ w.live = master.live /\ w.delay = master.delay /\ w.sigio = master.sigio
    /\ w.child = kernel.child /\ w.peer = kernel.peer /\ w.pending = pending
    /\ w.full = budget.full /\ w.spawned = 0
    /\ ~w.failed /\ w.failed \in BOOLEAN /\ ~w.skip /\ w.skip \in BOOLEAN

LEMMA WorkingJoins ==
    ASSUME NEW forks, NEW conf, NEW reuse
    PROVE  /\ Joins(Working(forks, conf, reuse))
           /\ Working(forks, conf, reuse).forks = forks
           /\ Working(forks, conf, reuse).conf = conf
           /\ Working(forks, conf, reuse).reuse = reuse
<1> DEFINE w == Working(forks, conf, reuse)
<1>1. DOMAIN w = WorkFields BY DEF Working, WorkFields
<1> QED BY <1>1 DEF Joins, Working

TableIs ==
    /\ Joins(Table) /\ Table.forks = 0 /\ Table.conf = master.conf /\ Table.reuse /\ Table.reuse \in BOOLEAN

LEMMA TableJoins == TableIs
<1>1. DOMAIN Table = WorkFields BY DEF Table, Working, WorkFields
<1> QED BY <1>1 DEF Joins, Table, TableIs, Working

LEMMA TableJoinsNext == TableIs'
BY TableJoins, PTL

\* Every state whose invariant holds is one an iteration can begin in.
LEMMA IterationBegins ==
    ASSUME IInv, master.running, NEW forks \in Nat, NEW conf \in BOOLEAN,
           NEW reuse \in BOOLEAN
    PROVE  LET w == Working(forks, conf, reuse)
           IN Good(w, ForkFailed, FatalExit) /\ Begins(w, ForkFailed, FatalExit) /\ ~w.skip
<1> DEFINE w == Working(forks, conf, reuse)
<1>1. Joins(w) /\ w.forks = forks /\ w.conf = conf /\ w.reuse = reuse BY WorkingJoins
<1>2. Joins(Table) BY TableJoins DEF TableIs
<1>3. Good(Table, ForkFailed, FatalExit) BY DEF IInv
<1> HIDE DEF w
<1>4. SameGood(w, Table) /\ w.failed = Table.failed BY <1>1, <1>2 DEF Joins, SameGood
<1>5. Counters(w)
  <2>1. Counters(Table) BY <1>3 DEF Good, Sound
  <2> QED BY <1>1, <1>2, <2>1 DEF Joins, Counters
<1>6. Good(w, ForkFailed, FatalExit) /\ ServingOf(w) = ServingOf(Table)
  <2>1. ForkFailed \/ Table.failed => ForkFailed \/ w.failed BY <1>4
  <2> QED BY <1>3, <1>4, <1>5, <2>1, TableGood
<1>7. Begins(w, ForkFailed, FatalExit)
  <2>1. CASE Enough(Table, ForkFailed, FatalExit)
    <3>1. /\ w.noaccepting = Table.noaccepting /\ w.full = Table.full
          /\ w.flags = Table.flags /\ w.failed = Table.failed
      BY <1>1, <1>2 DEF Joins
    <3>2. ShuttingDown(Table) => ShuttingDown(w) BY <3>1 DEF ShuttingDown
    <3>3. ServingOf(Table) \subseteq ServingOf(w) BY <1>6
    <3>4. Enough(w, ForkFailed, FatalExit) BY <2>1, <3>1, <3>2, <3>3, EnoughStays
    <3> QED BY <3>4 DEF Begins
  <2>2. CASE "restart" \in master.flags BY <1>1, <2>2 DEF Joins, Begins
  <2> QED BY <2>1, <2>2 DEF IInv
<1>8. ~w.skip BY <1>1 DEF Joins
<1> QED BY <1>6, <1>7, <1>8 DEF w

LEMMA BudgetOfForks ==
    ASSUME budget \in Budgets, NEW n \in Int, NEW b \in BOOLEAN
    PROVE  [budget EXCEPT !.forks = n, !.full = b] \in Budgets
BY DEF Budgets

LEMMA WakeKeeps == ASSUME IInv, Wake PROVE IInv'
<1>1. PICK forks \in (IF budget.forks = 0 THEN {} ELSE 0..WorkerProcesses)
                         \cup {2 * MaxProcesses},
           conf \in IF "HUP" \in pending THEN BOOLEAN ELSE {TRUE},
           reuse \in IF budget.forks = MaxForkFails THEN {TRUE} ELSE BOOLEAN :
           \E w \in {ArmTimer(Cycle(SignalHandler(Working(forks, conf, reuse))))} :
              /\ forks < 2 * MaxProcesses => w.failed
              /\ master' = MasterOf(w)
              /\ kernel' = KernelOf(w)
              /\ pending' = w.pending
              /\ budget' = [budget EXCEPT !.forks = IF w.failed THEN @ - 1 ELSE @,
                                          !.full = w.full]
  BY Zenon DEF Wake
<1> DEFINE a == Working(forks, conf, reuse)
           w == ArmTimer(Cycle(SignalHandler(a)))
<1>2. forks \in Nat /\ conf \in BOOLEAN /\ reuse \in BOOLEAN
  <2>1. 2 * MaxProcesses \in Nat /\ 0..WorkerProcesses \subseteq Nat BY ProcessAssumption
  <2> QED BY <1>1, <2>1
<1>3. master.running BY DEF Wake
<1>4. /\ Good(a, ForkFailed, FatalExit) /\ Begins(a, ForkFailed, FatalExit) /\ ~a.skip
  BY <1>2, <1>3, IterationBegins
<1>5. /\ Good(w, ForkFailed, FatalExit)
      /\ ~w.running \/ Restarted(w, ForkFailed, FatalExit)
  <2> HIDE DEF a
  <2> QED BY <1>4, IterationGood
<1>6. /\ master' = MasterOf(w) /\ kernel' = KernelOf(w) /\ pending' = w.pending
      /\ budget' = [budget EXCEPT !.forks = IF w.failed THEN @ - 1 ELSE @, !.full = w.full]
  BY <1>1
<1> HIDE DEF w
<1>7. DOMAIN w = WorkFields /\ Counters(w) BY <1>5 DEF Good, Sound, Book, TableTypes
<1>8. /\ budget' \in Budgets /\ budget'.forks <= MaxForkFails
      /\ budget'.fatal = budget.fatal /\ budget'.full = w.full
      /\ ForkFailed \/ w.failed => ForkFailed'
  <2> DEFINE n == IF w.failed THEN budget.forks - 1 ELSE budget.forks
  <2>1. budget \in Budgets /\ budget.forks <= MaxForkFails BY DEF IInv
  <2>2. budget.forks \in Int /\ MaxForkFails \in Int
    BY <2>1, ProcessAssumption DEF Budgets
  <2>3. n \in Int /\ n <= MaxForkFails /\ (ForkFailed \/ w.failed => n < MaxForkFails)
    BY <2>1, <2>2 DEF ForkFailed
  <2>4. budget' = [budget EXCEPT !.forks = n, !.full = w.full] BY <1>6
  <2>5. w.full \in BOOLEAN BY <1>7 DEF Counters
  <2> HIDE DEF n
  <2>6. budget'.forks = n /\ budget'.fatal = budget.fatal /\ budget'.full = w.full
    BY <2>1, <2>4 DEF Budgets
  <2> QED BY <2>1, <2>3, <2>4, <2>5, <2>6, BudgetOfForks DEF ForkFailed
<1>9. FatalExit' <=> FatalExit BY <1>8 DEF FatalExit
<1>10. /\ Joins(Table)' /\ Table'.forks = 0 /\ Table'.conf = master'.conf
       /\ Table'.reuse /\ Table'.reuse \in BOOLEAN
  BY TableJoinsNext DEF TableIs
<1> DEFINE t == Table'
<1>11. /\ SameGood(t, w) /\ t.running = w.running /\ t.flags = w.flags
       /\ t.new_binary = w.new_binary /\ t.noaccepting = w.noaccepting
       /\ t.live = w.live /\ t.delay = w.delay /\ t.sigio = w.sigio
       /\ t.conf = w.conf /\ t.pending = w.pending /\ t.full = w.full
       /\ t.failed \in BOOLEAN /\ t.skip \in BOOLEAN /\ t.spawned = 0 /\ t.forks = 0
       /\ t.reuse \in BOOLEAN
       /\ master'.running = w.running /\ master'.flags = w.flags /\ master'.conf = w.conf
  BY <1>6, <1>8, <1>10 DEF Joins, SameGood, MasterOf, KernelOf
<1> HIDE DEF t
<1>12. Counters(t)
  <2>1. /\ t.running \in BOOLEAN /\ t.flags \subseteq Flags
        /\ t.new_binary \in {-1, 0} \cup Slots /\ t.noaccepting \in BOOLEAN
        /\ t.live \in BOOLEAN /\ t.delay \in Delays
        /\ t.sigio \in 0..(WorkerProcesses + 2)
    BY <1>7, <1>11 DEF Counters
  <2>2. t.pending \subseteq Signals /\ t.conf \in BOOLEAN /\ t.full \in BOOLEAN
    BY <1>7, <1>11 DEF Counters
  <2>3. /\ t.forks \in Nat /\ t.spawned \in {0} \cup Slots /\ t.reuse \in BOOLEAN
        /\ t.failed \in BOOLEAN /\ t.skip \in BOOLEAN
    BY <1>11
  <2> QED BY <2>1, <2>2, <2>3 DEF Counters
<1>13. Good(t, ForkFailed', FatalExit') /\ ServingOf(t) = ServingOf(w)
  <2>1. ForkFailed \/ w.failed => ForkFailed' \/ t.failed BY <1>8
  <2>2. FatalExit => FatalExit' BY <1>9
  <2> QED BY <1>5, <1>11, <1>12, <2>1, <2>2, TableGood
<1>14. ASSUME Enough(w, ForkFailed, FatalExit) PROVE Enough(t, ForkFailed', FatalExit')
  BY <1>8, <1>9, <1>11, <1>13, <1>14 DEF Enough, ShuttingDown
<1>15. \/ ~master'.running
       \/ Enough(t, ForkFailed', FatalExit')
       \/ "restart" \in master'.flags /\ ~master'.conf
  BY <1>5, <1>11, <1>14 DEF Restarted
<1>16. budget'.fatal <= MaxFatals BY <1>8 DEF IInv
<1> QED BY <1>8, <1>13, <1>15, <1>16 DEF IInv, t

\* A step that only adds signals, and takes from the budget of the
\* administrator
LEMMA SignalsKeep ==
    ASSUME IInv, master' = master, kernel' = kernel, pending' \subseteq Signals,
           budget' \in Budgets, budget'.forks = budget.forks,
           budget'.fatal = budget.fatal, budget'.full = budget.full
    PROVE  IInv'
<1>1. (ForkFailed' <=> ForkFailed) /\ (FatalExit' <=> FatalExit)
  BY DEF ForkFailed, FatalExit
<1>2. /\ Joins(Table) /\ Table.forks = 0 /\ Table.conf = master.conf /\ Table.reuse /\ Table.reuse \in BOOLEAN
  BY TableJoins DEF TableIs
<1>3. /\ Joins(Table)' /\ Table'.forks = 0 /\ Table'.conf = master'.conf
      /\ Table'.reuse /\ Table'.reuse \in BOOLEAN
  BY TableJoinsNext DEF TableIs
<1> DEFINE t == Table'
           w == Table
<1>4. /\ SameGood(t, w) /\ Only(t, w, {"pending"}) /\ t.pending = pending'
  <2>1. /\ DOMAIN t = WorkFields /\ t.running = w.running /\ t.processes = w.processes
        /\ t.last_process = w.last_process /\ t.flags = w.flags
        /\ t.new_binary = w.new_binary /\ t.noaccepting = w.noaccepting
        /\ t.live = w.live /\ t.delay = w.delay /\ t.sigio = w.sigio
        /\ t.child = w.child /\ t.peer = w.peer /\ t.failed = w.failed
        /\ t.full = w.full /\ t.skip = w.skip /\ t.spawned = w.spawned
        /\ t.pending = pending' /\ t.forks = w.forks /\ t.conf = w.conf
        /\ t.reuse = w.reuse
    BY <1>2, <1>3 DEF Joins
  <2> HIDE DEF t, w
  <2>2. Only(t, w, {"pending"}) BY <2>1 DEF Only, WorkFields
  <2> QED BY <2>1, <2>2 DEF SameGood
<1>5. Good(w, ForkFailed, FatalExit) BY DEF IInv
<1> HIDE DEF t, w
<1>6. Counters(t)
  <2>1. Counters(w) BY <1>5 DEF Good, Sound
  <2> QED BY <1>4, <2>1 DEF Counters, Only, WorkFields
<1>7. Good(t, ForkFailed', FatalExit') /\ ServingOf(t) = ServingOf(w)
  <2>1. ForkFailed \/ w.failed => ForkFailed' \/ t.failed
    BY <1>1, <1>4 DEF Only, WorkFields
  <2>2. FatalExit => FatalExit' BY <1>1
  <2> QED BY <1>4, <1>5, <1>6, <2>1, <2>2, TableGood
<1>8. Enough(w, ForkFailed, FatalExit) => Enough(t, ForkFailed', FatalExit')
  BY <1>1, <1>4, <1>7 DEF Enough, ShuttingDown, Only, WorkFields
<1> QED BY <1>7, <1>8 DEF IInv, t, w

\* A step of a child
LEMMA ChildKeeps ==
    ASSUME IInv, NEW i \in Slots, kernel.child[i].st = "run",
           NEW how \in {"zombie", "fatal", "stuck"},
           master' = master, kernel' = [kernel EXCEPT !.child[i].st = how],
           pending' \subseteq Signals, budget' \in Budgets,
           budget'.forks = budget.forks, budget'.full = budget.full,
           budget'.fatal <= budget.fatal, how = "fatal" => budget'.fatal < budget.fatal
    PROVE  IInv'
<1>1. /\ Good(Table, ForkFailed, FatalExit) /\ budget.fatal <= MaxFatals
      /\ budget.fatal \in Int /\ budget'.fatal \in Int /\ MaxFatals \in Int
  BY ProcessAssumption DEF IInv, Budgets
<1>2. /\ ForkFailed' <=> ForkFailed
      /\ FatalExit => FatalExit'
      /\ how = "fatal" => FatalExit'
      /\ budget'.fatal <= MaxFatals
  BY <1>1 DEF ForkFailed, FatalExit
<1>3. /\ Joins(Table) /\ Table.forks = 0 /\ Table.conf = master.conf /\ Table.reuse /\ Table.reuse \in BOOLEAN
  BY TableJoins DEF TableIs
<1>4. /\ Joins(Table)' /\ Table'.forks = 0 /\ Table'.conf = master'.conf
      /\ Table'.reuse /\ Table'.reuse \in BOOLEAN
  BY TableJoinsNext DEF TableIs
<1>5. kernel'.peer = kernel.peer /\ kernel'.child = [kernel.child EXCEPT ![i].st = how]
  OBVIOUS
<1> DEFINE t == Table'
           w == Table
<1>6. /\ Only(t, w, {"pending", "child"}) /\ t.pending = pending'
      /\ t.child = [w.child EXCEPT ![i].st = how] /\ w.child[i].st = "run"
  <2>1. /\ DOMAIN t = WorkFields /\ t.running = w.running /\ t.processes = w.processes
        /\ t.last_process = w.last_process /\ t.flags = w.flags
        /\ t.new_binary = w.new_binary /\ t.noaccepting = w.noaccepting
        /\ t.live = w.live /\ t.delay = w.delay /\ t.sigio = w.sigio
        /\ t.peer = w.peer /\ t.failed = w.failed
        /\ t.full = w.full /\ t.skip = w.skip /\ t.spawned = w.spawned
        /\ t.pending = pending' /\ t.forks = w.forks /\ t.conf = w.conf
        /\ t.reuse = w.reuse
    BY <1>3, <1>4, <1>5 DEF Joins
  <2>2. t.child = kernel'.child /\ w.child = kernel.child BY <1>3, <1>4 DEF Joins
  <2> HIDE DEF t, w
  <2>3. Only(t, w, {"pending", "child"}) BY <2>1 DEF Only, WorkFields
  <2>4. t.child = [w.child EXCEPT ![i].st = how] /\ w.child[i].st = "run"
    BY <1>5, <2>2
  <2> QED BY <2>1, <2>3, <2>4
<1> HIDE DEF t, w
<1>7. Counters(t)
  <2>1. Counters(w) BY <1>1 DEF Good, Sound, w
  <2> QED BY <1>6, <2>1 DEF Counters, Only, WorkFields
<1>8. Good(t, ForkFailed, FatalExit') /\ ServingOf(t) = ServingOf(w)
  <2>1. /\ DOMAIN t = WorkFields /\ t.processes = w.processes /\ t.peer = w.peer
        /\ t.last_process = w.last_process /\ t.failed = w.failed
    BY <1>6 DEF Only, WorkFields
  <2>2. Good(w, ForkFailed, FatalExit) BY <1>1 DEF w
  <2>3. /\ ChildSteps(t, w, i, how) /\ w.child[i].st = "run"
        /\ FatalExit => FatalExit'
        /\ how = "fatal" => FatalExit'
    BY <1>2, <1>6 DEF ChildSteps
  <2> QED BY <1>7, <2>1, <2>2, <2>3, ChildGood
<1>9. Good(t, ForkFailed', FatalExit')
  <2>1. ForkFailed' = ForkFailed BY <1>2 DEF ForkFailed
  <2> QED BY <1>8, <2>1
<1>10. Enough(w, ForkFailed, FatalExit) => Enough(t, ForkFailed', FatalExit')
  BY <1>2, <1>6, <1>8 DEF Enough, ShuttingDown, Only, WorkFields
<1> QED BY <1>2, <1>9, <1>10 DEF IInv, t, w

LEMMA InitHolds == Init => IInv
<1> SUFFICES ASSUME Init PROVE IInv OBVIOUS
<1> DEFINE w == [running |-> TRUE, processes |-> [i \in Slots |-> NoProcess],
                 last_process |-> 0, flags |-> {}, new_binary |-> 0,
                 noaccepting |-> FALSE, live |-> TRUE, delay |-> 0, sigio |-> 0,
                 child |-> [i \in Slots |-> NoChild],
                 peer |-> [d \in Slots |-> 0], pending |-> {},
                 forks |-> MaxProcesses, conf |-> TRUE, reuse |-> TRUE, failed |-> FALSE,
                 full |-> FALSE, skip |-> FALSE, spawned |-> 0]
           v == StartWorkerProcesses(w, "RESPAWN")
<1>1. /\ master = MasterOf(v) /\ kernel = KernelOf(v) /\ pending = {}
      /\ budget = [signals |-> MaxSignals, crashes |-> MaxCrashes,
                   fatal |-> MaxFatals, forks |-> MaxForkFails, full |-> v.full]
  BY DEF Init
<1>2. Counters(w) BY ProcessAssumption DEF Counters, Flags, Delays, Signals
<1>3. TableTypes(w)
  <2>1. DOMAIN w = WorkFields BY DEF WorkFields
  <2>2. NoProcess \in ProcessRecords BY DEF NoProcess, ProcessRecords
  <2>3. NoChild \in ChildRecords BY DEF NoChild, ChildRecords
  <2>4. 0 \in 0..MaxProcesses BY ProcessAssumption
  <2> QED BY <2>1, <2>2, <2>3, <2>4 DEF TableTypes
<1>4. /\ \A i \in Slots : w.processes[i] = NoProcess /\ w.child[i] = NoChild /\ w.peer[i] = 0
      /\ w.failed = FALSE /\ w.forks = MaxProcesses /\ w.last_process = 0
  OBVIOUS
<1> HIDE DEF w
<1>5. Agrees(w) BY <1>4 DEF Agrees, NoProcess, NoChild
<1>6. Leads(w) /\ Told(w) BY <1>4 DEF Leads, Told, NoProcess, NoChild, Alive
<1>7. \A i \in Slots : w.child[i].st # "fatal" BY <1>4 DEF NoChild
<1>8. Dense(w, ForkFailed, FatalExit)
  <2>1. Sound(w, ForkFailed, FatalExit) BY <1>2, <1>3, <1>5, <1>6, <1>7 DEF Sound, Book
  <2>2. w.forks = MaxProcesses - w.last_process BY <1>4, ProcessAssumption
  <2>3. 1..w.last_process = {} BY <1>4
  <2> QED BY <1>4, <2>1, <2>2, <2>3 DEF Dense
<1>9. NoneNew(w) /\ Retired(w)
  BY <1>4 DEF NoneNew, Retired, RetiredAt, NoProcess, NoChild, Alive
<1>10. /\ Good(v, ForkFailed, FatalExit) /\ v.failed = FALSE
       /\ v.full \/ Cardinality(ServingOf(v)) >= WorkerProcesses
  BY <1>8, <1>9, FirstWorkers
<1> HIDE DEF v
<1>11. Counters(v) /\ DOMAIN v = WorkFields BY <1>10 DEF Good, Sound, Book, TableTypes
<1>12. /\ {MaxSignals, MaxCrashes, MaxFatals, MaxForkFails} \subseteq Int
       /\ ~(MaxFatals < MaxFatals) /\ ~(MaxForkFails < MaxForkFails)
  BY ProcessAssumption
<1>13. /\ budget \in Budgets /\ budget.forks = MaxForkFails /\ budget.fatal = MaxFatals
       /\ budget.full = v.full
  BY <1>1, <1>11, <1>12 DEF Budgets, Counters
<1>14. /\ Joins(Table) /\ Table.forks = 0 /\ Table.conf = master.conf
       /\ Table.reuse /\ Table.reuse \in BOOLEAN
  BY TableJoins DEF TableIs
<1> DEFINE t == Table
<1>15. /\ SameGood(t, v) /\ t.running = v.running /\ t.flags = v.flags
       /\ t.new_binary = v.new_binary /\ t.noaccepting = v.noaccepting
       /\ t.live = v.live /\ t.delay = v.delay /\ t.sigio = v.sigio
       /\ t.conf = v.conf /\ t.pending = {} /\ t.full = v.full
       /\ t.failed \in BOOLEAN /\ t.skip \in BOOLEAN /\ t.spawned = 0 /\ t.forks = 0
       /\ t.reuse \in BOOLEAN
  BY <1>1, <1>13, <1>14 DEF Joins, SameGood, MasterOf, KernelOf
<1> HIDE DEF t
<1>16. Counters(t)
  <2>1. /\ t.running \in BOOLEAN /\ t.flags \subseteq Flags
        /\ t.new_binary \in {-1, 0} \cup Slots /\ t.noaccepting \in BOOLEAN
        /\ t.live \in BOOLEAN /\ t.delay \in Delays
        /\ t.sigio \in 0..(WorkerProcesses + 2)
    BY <1>11, <1>15 DEF Counters
  <2>2. t.pending \subseteq Signals /\ t.conf \in BOOLEAN /\ t.full \in BOOLEAN
    BY <1>11, <1>15 DEF Counters
  <2>3. /\ t.forks \in Nat /\ t.spawned \in {0} \cup Slots /\ t.reuse \in BOOLEAN
        /\ t.failed \in BOOLEAN /\ t.skip \in BOOLEAN
    BY <1>15
  <2> QED BY <2>1, <2>2, <2>3 DEF Counters
<1>17. Good(t, ForkFailed, FatalExit) /\ ServingOf(t) = ServingOf(v)
  <2>1. ForkFailed \/ v.failed => ForkFailed \/ t.failed BY <1>10
  <2> QED BY <1>10, <1>15, <1>16, <2>1, TableGood
<1>18. Enough(t, ForkFailed, FatalExit) BY <1>10, <1>15, <1>17 DEF Enough
<1> QED BY <1>12, <1>13, <1>17, <1>18 DEF IInv, t

LEMMA StepKeeps == IInv /\ [Next]_vars => IInv'
<1> SUFFICES ASSUME IInv, [Next]_vars PROVE IInv' OBVIOUS
<1>1. pending \subseteq Signals
  <2>1. Table.pending \subseteq Signals BY DEF IInv, Good, Sound, Counters
  <2> QED BY <2>1, TableJoins DEF TableIs, Joins
<1>2. /\ budget \in Budgets /\ budget.signals \in Int /\ budget.crashes \in Int
      /\ budget.fatal \in Int
  BY DEF IInv, Budgets
<1>3. CASE Wake BY <1>3, WakeKeeps
<1>4. CASE Alarm
  <2>1. pending' \subseteq Signals BY <1>1, <1>4 DEF Alarm, Signals
  <2>2. master' = master /\ kernel' = kernel /\ budget' = budget BY <1>4 DEF Alarm
  <2> QED BY <1>2, <2>1, <2>2, SignalsKeep
<1>5. ASSUME NEW sig \in Commands, Command(sig) PROVE IInv'
  <2>1. pending' \subseteq Signals BY <1>1, <1>5 DEF Command, Signals
  <2>2. master' = master /\ kernel' = kernel BY <1>5 DEF Command
  <2> DEFINE n == budget.signals - 1
  <2>3. budget' = [budget EXCEPT !.signals = n] /\ n \in Int BY <1>2, <1>5 DEF Command
  <2> HIDE DEF n
  <2>4. /\ budget' \in Budgets /\ budget'.forks = budget.forks
        /\ budget'.fatal = budget.fatal /\ budget'.full = budget.full
    BY <1>2, <2>3 DEF Budgets
  <2> QED BY <2>1, <2>2, <2>4, SignalsKeep
<1>6. ASSUME NEW i \in Slots, Finish(i) PROVE IInv'
  <2>1. /\ kernel.child[i].st = "run" /\ master' = master /\ budget' = budget
        /\ kernel' = [kernel EXCEPT !.child[i].st = "zombie"]
    BY <1>6 DEF Finish
  <2>2. pending' \subseteq Signals BY <1>1, <1>6 DEF Finish, Signals
  <2>3. budget'.fatal <= budget.fatal BY <1>2, <2>1
  <2> QED BY <1>2, <2>1, <2>2, <2>3, ChildKeeps
<1>7. ASSUME NEW i \in Slots, NEW how \in {"zombie", "fatal", "stuck"}, Crash(i, how)
      PROVE  IInv'
  <2>1. /\ kernel.child[i].st = "run" /\ master' = master
        /\ kernel' = [kernel EXCEPT !.child[i].st = how]
    BY <1>7 DEF Crash
  <2>2. pending' \subseteq Signals BY <1>1, <1>7 DEF Crash, Signals
  <2> DEFINE n == IF how = "fatal" THEN budget.fatal - 1 ELSE budget.fatal
  <2>3. budget' = [budget EXCEPT !.crashes = budget.crashes - 1, !.fatal = n]
    BY <1>7 DEF Crash
  <2>4. n \in Int /\ n <= budget.fatal /\ (how = "fatal" => n < budget.fatal) BY <1>2
  <2> HIDE DEF n
  <2> DEFINE m == budget.crashes - 1
  <2>5. /\ budget' \in Budgets /\ budget'.forks = budget.forks /\ budget'.full = budget.full
        /\ budget'.fatal = n
    <3>1. m \in Int BY <1>2
    <3>2. budget' = [budget EXCEPT !.crashes = m, !.fatal = n] BY <2>3
    <3> HIDE DEF m
    <3> QED BY <1>2, <2>4, <3>1, <3>2 DEF Budgets
  <2>6. budget'.fatal <= budget.fatal /\ (how = "fatal" => budget'.fatal < budget.fatal)
    BY <2>4, <2>5
  <2> QED BY <2>1, <2>2, <2>5, <2>6, ChildKeeps
<1>8. CASE UNCHANGED vars
  <2>1. /\ master' = master /\ kernel' = kernel /\ pending' = pending /\ budget' = budget
    BY <1>8 DEF vars
  <2> QED BY <1>1, <1>2, <2>1, SignalsKeep
<1> QED BY <1>3, <1>4, <1>5, <1>6, <1>7, <1>8 DEF Next

LEMMA Invariant == Spec => []IInv
<1>1. Init => IInv BY InitHolds
<1>2. IInv /\ [Next]_vars => IInv' BY StepKeeps
<1> QED BY <1>1, <1>2, PTL DEF Spec

-----------------------------------------------------------------------------
(* The properties                                                          *)

\* What the invariant says of the variables
LEMMA InvariantSays ==
    ASSUME IInv
    PROVE  /\ TableTypes(Table) /\ Agrees(Table) /\ Counters(Table) /\ Retired(Table)
           /\ ~ForkFailed => Told(Table)
           /\ Joins(Table)
<1>1. Good(Table, ForkFailed, FatalExit) BY DEF IInv
<1>2. Joins(Table) BY TableJoins DEF TableIs
<1>3. ~Table.failed BY <1>2 DEF Joins
<1> QED BY <1>1, <1>2, <1>3 DEF Good, Sound, Book

\* However the signals, the deaths and the failed forks interleave, whenever
\* the master sleeps the slots of ngx_processes[] in use whose status has not
\* been taken are exactly those that have a child, all of them below
\* ngx_last_process, where the loops of ngx_signal_worker_processes() and
\* ngx_reap_children() look.
THEOREM TableAgrees == Spec => []ProcessTable
<1>1. IInv => ProcessTable
  <2> SUFFICES ASSUME IInv PROVE ProcessTable OBVIOUS
  <2>1. /\ TableTypes(Table) /\ Agrees(Table) /\ Counters(Table) /\ Joins(Table)
    BY InvariantSays
  <2>2. /\ master.delay \in Delays /\ master.sigio \in 0..(WorkerProcesses + 2)
        /\ master.flags \subseteq Flags /\ master.new_binary \in {-1, 0} \cup Slots
        /\ pending \subseteq Signals
    BY <2>1 DEF Counters, Joins
  <2>3. kernel.peer \in [Slots -> {0} \cup Slots] BY <2>1 DEF TableTypes, Joins
  <2>4. \A i \in Slots :
          /\ kernel.child[i].st # "none" <=>
                master.processes[i].pid /\ ~master.processes[i].exited
          /\ master.processes[i].pid => i <= master.last_process
    BY <2>1 DEF Agrees, Joins
  <2> QED BY <2>2, <2>3, <2>4 DEF ProcessTable
<1> QED BY <1>1, Invariant, PTL

\* A reload (reconfigure in ngx_master_process_cycle()) retires every worker
\* that runs the old configuration: it is marked as exiting, hence never
\* respawned, and, unless a fork() has failed, has been told to stop.
THEOREM OldRetired == Spec => []OldWorkersRetired
<1>1. IInv => OldWorkersRetired
  <2> SUFFICES ASSUME IInv, NEW i \in Slots,
                      Alive(kernel.child[i]), kernel.child[i].old,
                      ~master.processes[i].detached
               PROVE  /\ master.processes[i].exiting
                      /\ ForkFailed \/ kernel.child[i].cmd # "none"
    BY DEF OldWorkersRetired
  <2>1. /\ Retired(Table) /\ Joins(Table) /\ (~ForkFailed => Told(Table))
    BY InvariantSays
  <2>2. Table.child = kernel.child /\ Table.processes = master.processes
    BY <2>1 DEF Joins
  <2>3. master.processes[i].exiting BY <2>1, <2>2 DEF Retired, RetiredAt
  <2>4. ForkFailed \/ kernel.child[i].cmd # "none" BY <2>1, <2>2, <2>3 DEF Told
  <2> QED BY <2>3, <2>4
<1> QED BY <1>1, Invariant, PTL

\* ... and nobody else: as long as no fork() has failed, a channel leads to
\* the child of its own slot, so a worker that is not marked as exiting has
\* been told nothing.
THEOREM OnlyOldTold == Spec => []NobodyElseTold
<1>1. IInv => NobodyElseTold
  <2> SUFFICES ASSUME IInv, ~ForkFailed, NEW i \in Slots,
                      Alive(kernel.child[i]), ~master.processes[i].exiting
               PROVE  kernel.child[i].cmd = "none"
    BY DEF NobodyElseTold
  <2>1. Joins(Table) /\ Told(Table) BY InvariantSays
  <2>2. Table.child = kernel.child /\ Table.processes = master.processes
    BY <2>1 DEF Joins
  <2> QED BY <2>1, <2>2 DEF Told
<1> QED BY <1>1, Invariant, PTL

\* The master keeps its number of workers: ngx_reap_children() respawns the
\* ones that die, a reload starts the new ones before the old ones go, and a
\* new binary that dies after WINCH brings them back.
THEOREM WorkersSuffice == Spec => []EnoughWorkers
<1>1. IInv => EnoughWorkers
  <2> SUFFICES ASSUME IInv PROVE EnoughWorkers OBVIOUS
  <2>1. Joins(Table) BY InvariantSays
  <2>2. /\ Table.flags = master.flags /\ Table.noaccepting = master.noaccepting
        /\ Table.processes = master.processes /\ ~Table.failed
        /\ Table.full = budget.full
    BY <2>1 DEF Joins
  <2>3. ServingOf(Table) = Serving BY <2>2 DEF ServingOf, Serving
  <2>4. ShuttingDown(Table) <=> ShuttingDown(master) BY <2>2 DEF ShuttingDown
  <2>5. \/ ~master.running
        \/ Enough(Table, ForkFailed, FatalExit)
        \/ "restart" \in master.flags /\ ~master.conf
    BY DEF IInv
  <2>6. Enough(Table, ForkFailed, FatalExit) =>
           \/ ShuttingDown(master) \/ master.noaccepting
           \/ ForkFailed \/ budget.full \/ budget.fatal < MaxFatals
           \/ Cardinality(Serving) >= WorkerProcesses
    BY <2>2, <2>3, <2>4 DEF Enough, FatalExit
  <2> QED BY <2>5, <2>6 DEF EnoughWorkers, Asleep
<1> QED BY <1>1, Invariant, PTL
=============================================================================
