---------------------------- MODULE ProcessCycle ----------------------------
(***************************************************************************)
(* The master process of nginx: its table of children, the flags its       *)
(* signal handlers raise and the cycle that starts, signals, reaps and     *)
(* respawns workers, reloads the configuration, runs a new binary and      *)
(* shuts down (os/unix/ngx_process_cycle.c, os/unix/ngx_process.c).        *)
(*                                                                         *)
(* The signals the master handles are blocked except inside sigsuspend(),  *)
(* so a handler never interrupts the body of the cycle: one iteration, the *)
(* handlers of the signals that end its sigsuspend() included, is one      *)
(* action (Wake).  Children run, crash and obey concurrently with it.      *)
(*                                                                         *)
(* A child is named by the slot it was forked in.  Of a channel only the   *)
(* descriptor number is kept: after a failed fork() the slot still holds   *)
(* the number of a descriptor that has been closed, which the kernel gives *)
(* to the next socketpair().                                               *)
(***************************************************************************)
EXTENDS Integers, FiniteSets, SequencesExt

CONSTANTS
    WorkerProcesses,    \* ccf->worker_processes
    MaxProcesses,       \* NGX_MAX_PROCESSES
    MaxSignals,         \* bound: signals the administrator sends
    MaxCrashes,         \* bound: children that crash or get stuck
    MaxFatals,          \* bound: those that exit with the fatal code
    MaxForkFails        \* bound: iterations in which fork() fails

ASSUME ProcessAssumption ==
    /\ WorkerProcesses \in Nat \ {0}
    /\ MaxProcesses \in Nat \ {0}
    /\ {MaxSignals, MaxCrashes, MaxFatals, MaxForkFails} \subseteq Nat

Slots == 1..MaxProcesses

(* the signals of the administrator, and those of the kernel *)
Commands == {"QUIT", "TERM", "HUP", "USR1", "USR2", "WINCH"}
Signals  == Commands \cup {"CHLD", "ALRM", "IO"}

(* the termination delay: doubled at each SIGALRM; beyond 1000 ms workers   *)
(* are killed, so it is capped at the first value that is                  *)
Delays == {0, 50, 100, 200, 400, 800, 1600}

VARIABLES
    master,     \* the memory of the master process
    kernel,     \* children and channels
    pending,    \* signals sent to the master and not delivered yet
    budget      \* what is left of the bounds; full: the table has once been full

vars == <<master, kernel, pending, budget>>

-----------------------------------------------------------------------------
(* State *)

(* One entry of ngx_processes[]; pid is pid # -1, chan the descriptor      *)
(* channel[0] (0 for -1).                                                  *)
NoProcess == [pid |-> FALSE, exiting |-> FALSE, exited |-> FALSE,
              respawn |-> FALSE, just_spawn |-> FALSE, detached |-> FALSE,
              chan |-> 0]

(* A child: absent (never forked, or its status already taken by           *)
(* waitpid), running, stuck in a handler, or a zombie; "fatal" is a zombie *)
(* with exit code 2.  cmd is what it was told; old: it runs a              *)
(* configuration that has been replaced.                                   *)
NoChild == [st |-> "none", cmd |-> "none", old |-> FALSE]
Child(how) == [st |-> how, cmd |-> "none", old |-> FALSE]

Alive(c) == c.st \in {"run", "stuck"}

Flags == {"reap", "sigalrm", "terminate", "quit", "reconfigure", "restart",
          "reopen", "change_binary", "noaccept"}

-----------------------------------------------------------------------------
(* Operations of the master, on a working record w that joins master and   *)
(* kernel: w.forks is the number of forks that will still succeed in this  *)
(* iteration.                                                              *)

(* The descriptor socketpair() gets: the lowest that is closed, which may  *)
(* be one that a slot still names (w.reuse), or one that no slot names.    *)
FreeChan(w) ==
    LET named == {w.processes[i].chan : i \in Slots}
        closed == {d \in Slots : w.peer[d] = 0 /\ (w.reuse \/ d \notin named)}
    IN Min(closed)

(* ngx_close_channel(): whatever the number stands for now is closed *)
CloseChannel(w, i) ==
    LET d == w.processes[i].chan
    IN [w EXCEPT !.peer = IF d = 0 THEN @ ELSE [@ EXCEPT ![d] = 0],
                 !.processes[i].chan = 0]

(* the types ngx_spawn_process() knows *)
SpawnFlags(type) ==
    [respawn    |-> type \in {"RESPAWN", "JUST_RESPAWN"},
     just_spawn |-> type \in {"JUST_SPAWN", "JUST_RESPAWN"},
     detached   |-> type = "DETACHED"]

(* socketpair() and fork() for slot s; a detached child has no channel *)
Fork(w, s, detached) ==
    LET d == IF detached THEN 0 ELSE FreeChan(w)
    IN IF w.forks = 0
       THEN [w EXCEPT !.processes[s].chan = d, !.failed = TRUE]
       ELSE [w EXCEPT !.forks = @ - 1,
                      !.child[s] = Child("run"),
                      !.peer = IF d = 0 THEN @ ELSE [@ EXCEPT ![d] = s],
                      !.processes[s].chan = d,
                      !.processes[s].pid = TRUE,
                      !.processes[s].exited = FALSE]

(* ngx_spawn_process() in the slot of a child that is respawned *)
Respawn(w, s) == Fork(w, s, FALSE)

(* ngx_spawn_process() in the first free slot; the slot is 0 on failure *)
FreeSlot(w) ==
    LET free == {s \in 1..w.last_process : ~w.processes[s].pid}
    IN IF free = {} THEN w.last_process + 1
                    ELSE CHOOSE s \in free : \A t \in free : s <= t

Spawn(w, type) ==
    LET s == FreeSlot(w)
        f == SpawnFlags(type)
        v == Fork(w, s, f.detached)
    IN IF s > MaxProcesses THEN [w EXCEPT !.spawned = 0, !.full = TRUE]
       ELSE IF w.forks = 0 THEN [w EXCEPT !.spawned = 0, !.failed = TRUE]
       ELSE [v EXCEPT !.spawned = s,
                      !.processes[s].exiting = FALSE,
                      !.processes[s].respawn = f.respawn,
                      !.processes[s].just_spawn = f.just_spawn,
                      !.processes[s].detached = f.detached,
                      !.last_process = IF s = @ + 1 THEN s ELSE @]

StartWorkerProcesses(w, type) ==
    FoldLeft(LAMBDA v, n : Spawn(v, type), w, [n \in 1..WorkerProcesses |-> n])

(* What a command does to child i: a child that is not there any more (or  *)
(* a zombie) does not hear it; SIGKILL needs nobody's cooperation.         *)
Tell(w, i, sig) ==
    IF ~Alive(w.child[i]) THEN w
    ELSE CASE sig = "KILL" ->
                [w EXCEPT !.child[i].st = "zombie", !.pending = @ \cup {"CHLD"}]
           [] sig = "TERM" -> [w EXCEPT !.child[i].cmd = "terminate"]
           [] sig = "QUIT" /\ w.child[i].cmd = "none" ->
                [w EXCEPT !.child[i].cmd = "quit"]
           [] OTHER -> w

(* ngx_signal_worker_processes() for one slot: by the channel when its     *)
(* descriptor is open, by kill() otherwise and for SIGKILL.                *)
Send(sig, w, i) ==
    LET p == w.processes[i]
        marked(v) == IF sig = "USR1" THEN v
                     ELSE [v EXCEPT !.processes[i].exiting = TRUE]
    IN IF p.exiting /\ sig = "QUIT" THEN w
       ELSE IF sig # "KILL" /\ p.chan # 0 /\ w.peer[p.chan] # 0
       THEN marked(Tell(w, w.peer[p.chan], sig))
       ELSE IF w.child[i].st = "none"                           \* ESRCH
       THEN [w EXCEPT !.processes[i].exited = TRUE,
                      !.processes[i].exiting = FALSE,
                      !.flags = @ \cup {"reap"}]
       ELSE marked(Tell(w, i, sig))

\* mutants: just_spawn is never cleared; it does not hold the signal back,
\* which then reaches a new worker without marking it
SignalOneKeepsNew(sig, w, i) ==
    LET p == w.processes[i]
    IN IF p.detached \/ ~p.pid \/ p.just_spawn THEN w ELSE Send(sig, w, i)
SignalOneTellsNew(sig, w, i) ==
    LET p == w.processes[i]
        v == [w EXCEPT !.processes[i].just_spawn = FALSE]
    IN IF p.detached \/ ~p.pid THEN w
       ELSE IF p.just_spawn THEN Tell(v, i, sig) ELSE Send(sig, w, i)

SignalOne(sig, w, i) ==
    LET p == w.processes[i]
    IN IF p.detached \/ ~p.pid THEN w
       ELSE IF p.just_spawn THEN [w EXCEPT !.processes[i].just_spawn = FALSE]
       ELSE Send(sig, w, i)

SignalWorkerProcesses(w, sig) ==
    FoldLeft(LAMBDA v, i : SignalOne(sig, v, i), w,
             [i \in 1..w.last_process |-> i])

(* ngx_reap_children() for one slot; nothing reads the fields of a free    *)
(* slot, so they are reset with its pid.                                   *)
ShuttingDown(w) == {"terminate", "quit"} \cap w.flags # {}

\* mutants: the end of the table shrinks whichever slot is freed; noaccepting
\* is cleared before it is tested
DiscardShrinks(w, i) ==
    [w EXCEPT !.processes[i] = NoProcess, !.last_process = @ - 1]
DiscardClearsFirst(w, i) ==
    LET upgrade_died == w.new_binary = i
    IN [w EXCEPT !.new_binary = IF upgrade_died THEN 0 ELSE @,
                 !.noaccepting = IF upgrade_died THEN FALSE ELSE @,
                 !.processes[i] = NoProcess,
                 !.last_process = IF i = @ THEN @ - 1 ELSE @]

Discard(w, i) ==
    LET upgrade_died == w.new_binary = i
        v == [w EXCEPT !.new_binary = IF upgrade_died THEN 0 ELSE @,
                       !.flags = IF upgrade_died /\ w.noaccepting
                                 THEN @ \cup {"restart"} ELSE @,
                       !.noaccepting = IF upgrade_died THEN FALSE ELSE @]
    IN [v EXCEPT !.processes[i] = NoProcess,
                 !.last_process = IF i = @ THEN @ - 1 ELSE @]

ReapOne(w, i) ==
    LET p == w.processes[i]
        v == IF p.detached THEN w ELSE CloseChannel(w, i)
        again == Respawn(v, i)
    IN IF ~p.pid THEN w
       ELSE IF ~p.exited
       THEN [w EXCEPT !.live = @ \/ p.exiting \/ ~p.detached]
       ELSE IF p.respawn /\ ~p.exiting /\ ~ShuttingDown(w)
       THEN [again EXCEPT !.live = @ \/ v.forks > 0]
       ELSE Discard(v, i)

ReapChildren(w) ==
    FoldLeft(ReapOne, [w EXCEPT !.live = FALSE], [i \in 1..w.last_process |-> i])

-----------------------------------------------------------------------------
(* The signal handler: what each signal does to the master's memory.       *)

(* ngx_process_get_status(): every zombie at once, however many SIGCHLD    *)
(* were merged into one.  A child that exits with the fatal code is not    *)
(* respawned.                                                              *)
Exited(p, c) ==
    [p EXCEPT !.exited = TRUE, !.respawn = p.respawn /\ c.st # "fatal"]

\* mutant: one waitpid() for each SIGCHLD
GetStatusOnce(w) ==
    LET dead == {i \in Slots : w.child[i].st \in {"zombie", "fatal"}}
        i == Min(dead)
    IN IF dead = {} THEN w
       ELSE [w EXCEPT !.processes[i] = Exited(@, w.child[i]),
                      !.child[i] = NoChild]

GetStatus(w) ==
    LET dead == {i \in Slots : w.child[i].st \in {"zombie", "fatal"}}
    IN [w EXCEPT
          !.processes = [i \in Slots |->
              IF i \in dead THEN Exited(@[i], w.child[i]) ELSE @[i]],
          !.child = [i \in Slots |-> IF i \in dead THEN NoChild ELSE @[i]]]

FlagOf == [QUIT |-> "quit", TERM |-> "terminate", HUP |-> "reconfigure",
           USR1 |-> "reopen", USR2 |-> "change_binary", WINCH |-> "noaccept",
           CHLD |-> "reap", ALRM |-> "sigalrm"]

SignalHandler(w) ==
    LET heard == {s \in w.pending \ {"IO"} : s # "USR2" \/ w.new_binary <= 0}
        v == [w EXCEPT !.flags = @ \cup {FlagOf[s] : s \in heard},
                       !.pending = {}]
    IN IF "CHLD" \in heard THEN GetStatus(v) ELSE v

-----------------------------------------------------------------------------
(* The body of the cycle, from sigsuspend() to the next one.               *)

Clear(w, f) == [w EXCEPT !.flags = @ \ {f}]

(* terminate: signal the workers, and again, harder, after each delay;     *)
(* sigio swallows the wake-ups the exits and channels cause in between.    *)
Terminate(w) ==
    LET v == [w EXCEPT !.delay = IF @ = 0 THEN 50 ELSE @]
    IN IF v.sigio > 0 THEN [v EXCEPT !.sigio = @ - 1]
       ELSE SignalWorkerProcesses([v EXCEPT !.sigio = WorkerProcesses + 2],
                                  IF v.delay > 1000 THEN "KILL" ELSE "TERM")

(* reconfigure: w.conf says whether ngx_init_cycle() accepts the new       *)
(* configuration.  TRUE in "skip" stands for the code's continue.          *)
Reconfigure(w) ==
    LET v == Clear(w, "reconfigure")
        loaded == [v EXCEPT !.child = [i \in Slots |->
                      IF @[i].st = "none" THEN @[i] ELSE [@[i] EXCEPT !.old = TRUE]]]
        started == StartWorkerProcesses(loaded, "JUST_RESPAWN")
    IN IF v.new_binary # 0
       THEN [StartWorkerProcesses(v, "RESPAWN")
                EXCEPT !.noaccepting = FALSE, !.skip = TRUE]
       ELSE IF ~v.conf THEN [v EXCEPT !.skip = TRUE]
       ELSE SignalWorkerProcesses([started EXCEPT !.live = TRUE], "QUIT")

Restart(w) ==
    [StartWorkerProcesses(Clear(w, "restart"), "RESPAWN") EXCEPT !.live = TRUE]

Reopen(w) == SignalWorkerProcesses(Clear(w, "reopen"), "USR1")

(* ngx_exec_new_binary() returns NGX_INVALID_PID, -1, when it fails *)
ChangeBinary(w) ==
    LET v == Spawn(Clear(w, "change_binary"), "DETACHED")
    IN [v EXCEPT !.new_binary = IF v.spawned = 0 THEN -1 ELSE v.spawned]

NoAccept(w) ==
    SignalWorkerProcesses([Clear(w, "noaccept") EXCEPT !.noaccepting = TRUE],
                          "QUIT")

(* the commands that do not end the master, in the order of the code *)
ObeyOne(w, f) ==
    IF w.skip \/ f \notin w.flags THEN w
    ELSE CASE f = "reconfigure" -> Reconfigure(w)
           [] f = "restart" -> Restart(w)
           [] f = "reopen" -> Reopen(w)
           [] f = "change_binary" -> ChangeBinary(w)
           [] f = "noaccept" -> NoAccept(w)
Obey(w) ==
    FoldLeft(ObeyOne, w,
             <<"reconfigure", "restart", "reopen", "change_binary", "noaccept">>)

Cycle(w) ==
    LET v == IF "reap" \in w.flags THEN ReapChildren(Clear(w, "reap")) ELSE w
    IN IF ~v.live /\ ShuttingDown(v) THEN [v EXCEPT !.running = FALSE]
       ELSE IF "terminate" \in v.flags THEN Terminate(v)
       ELSE IF "quit" \in v.flags THEN SignalWorkerProcesses(v, "QUIT")
       ELSE Obey(v)

\* mutant: the delay does not grow
ArmTimerSameDelay(w) ==
    IF w.delay > 0 /\ "sigalrm" \in w.flags
    THEN [Clear(w, "sigalrm") EXCEPT !.sigio = 0] ELSE w

(* the head of the loop, before the next sigsuspend() *)
ArmTimer(w) ==
    IF w.delay > 0 /\ "sigalrm" \in w.flags
    THEN [Clear(w, "sigalrm") EXCEPT
             !.sigio = 0, !.delay = IF @ = 1600 THEN @ ELSE 2 * @]
    ELSE w

-----------------------------------------------------------------------------
(* The working record and the variables it is made of. *)

MasterOf(w) ==
    [running |-> w.running, processes |-> w.processes,
     last_process |-> w.last_process, flags |-> w.flags,
     new_binary |-> w.new_binary, noaccepting |-> w.noaccepting,
     live |-> w.live, delay |-> w.delay, sigio |-> w.sigio, conf |-> w.conf]
KernelOf(w) == [child |-> w.child, peer |-> w.peer]

Working(forks, conf, reuse) ==
    [running |-> master.running, processes |-> master.processes,
     last_process |-> master.last_process, flags |-> master.flags,
     new_binary |-> master.new_binary, noaccepting |-> master.noaccepting,
     live |-> master.live, delay |-> master.delay, sigio |-> master.sigio,
     child |-> kernel.child, peer |-> kernel.peer, pending |-> pending,
     forks |-> forks, conf |-> conf, reuse |-> reuse, failed |-> FALSE, full |-> budget.full,
     skip |-> FALSE, spawned |-> 0]

-----------------------------------------------------------------------------
(* Actions *)

(* the first workers are started before the first sigsuspend() *)
Init ==
    LET w == [running |-> TRUE, processes |-> [i \in Slots |-> NoProcess],
              last_process |-> 0, flags |-> {}, new_binary |-> 0,
              noaccepting |-> FALSE, live |-> TRUE, delay |-> 0, sigio |-> 0,
              child |-> [i \in Slots |-> NoChild],
              peer |-> [d \in Slots |-> 0], pending |-> {},
              forks |-> MaxProcesses, conf |-> TRUE, reuse |-> TRUE, failed |-> FALSE,
              full |-> FALSE, skip |-> FALSE, spawned |-> 0]
        v == StartWorkerProcesses(w, "RESPAWN")
    IN /\ master = MasterOf(v)
       /\ kernel = KernelOf(v)
       /\ pending = {}
       /\ budget = [signals |-> MaxSignals, crashes |-> MaxCrashes,
                    fatal |-> MaxFatals, forks |-> MaxForkFails,
                    full |-> v.full]

(* One iteration of the master.  Forks succeed, or, within the budget, all *)
(* but the first few of the iteration fail.                                *)
Wake ==
    /\ master.running
    /\ pending # {}
    /\ \E forks \in (IF budget.forks = 0 THEN {} ELSE 0..WorkerProcesses)
                        \cup {2 * MaxProcesses},
          conf \in IF "HUP" \in pending THEN BOOLEAN ELSE {TRUE},
          reuse \in IF budget.forks = MaxForkFails THEN {TRUE} ELSE BOOLEAN :
          \E w \in {ArmTimer(Cycle(SignalHandler(Working(forks, conf, reuse))))} :
             /\ forks < 2 * MaxProcesses => w.failed
             /\ master' = MasterOf(w)
             /\ kernel' = KernelOf(w)
             /\ pending' = w.pending
             /\ budget' = [budget EXCEPT !.forks = IF w.failed THEN @ - 1 ELSE @,
                                         !.full = w.full]

(* the administrator *)
Command(sig) ==
    /\ master.running
    /\ budget.signals > 0
    /\ sig \notin pending
    /\ pending' = pending \cup {sig}
    /\ budget' = [budget EXCEPT !.signals = @ - 1]
    /\ UNCHANGED <<master, kernel>>

(* the interval timer the head of the loop arms *)
Alarm ==
    /\ master.running
    /\ master.delay > 0
    /\ "ALRM" \notin pending
    /\ pending' = pending \cup {"ALRM"}
    /\ UNCHANGED <<master, kernel, budget>>

(* A child does what it was told and exits: a worker reads the command     *)
(* from its channel (the read wakes the master with SIGIO), closes what it *)
(* has to and leaves its cycle.                                            *)
Finish(i) ==
    /\ kernel.child[i].st = "run"
    /\ kernel.child[i].cmd # "none"
    /\ kernel' = [kernel EXCEPT !.child[i].st = "zombie"]
    /\ pending' = pending \cup {"CHLD", "IO"}
    /\ UNCHANGED <<master, budget>>

(* a child crashes, exits with the fatal code 2 or gets stuck *)
Crash(i, how) ==
    /\ budget.crashes > 0
    /\ how = "fatal" => budget.fatal > 0
    /\ kernel.child[i].st = "run"
    /\ kernel' = [kernel EXCEPT !.child[i].st = how]
    /\ pending' = IF how = "stuck" THEN pending ELSE pending \cup {"CHLD"}
    /\ budget' = [budget EXCEPT !.crashes = @ - 1,
                                !.fatal = IF how = "fatal" THEN @ - 1 ELSE @]
    /\ UNCHANGED master

Next ==
    \/ Wake
    \/ Alarm
    \/ \E sig \in Commands : Command(sig)
    \/ \E i \in Slots : Finish(i)
    \/ \E i \in Slots, how \in {"zombie", "fatal", "stuck"} : Crash(i, how)

(* The kernel delivers signals and timers; a worker that is not stuck      *)
(* finishes what it was told.  Delivered is what a Wake step does to the   *)
(* pending signals and no other action does (all others only add to a set  *)
(* that is not empty); an iteration that kills workers leaves SIGCHLD.     *)
Delivered ==
    /\ master.running
    /\ pending # {}
    /\ pending' \in {{}, {"CHLD"}}

Fairness ==
    /\ WF_pending(Delivered)
    /\ WF_vars(Alarm)
    /\ \A i \in Slots : WF_vars(Finish(i))

Spec == Init /\ [][Next]_vars /\ Fairness

-----------------------------------------------------------------------------
(* Properties *)

Asleep == master.running
ForkFailed == budget.forks < MaxForkFails

(* Types, and the table agrees with the kernel whenever the master sleeps: *)
(* exactly the slots in use whose status has not been taken have a child,  *)
(* and all of them lie below ngx_last_process, where the loops that signal *)
(* and reap look (a child outside would never be told to stop).            *)
ProcessTable ==
    /\ master.delay \in Delays
    /\ master.sigio \in 0..(WorkerProcesses + 2)
    /\ master.flags \subseteq Flags
    /\ master.new_binary \in {-1, 0} \cup Slots
    /\ pending \subseteq Signals
    /\ kernel.peer \in [Slots -> {0} \cup Slots]
    /\ \A i \in Slots :
          /\ kernel.child[i].st # "none" <=>
                master.processes[i].pid /\ ~master.processes[i].exited
          /\ master.processes[i].pid => i <= master.last_process

(* A reload retires the old configuration: whenever the master sleeps,     *)
(* every worker that still runs a replaced configuration is marked as      *)
(* exiting, hence not respawned, and has been told to stop.  (After a      *)
(* failed fork() the command may have gone to another worker: the channel  *)
(* number of the dead one is closed twice and belongs to somebody else.)   *)
OldWorkersRetired ==
    Asleep => \A i \in Slots :
        Alive(kernel.child[i]) /\ kernel.child[i].old /\ ~master.processes[i].detached
            => /\ master.processes[i].exiting
               /\ ForkFailed \/ kernel.child[i].cmd # "none"

(* ... and only the old one: a worker the master does not regard as        *)
(* exiting has been told nothing, again as long as no fork() has failed.   *)
NobodyElseTold ==
    Asleep /\ ~ForkFailed => \A i \in Slots :
        Alive(kernel.child[i]) /\ ~master.processes[i].exiting
            => kernel.child[i].cmd = "none"

(* After QUIT the master ends when its workers do, after TERM even if      *)
(* workers are stuck (they are killed when the delay has grown past 1 s).  *)
(* A reload whose forks all fail leaves live = 1 without a child whose     *)
(* exit could correct it, so this holds only while forks succeed.          *)
Stuck == \E i \in Slots : kernel.child[i].st = "stuck"
ShutdownEnds ==
    ShuttingDown(master) ~>
        (\/ ~master.running
         \/ Stuck /\ "terminate" \notin master.flags
         \/ ForkFailed)

(* A worker that dies without having been told to is replaced, whatever    *)
(* signals arrive with its SIGCHLD, unless it exited with the fatal code,  *)
(* the master is told to end, or fork() failed.                            *)
Missing(i) ==
    /\ Asleep
    /\ ~ShuttingDown(master)
    /\ ~ForkFailed
    /\ master.processes[i].pid /\ master.processes[i].respawn
    /\ ~master.processes[i].exiting
    /\ kernel.child[i].st \in {"none", "zombie"}
WorkersReplaced == \A i \in Slots : Missing(i) ~> ~Missing(i)

(* The master keeps its number of workers: unless it is shutting down or   *)
(* the administrator has told the workers to go (WINCH), at least          *)
(* WorkerProcesses slots hold workers that are, or are about to be,        *)
(* replaced when they die.  So a new binary that dies after the old        *)
(* workers were sent away brings them back in the iteration that reaps it; *)
(* only a configuration rejected in that iteration leaves it for later.    *)
Serving == {i \in Slots : /\ master.processes[i].pid
                          /\ master.processes[i].respawn
                          /\ ~master.processes[i].exiting}
EnoughWorkers ==
    \/ ~Asleep \/ ShuttingDown(master) \/ master.noaccepting
    \/ "restart" \in master.flags /\ ~master.conf
    \/ ForkFailed \/ budget.full \/ budget.fatal < MaxFatals
    \/ Cardinality(Serving) >= WorkerProcesses

(* The master does not exit while a worker runs that was never told to     *)
(* stop.                                                                   *)
MasterExitsLast ==
    ~master.running => \A i \in Slots :
        Alive(kernel.child[i]) /\ ~master.processes[i].detached
            => kernel.child[i].cmd # "none"
=============================================================================
