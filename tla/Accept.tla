------------------------------- MODULE Accept -------------------------------
(***************************************************************************)
(* Worker processes that accept clients: the iteration of the event loop   *)
(* (ngx_process_events_and_timers), the accept mutex and the accept        *)
(* handler (event/ngx_event_accept.c), composed with the connection pool   *)
(* (ConnPool) and the connection limits (LimitConn).  A session is here    *)
(* what it does to those: it is started, connects to an upstream, tries    *)
(* the next one, and ends; StreamProxy has the rest.                       *)
(*                                                                         *)
(* A worker is alone with its memory: a step is a handler, or a part of    *)
(* one between two accesses to what workers share (the mutex, the queue of *)
(* the listening socket, the zones).                                       *)
(***************************************************************************)
EXTENDS ConnPool, LimitConn

CONSTANTS
    Configurations,     \* a set of the records below, one is chosen
    Reserve,            \* connection_n / 8
    Peers               \* upstream servers a session may try

(* workers: how many; mutex: accept_mutex (only with several workers);     *)
(* multi: multi_accept; dry: limit_conn_dry_run; limits: one limit for     *)
(* each zone; clients and faults bound the clients that come and what goes *)
(* wrong.  With several workers and no mutex the kernel decides whom it    *)
(* wakes (EPOLLEXCLUSIVE), which is not modelled.                          *)
ASSUME AcceptAssumption ==
    /\ Reserve \in 1..ConnectionN
    /\ Peers \in Nat \ {0}
    /\ \A k \in Configurations :
          /\ {k.workers, k.clients, k.faults} \subseteq Nat
          /\ {k.mutex, k.multi, k.dry} \subseteq BOOLEAN
          /\ k.limits \in Seq(Nat \ {0})
          /\ k.workers > 1 <=> k.mutex

VARIABLES
    conf,       \* the configuration
    worker,     \* the memory of each worker
    owner,      \* ngx_accept_mutex: the worker that locked it, or 0
    zones,      \* limit_conn: the counter of each zone
    lost,       \* for the properties: counts nobody will lower
    net         \* clients in the queue of the listening socket, and bounds

vars == <<conf, worker, owner, zones, lost, net>>

Workers == 1..conf.workers
Zones == DOMAIN conf.limits

(* The memory of a worker after ngx_event_process_init(), at the head of   *)
(* its cycle.  held: ngx_accept_mutex_held; listening: the accept event is *)
(* active; disabled: ngx_accept_disabled, kept at 0 while negative; post:  *)
(* NGX_POST_EVENTS in this iteration; soon: epoll_wait() has a timeout     *)
(* because of the mutex; timer: the accept event's timer; batch: events    *)
(* epoll_wait() returned, in any order, c = 0 for the listening socket;    *)
(* cur, k: the session being started and the number of zones it has        *)
(* passed; ret: where the accept handler, or the session's, returns to.    *)
Fresh(listening) ==
    [pc |-> "posted", held |-> FALSE, listening |-> listening,
     disabled |-> 0, post |-> FALSE, soon |-> FALSE, timer |-> FALSE,
     batch |-> {}, posted |-> <<>>, cur |-> 0, k |-> 0, ret |-> "posted",
     free |-> [i \in Connections |-> i],
     inst |-> [c \in Connections |-> 1],
     taken |-> [c \in Connections |-> 0],
     conn |-> [c \in Connections |-> Unused]]

Alive(w) == worker[w].pc # "dead"
Clients(wk) == {c \in Connections : wk.conn[c].use = "client"}
Active(wk) == {c \in Connections : wk.conn[c].active}

Init ==
    /\ conf \in Configurations
    /\ worker = [w \in Workers |-> Fresh(~conf.mutex)]
    /\ owner = 0
    /\ zones = [z \in Zones |-> 0]
    /\ lost = [z \in Zones |-> 0]
    /\ net = [backlog |-> 0, clients |-> conf.clients, faults |-> conf.faults]

Become(w, wk) == worker' = [worker EXCEPT ![w] = wk]
Fault == net.faults > 0 /\ net' = [net EXCEPT !.faults = @ - 1]

-----------------------------------------------------------------------------
(* Sessions.  The operators return a worker record. *)

(* the upstream's connection is closed before the client's *)
CloseSession(wk, c) ==
    LET u == wk.conn[c].peer
        v == IF u = 0 THEN wk ELSE CloseConnection(wk, u)
    IN CloseConnection(v, c)

(* One attempt to connect: the upstream refuses at once, which takes and   *)
(* frees a connection, or it is connecting or already connected.           *)
Refused(wk, c) ==
    [CloseConnection(GetConnection(wk, "upstream"), Head(wk.free))
        EXCEPT !.conn[c].tries = @ - 1]
Connecting(wk, c, connected) ==
    LET u == Head(wk.free)
        v == GetConnection(wk, "upstream")
    IN [v EXCEPT !.conn[u].peer = c, !.conn[u].active = TRUE,
                 !.conn[c].use = "client", !.conn[c].peer = u,
                 !.conn[c].active = connected]

(* n refusals in a row *)
RefusedTimes(wk, c, n) ==
    LET r[i \in 0..n] == IF i = 0 THEN wk ELSE Refused(r[i - 1], c) IN r[n]
Tries(wk, c) ==
    {RefusedTimes(wk, c, n) :
        n \in IF wk.free = <<>> THEN {0} ELSE 0..wk.conn[c].tries}

(* What ngx_stream_proxy_connect() may come to for session c: refusals as  *)
(* long as there are peers to try, then a connection, or the end of the    *)
(* session (no peer or no free connection left, or an error).              *)
Connects(wk, c) ==
    {CloseSession(v, c) : v \in Tries(wk, c)} \cup
    {Connecting(v, c, b) :
        v \in {u \in Tries(wk, c) : u.free # <<>> /\ u.conn[c].tries > 0},
        b \in BOOLEAN}

NextUpstream(wk, c) ==
    Connects([CloseConnection(wk, wk.conn[c].peer)
                EXCEPT !.conn[c].peer = 0, !.conn[c].tries = @ - 1], c)

(* what the handler of an event of connection d may do *)
Handled(wk, d) ==
    LET c == IF wk.conn[d].use = "client" THEN d ELSE wk.conn[d].peer
        relaying == wk.conn[c].active
    IN IF relaying THEN {wk, CloseSession(wk, c)}
       ELSE {[wk EXCEPT !.conn[c].active = TRUE]} \cup NextUpstream(wk, c)

(* what a timer of session c may do *)
TimedOut(wk, c) ==
    IF wk.conn[c].active THEN {CloseSession(wk, c)} ELSE NextUpstream(wk, c)

(* The zones are lowered by the cleanups of the sessions a step ends: of   *)
(* clients of wk that are not in v any more.                               *)
Ended(wk, v) ==
    {c \in Connections : wk.conn[c].use \in {"new", "client"}
                         /\ v.conn[c].use = "free"}

(* worker w goes from wk to v, with the effect on the zones *)
Session(w, wk, v) ==
    /\ Become(w, v)
    /\ zones' = Lowered(zones, wk, Ended(wk, v))
    /\ UNCHANGED lost

-----------------------------------------------------------------------------
(* The iteration of a worker *)

Disable(wk) == [wk EXCEPT !.listening = FALSE]
Enable(wk) == [wk EXCEPT !.listening = TRUE]

(* ngx_trylock_accept_mutex() *)
Locked(wk) ==
    [IF wk.held THEN wk ELSE Enable(wk) EXCEPT !.held = TRUE, !.post = TRUE]
NotLocked(wk) ==
    [IF wk.held THEN Disable(wk) ELSE wk
        EXCEPT !.held = FALSE, !.post = FALSE, !.soon = TRUE]

(* before epoll_wait(): the accept mutex, unless too few are free *)
Lock(w) ==
    LET wk == [worker[w] EXCEPT !.pc = "poll", !.post = FALSE, !.soon = FALSE]
        tries == conf.mutex /\ wk.disabled = 0
    IN /\ worker[w].pc = "posted"
       /\ worker[w].posted = <<>>
       /\ Become(w, IF ~tries
                    THEN [wk EXCEPT !.disabled = IF conf.mutex /\ @ > 0
                                                 THEN @ - 1 ELSE @]
                    ELSE IF owner = 0 THEN Locked(wk) ELSE NotLocked(wk))
       /\ owner' = IF tries /\ owner = 0 THEN w ELSE owner
       /\ UNCHANGED <<conf, zones, lost, net>>

(* epoll_wait(): the listening socket if clients wait, and any of the      *)
(* sessions' sockets.  It blocks without an event unless it has a timeout; *)
(* every session has a timer.                                              *)
Waiting(wk) == wk.listening /\ net.backlog > 0
Timeout(wk) == wk.soon \/ wk.timer \/ Clients(wk) # {}

(* with NGX_POST_EVENTS the events are only queued *)
Poll(w) ==
    LET wk == [worker[w] EXCEPT !.taken = [c \in Connections |-> 0]]
    IN /\ wk.pc = "poll"
       /\ \E ready \in SUBSET Active(wk) :
             /\ ready # {} \/ Waiting(wk) \/ Timeout(wk)
             /\ IF wk.post
                THEN \E q \in SetToSeqs(ready) :
                        Become(w, [wk EXCEPT
                            !.posted = q, !.ret = "unlock",
                            !.pc = IF Waiting(wk) THEN "accept" ELSE "unlock"])
                ELSE Become(w, [wk EXCEPT
                        !.pc = "batch",
                        !.batch = {[c |-> c, inst |-> wk.inst[c]] : c \in ready}
                                    \cup (IF Waiting(wk)
                                          THEN {[c |-> 0, inst |-> 0]} ELSE {})])
       /\ UNCHANGED <<conf, owner, zones, lost, net>>

(* one event of the batch *)
Dispatch(w) ==
    /\ worker[w].pc = "batch"
    /\ \E e \in worker[w].batch :
          LET wk == [worker[w] EXCEPT !.batch = @ \ {e}, !.ret = "batch"]
          IN IF e.c = 0
             THEN /\ Become(w, IF wk.listening THEN [wk EXCEPT !.pc = "accept"]
                                               ELSE wk)
                  /\ UNCHANGED <<zones, lost>>
             ELSE \E v \in IF Passes(wk, e) THEN Handled(wk, e.c) ELSE {wk} :
                     Session(w, wk, v)
    /\ UNCHANGED <<conf, owner, net>>

(* shmtx_unlock() changes the word only if it holds this worker's pid *)
\* mutant: it is cleared whoever owns it
UnlockedByAny(w) == 0

Unlocked(w) == IF owner = w THEN 0 ELSE owner

Unlock(w) ==
    LET wk == worker[w]
    IN /\ \/ wk.pc = "unlock"
          \/ wk.pc = "batch" /\ wk.batch = {}
       /\ owner' = IF wk.held THEN Unlocked(w) ELSE owner
       /\ Become(w, [wk EXCEPT !.pc = "timers", !.post = FALSE, !.ret = "timers"])
       /\ UNCHANGED <<conf, zones, lost, net>>

(* ngx_event_expire_timers(): any of the timers that are set may be due *)
Expire(w) ==
    LET wk == worker[w]
    IN /\ wk.pc = "timers"
       /\ \E c \in Clients(wk) : \E v \in TimedOut(wk, c) : Session(w, wk, v)
       /\ UNCHANGED <<conf, owner, net>>

AcceptTimer(w) ==
    /\ worker[w].pc = "timers"
    /\ worker[w].timer
    /\ Become(w, [Enable(worker[w]) EXCEPT !.timer = FALSE, !.pc = "accept"])
    /\ UNCHANGED <<conf, owner, zones, lost, net>>

TimersDone(w) ==
    /\ worker[w].pc = "timers"
    /\ Become(w, [worker[w] EXCEPT !.pc = "posted", !.ret = "posted"])
    /\ UNCHANGED <<conf, owner, zones, lost, net>>

(* ngx_event_process_posted(): the first of the queue *)
Posted(w) ==
    LET wk == [worker[w] EXCEPT !.posted = Tail(@)]
        c == Head(worker[w].posted)
    IN /\ worker[w].pc = "posted"
       /\ worker[w].posted # <<>>
       /\ IF wk.conn[c].use = "new"
          THEN /\ Become(w, [wk EXCEPT !.pc = "start", !.cur = c, !.k = 0])
               /\ UNCHANGED <<zones, lost>>
          ELSE \E v \in Handled(wk, c) : Session(w, wk, v)
       /\ UNCHANGED <<conf, owner, net>>

-----------------------------------------------------------------------------
(* ngx_event_accept(), one accept() at a time *)

Return(wk) == [wk EXCEPT !.pc = wk.ret, !.cur = 0, !.k = 0]
(* the end of an iteration of its loop *)
Again(wk) == [wk EXCEPT !.pc = IF conf.multi THEN "accept" ELSE wk.ret,
                        !.cur = 0, !.k = 0]

NobodyWaits(w) ==                                               \* EAGAIN
    /\ worker[w].pc = "accept"
    /\ net.backlog = 0
    /\ Become(w, Return(worker[w]))
    /\ UNCHANGED <<conf, owner, zones, lost, net>>

Aborted(w) ==                                                   \* ECONNABORTED
    /\ worker[w].pc = "accept"
    /\ net.backlog > 0
    /\ net' = [net EXCEPT !.backlog = @ - 1]
    /\ Become(w, Again(worker[w]))
    /\ UNCHANGED <<conf, owner, zones, lost>>

\* mutant: without the mutex, nothing brings the sockets back
NoFilesForgotten(wk) ==
    IF conf.mutex THEN [Disable(wk) EXCEPT !.held = FALSE, !.disabled = 1]
                  ELSE Disable(wk)

NoFiles(wk) ==
    IF conf.mutex THEN [Disable(wk) EXCEPT !.held = FALSE, !.disabled = 1]
                  ELSE [Disable(wk) EXCEPT !.timer = TRUE]

OutOfFiles(w) ==                                                \* EMFILE, ENFILE
    /\ worker[w].pc = "accept"
    /\ net.backlog > 0
    /\ Fault
    /\ owner' = IF worker[w].held THEN Unlocked(w) ELSE owner
    /\ Become(w, Return(NoFiles(worker[w])))
    /\ UNCHANGED <<conf, zones, lost>>

(* A client is accepted.  Without a free connection it is dropped; an      *)
(* allocation may fail (then, within the bound); else its session is       *)
(* posted, or started at once.                                             *)
Accepted(w) ==
    LET used == [worker[w] EXCEPT !.disabled =
                    IF Reserve > Len(worker[w].free)
                    THEN Reserve - Len(worker[w].free) ELSE 0]
        c == Head(used.free)
        wk == GetConnection(used, "new")
    IN /\ worker[w].pc = "accept"
       /\ net.backlog > 0
       /\ \/ /\ used.free = <<>>
             /\ Become(w, Return(used))
             /\ net' = [net EXCEPT !.backlog = @ - 1]
          \/ /\ used.free # <<>>
             /\ net.faults > 0
             /\ Become(w, Return(CloseAcceptedConnection(wk, c)))
             /\ net' = [net EXCEPT !.backlog = @ - 1, !.faults = @ - 1]
          \/ /\ used.free # <<>>
             /\ Become(w, IF conf.mutex
                          THEN Again([wk EXCEPT !.posted = Append(@, c)])
                          ELSE [wk EXCEPT !.pc = "start", !.cur = c, !.k = 0])
             /\ net' = [net EXCEPT !.backlog = @ - 1]
       /\ UNCHANGED <<conf, owner, zones, lost>>

-----------------------------------------------------------------------------
(* ngx_stream_session_handler(): the phases.  It returns to the loop of    *)
(* the accept handler, or to the queue of posted events.                   *)

Started(wk) == IF conf.mutex THEN Return(wk) ELSE Again(wk)

(* one zone of limit_conn *)
Pass(w) ==
    LET wk == worker[w]
        z == wk.k + 1
    IN /\ wk.pc = "start"
       /\ wk.k < Len(conf.limits)
       /\ ~LimitReached(zones[z], conf.limits[z])
       /\ zones' = [zones EXCEPT ![z] = @ + 1]
       /\ Become(w, [wk EXCEPT !.k = z, !.conn[wk.cur].cleanup = <<z>> \o @])
       /\ UNCHANGED <<conf, owner, lost, net>>

(* the limit is reached, or there is no memory for the key's first node *)
Reject(w) ==
    LET wk == worker[w]
        z == wk.k + 1
        v == CleanupAll(wk, wk.cur)
        rest == Lowered(zones, wk, {wk.cur})
    IN /\ wk.pc = "start"
       /\ wk.k < Len(conf.limits)
       /\ \/ /\ LimitReached(zones[z], conf.limits[z])
             /\ UNCHANGED net
          \/ /\ zones[z] = 0
             /\ Fault
       /\ IF conf.dry
          THEN /\ Become(w, [v EXCEPT !.k = Len(conf.limits)])
               /\ zones' = rest
          ELSE /\ Become(w, Started(CloseSession(v, wk.cur)))
               /\ zones' = Lowered(rest, v, {wk.cur})
       /\ UNCHANGED <<conf, owner, lost>>

(* the counter is raised and its cleanup cannot be allocated: the session  *)
(* ends with an error and nobody lowers this counter any more              *)
Leak(w) ==
    LET wk == worker[w]
        z == wk.k + 1
    IN /\ wk.pc = "start"
       /\ wk.k < Len(conf.limits)
       /\ ~LimitReached(zones[z], conf.limits[z])
       /\ Fault
       /\ zones' = Lowered([zones EXCEPT ![z] = @ + 1], wk, {wk.cur})
       /\ lost' = [lost EXCEPT ![z] = @ + 1]
       /\ Become(w, Started(CloseSession(wk, wk.cur)))
       /\ UNCHANGED <<conf, owner>>

(* the content phase: ngx_stream_proxy_handler() *)
Proxy(w) ==
    LET wk == worker[w]
    IN /\ wk.pc = "start"
       /\ wk.k = Len(conf.limits)
       /\ \E v \in Connects([wk EXCEPT !.conn[wk.cur].tries = Peers], wk.cur) :
             Session(w, wk, Started(v))
       /\ UNCHANGED <<conf, owner, net>>

-----------------------------------------------------------------------------
(* The world, and the master *)

Arrive ==
    /\ net.clients > 0
    /\ net' = [net EXCEPT !.clients = @ - 1, !.backlog = @ + 1]
    /\ UNCHANGED <<conf, worker, owner, zones, lost>>

(* A worker dies; the counts of its sessions are lost with it. *)
Holders(z) == {h \in Workers \X Connections :
                  z \in ToSet(worker[h[1]].conn[h[2]].cleanup)}
Crash(w) ==
    /\ Alive(w)
    /\ Fault
    /\ Become(w, [Fresh(FALSE) EXCEPT !.pc = "dead"])
    /\ lost' = [z \in Zones |->
                    lost[z] + Cardinality({h \in Holders(z) : h[1] = w})]
    /\ UNCHANGED <<conf, owner, zones>>

(* the master unlocks the dead worker's mutex and starts another *)
Released(w) == IF owner = w THEN 0 ELSE owner

Respawn(w) ==
    /\ ~Alive(w)
    /\ owner' = Released(w)
    /\ Become(w, Fresh(~conf.mutex))
    /\ UNCHANGED <<conf, zones, lost, net>>

Step(w) ==
    \/ Lock(w) \/ Poll(w) \/ Dispatch(w) \/ Unlock(w)
    \/ Expire(w) \/ AcceptTimer(w) \/ TimersDone(w) \/ Posted(w)
    \/ NobodyWaits(w) \/ Aborted(w) \/ OutOfFiles(w) \/ Accepted(w)
    \/ Pass(w) \/ Reject(w) \/ Leak(w) \/ Proxy(w)

Next ==
    \/ Arrive
    \/ \E w \in Workers : Step(w) \/ Crash(w) \/ Respawn(w)

(* A worker that is not blocked goes on, a timer that is set is due some   *)
(* day, and the master learns of a death.                                  *)
Fairness ==
    \A w \in 1..Max({k.workers : k \in Configurations}) :
        /\ WF_vars(w \in Workers /\ Step(w))
        /\ SF_vars(w \in Workers /\ AcceptTimer(w))
        /\ WF_vars(w \in Workers /\ Respawn(w))

Spec == Init /\ [][Next]_vars /\ Fairness

-----------------------------------------------------------------------------
(* Properties *)

(* The free list and the connections in use divide the pool, whatever      *)
(* handler closes what while its events are queued: nothing is freed       *)
(* twice, no queue refers to a connection that is free, and the two sides  *)
(* of a session know each other.                                           *)
PoolIntact ==
    /\ owner \in {0} \cup Workers
    /\ \A w \in Workers : LET wk == worker[w] IN
          /\ wk.disabled \in 0..Reserve
          /\ IsInjective(wk.free) /\ IsInjective(wk.posted)
          /\ ToSet(wk.free) = {c \in Connections : wk.conn[c].use = "free"}
          /\ ToSet(wk.posted) \cap ToSet(wk.free) = {}
          /\ wk.pc = "start" => wk.conn[wk.cur].use = "new"
          /\ \A c \in Connections :
                /\ wk.conn[c].use = "upstream"
                      => wk.conn[wk.conn[c].peer].peer = c
                /\ wk.conn[c].use = "client"
                      => wk.conn[wk.conn[c].peer].use = "upstream"

(* An event that the stale check lets through is of the connection that    *)
(* epoll_wait() reported, or of one that got its structure after an even   *)
(* number of reuses in this batch: what a single bit can tell.             *)
StaleCaught ==
    \A w \in Workers : \A e \in worker[w].batch :
        worker[w].pc = "batch" /\ e.c # 0 /\ Passes(worker[w], e)
            => worker[w].taken[e.c] \in {0, 2}

(* ngx_accept_mutex_held says whether the listening sockets are enabled    *)
(* (a worker with the flag and without the sockets would never enable them *)
(* again), the mutex's owner has the flag, and a worker that takes the     *)
(* events of its listening sockets as the mutex's owner is the owner.      *)
HeldIffListening ==
    conf.mutex => \A w \in Workers :
        /\ Alive(w) => worker[w].held = worker[w].listening
        /\ Alive(w) /\ owner = w => worker[w].held
        /\ worker[w].post /\ worker[w].pc \in {"poll", "accept"} => owner = w

(* Each zone counts the sessions that hold it, and what was lost with a    *)
(* worker or a failed allocation: nothing is lowered twice when a later    *)
(* zone rejects the session, and no zone exceeds its limit.                *)
ConnCounted ==
    \A z \in Zones : /\ zones[z] = Cardinality(Holders(z)) + lost[z]
                     /\ zones[z] <= conf.limits[z]

(* Clients in the queue are accepted (or dropped) some day, through full   *)
(* pools, EMFILE and deaths of workers.  The exception is in the code: a   *)
(* worker that met EMFILE with the mutex skips the mutex once, with no     *)
(* timeout for epoll_wait(); without a session it sleeps, and so may all.  *)
Asleep(w) ==
    /\ worker[w].pc = "poll"
    /\ ~worker[w].listening
    /\ ~Timeout(worker[w])
Stranded == conf.mutex /\ \A w \in Workers : Asleep(w)
PendingServed == net.backlog > 0 ~> (net.backlog = 0 \/ Stranded)
=============================================================================
