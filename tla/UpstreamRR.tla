------------------------------ MODULE UpstreamRR ------------------------------
(***************************************************************************)
(* Round robin balancing over the peers of an upstream that is shared by   *)
(* all workers in a zone.  Sessions, each in a worker of its own, get a    *)
(* peer, connect to it, and free it when the connection fails or ends.     *)
(*                                                                         *)
(* Getting a peer writes the whole list under its rwlock; freeing one, or  *)
(* telling that it answered, takes the rwlock as a reader and the peer's   *)
(* own lock.  Without a zone the same code runs without locks in a single  *)
(* process, which gives some of the behaviours modelled here.              *)
(*                                                                         *)
(* ngx_time() is each worker's own: the time at which an iteration of its  *)
(* event loop began.  A handler that waits for a lock, or runs behind      *)
(* others, works with a time that has passed, and the peers' times are     *)
(* those of whoever wrote them.                                            *)
(***************************************************************************)
EXTENDS Integers, FiniteSets, FiniteSetsExt

CONSTANTS
    Session,
    Primary, Backup,     \* numbers of primary and of backup peers
    Weight, MaxConns, MaxFails, FailTimeout, Down,   \* the peers' parameters
    NextUpstream,        \* proxy_next_upstream
    NextTries,           \* proxy_next_upstream_tries, 0 is off
    Epoch,               \* the time at start, far from the initial 0 of checked
    MaxLag,              \* seconds by which a worker's time may be behind
    MaxTime              \* bound: seconds the clock counts

Peer  == 1 .. Primary + Backup
Group == {"primary", "backup"}

ASSUME PeersAssumption ==
    /\ IsFiniteSet(Session)
    /\ Primary \in Nat \ {0} /\ Backup \in Nat
    /\ Weight \in [Peer -> Nat \ {0}]
    /\ MaxConns \in [Peer -> Nat] /\ MaxFails \in [Peer -> Nat]
    /\ FailTimeout \in [Peer -> Nat] /\ Down \in [Peer -> BOOLEAN]
    /\ NextUpstream \in BOOLEAN /\ NextTries \in Nat /\ MaxLag \in Nat /\ MaxTime \in Nat
    /\ Epoch \in Nat /\ \A p \in Peer : Epoch > FailTimeout[p]

PeersOf(g) == IF g = "primary" THEN 1 .. Primary ELSE Primary + 1 .. Primary + Backup
Single == Primary = 1 /\ Backup = 0
NoPeer == 0

VARIABLES
    \* ngx_stream_upstream_rr_peer_t and ngx_stream_upstream_rr_peers_t
    current_weight, effective_weight, conns, fails, accessed, checked,
    rwlock, lock,
    \* a session's ngx_stream_upstream_rr_peer_data_t and ngx_peer_connection_t
    group,       \* rrp->peers
    current, tried, tries,
    held,        \* sessions whose peer's sockaddr is set
    \* where the sessions are
    pc,
    job,         \* why a session locks its peer: "failed", "ended" or "connected"
    loaded,      \* the value of conns a session is about to decrement, 0 outside
    now,         \* the real time
    clock,       \* ngx_cached_time of the session's worker
    \* history
    answered,    \* peers that accepted a connection since they last failed
    probe        \* when a session was given a peer that was disabled, or 0

peers   == <<current_weight, effective_weight, conns, fails, accessed, checked>>
locks   == <<rwlock, lock>>
session == <<group, current, tried, tries, held>>
vars == <<peers, locks, session, pc, job, loaded, now, clock, answered, probe>>

Goto(s, l) == pc' = [pc EXCEPT ![s] = l]

\* The session's worker is in one of its handlers
Running(s) == pc[s] \notin {"start", "dial", "up", "done"}

\* ngx_epoll_process_events() returns an event of the session and updates the
\* time.  Its handler may be behind others: seconds may pass before it does
\* anything.
Wakes(s) == clock' = [clock EXCEPT ![s] = now]

-----------------------------------------------------------------------------
(* ngx_rwlock_t: the number of readers, or -1 for a writer.                *)

WLocked == -1
WFree(l) == l = 0
MutantRFree(l) == TRUE
RFree(l) == l # WLocked
MutantUnlocked(l) == IF l = WLocked THEN 0 ELSE l
Unlocked(l) == IF l = WLocked THEN 0 ELSE l - 1

-----------------------------------------------------------------------------
(* ngx_stream_upstream_get_round_robin_peer().                             *)

\* ngx_stream_upstream_tries(), limited by proxy_next_upstream_tries
Tries == LET all == Cardinality({p \in Peer : ~Down[p]})
         IN IF NextTries > 0 /\ all > NextTries THEN NextTries ELSE all

\* A client is accepted
Start(s) ==
    /\ pc[s] = "start" /\ Goto(s, "get") /\ Wakes(s)
    /\ UNCHANGED <<peers, locks, session, job, loaded, now, answered, probe>>

GetLock(s) ==
    /\ pc[s] = "get" /\ WFree(rwlock[group[s]]) /\ Goto(s, "pick")
    /\ rwlock' = [rwlock EXCEPT ![group[s]] = WLocked]
    /\ UNCHANGED <<peers, lock, session, job, loaded, now, clock, answered, probe>>

Disabled(p) == MaxFails[p] > 0 /\ fails[p] >= MaxFails[p]

MutantFull(p) == MaxConns[p] > 0 /\ conns[p] > MaxConns[p]
Full(p) == MaxConns[p] > 0 /\ conns[p] >= MaxConns[p]

\* The peers the scan does not skip; a single peer is not disabled by failures
Usable(s) ==
    {p \in PeersOf(group[s]) :
        /\ ~Down[p] /\ ~Full(p)
        /\ ~Single => /\ p \notin tried[s]
                      /\ ~(Disabled(p) /\ clock[s] - checked[p] <= FailTimeout[p])}

\* The first of the peers in U whose weights are the greatest
Best(p, U) == \A q \in U : LET a == current_weight[p] + effective_weight[p]
                               b == current_weight[q] + effective_weight[q]
                           IN a > b \/ (a = b /\ p <= q)

MutantTotal(U) == MapThenSumSet(LAMBDA p : Weight[p], U)
Total(U) == MapThenSumSet(LAMBDA p : effective_weight[p], U)

\* if (now - best->checked > best->fail_timeout) best->checked = now
MutantChecked(s, p) == checked[p]
Checked(s, p) == IF clock[s] - checked[p] > FailTimeout[p] THEN clock[s] ELSE checked[p]

MutantTried(s, p) == tried[s]
Tried(s, p) == tried[s] \cup {p}

\* ngx_stream_upstream_get_peer(), or the single peer
Pick(s) ==
    /\ pc[s] = "pick" /\ Usable(s) # {} /\ Goto(s, "take")
    /\ LET U == Usable(s) IN \E best \in U :
          /\ Best(best, U)
          /\ current' = [current EXCEPT ![s] = best]
          /\ probe' = [probe EXCEPT ![s] = IF ~Single /\ Disabled(best) THEN now ELSE 0]
          /\ IF Single THEN UNCHANGED <<current_weight, effective_weight, checked, tried>>
             ELSE /\ current_weight' =
                       [p \in Peer |->
                           current_weight[p] + (IF p \in U THEN effective_weight[p] ELSE 0)
                                             - (IF p = best THEN Total(U) ELSE 0)]
                  /\ effective_weight' =
                       [p \in Peer |-> IF p \in U /\ effective_weight[p] < Weight[p]
                                       THEN effective_weight[p] + 1 ELSE effective_weight[p]]
                  /\ tried' = [tried EXCEPT ![s] = Tried(s, best)]
                  /\ checked' = [checked EXCEPT ![best] = Checked(s, best)]
    /\ UNCHANGED <<conns, fails, accessed, locks, group, tries, held, job, loaded, now, clock, answered>>

\* peer->conns++, unlock
Take(s) ==
    /\ pc[s] = "take" /\ Goto(s, "dial")
    /\ conns' = [conns EXCEPT ![current[s]] = @ + 1]
    /\ held' = held \cup {s}
    /\ rwlock' = [rwlock EXCEPT ![group[s]] = Unlocked(@)]
    /\ UNCHANGED <<current_weight, effective_weight, fails, accessed, checked, lock,
                   group, current, tried, tries, job, loaded, now, clock, answered, probe>>

\* No peer: go on with the backup peers
ToBackup(s) ==
    /\ pc[s] = "pick" /\ Usable(s) = {} /\ group[s] = "primary" /\ Backup > 0
    /\ group' = [group EXCEPT ![s] = "backup"] /\ tried' = [tried EXCEPT ![s] = {}]
    /\ rwlock' = [rwlock EXCEPT !["primary"] = Unlocked(@)]
    /\ Goto(s, "get")
    /\ UNCHANGED <<peers, lock, current, tries, held, job, loaded, now, clock, answered, probe>>

\* ... or there are none, and NGX_BUSY ends the session.  The recursive call
\* for the backup peers, which has tried none of them before, returns to one
\* that locks the primary peers again.
Busy(s) ==
    /\ pc[s] = "pick" /\ Usable(s) = {} /\ (group[s] = "backup" \/ Backup = 0)
    /\ rwlock' = [rwlock EXCEPT ![group[s]] = Unlocked(@)]
    /\ Goto(s, IF group[s] = "backup" /\ tried[s] = {} THEN "relock" ELSE "done")
    /\ UNCHANGED <<peers, lock, session, job, loaded, now, clock, answered, probe>>

\* That lock is released at once: all it does is wait
Relock(s) ==
    /\ pc[s] = "relock" /\ WFree(rwlock["primary"]) /\ Goto(s, "done")
    /\ UNCHANGED <<peers, locks, session, job, loaded, now, clock, answered, probe>>

-----------------------------------------------------------------------------
(* What becomes of the connection, as far as the balancer is told.         *)

Tell(s, why) ==
    /\ Goto(s, "enter") /\ job' = [job EXCEPT ![s] = why] /\ Wakes(s)
    /\ UNCHANGED <<peers, locks, session, loaded, now, probe>>

\* The peer refuses or does not answer in time: ngx_stream_proxy_next_upstream()
DialFails(s) == pc[s] = "dial" /\ Tell(s, "failed") /\ UNCHANGED answered

\* The session is finalized before the peer has answered: no socket, no
\* memory, the end of the worker
DialAborted(s) == pc[s] = "dial" /\ Tell(s, "ended") /\ UNCHANGED answered

\* Connected: ngx_stream_proxy_init_upstream() notifies the balancer
DialDone(s) == /\ pc[s] = "dial" /\ Tell(s, "connected")
               /\ answered' = answered \cup {current[s]}

\* ngx_stream_proxy_finalize()
SessionEnds(s) == pc[s] = "up" /\ Tell(s, "ended") /\ UNCHANGED answered

-----------------------------------------------------------------------------
(* ngx_stream_upstream_free_round_robin_peer() and                         *)
(* ngx_stream_upstream_notify_round_robin_peer().                          *)

EnterRead(s) ==
    /\ pc[s] = "enter" /\ RFree(rwlock[group[s]]) /\ Goto(s, "lockpeer")
    /\ rwlock' = [rwlock EXCEPT ![group[s]] = @ + 1]
    /\ UNCHANGED <<peers, lock, session, job, loaded, now, clock, answered, probe>>

MutantPeerFree(l) == TRUE
PeerFree(l) == l = 0

LockPeer(s) ==
    /\ pc[s] = "lockpeer" /\ PeerFree(lock[current[s]])
    /\ lock' = [lock EXCEPT ![current[s]] = WLocked]
    /\ Goto(s, IF job[s] = "connected" THEN "update" ELSE "load")
    /\ UNCHANGED <<peers, rwlock, session, job, loaded, now, clock, answered, probe>>

\* peer->conns-- reads ...
Load(s) ==
    /\ pc[s] = "load" /\ Goto(s, "update")
    /\ loaded' = [loaded EXCEPT ![s] = conns[current[s]]]
    /\ UNCHANGED <<peers, locks, session, job, now, clock, answered, probe>>

\* A failure costs weight / max_fails of the effective weight, down to 0
MutantReduced(p) == effective_weight[p] - Weight[p] \div MaxFails[p]
Reduced(p) == IF MaxFails[p] = 0 THEN effective_weight[p]
              ELSE LET w == effective_weight[p] - Weight[p] \div MaxFails[p]
                   IN IF w < 0 THEN 0 ELSE w

\* ... and writes, after the failure or the success has been recorded
Update(s) ==
    /\ pc[s] = "update" /\ Goto(s, "leave")
    /\ LET p == current[s]
           failed == job[s] = "failed" /\ ~Single
           live   == job[s] # "failed" /\ (job[s] = "ended" => ~Single)
                                       /\ accessed[p] < checked[p]
       IN /\ fails' = [fails EXCEPT ![p] = IF failed THEN @ + 1 ELSE IF live THEN 0 ELSE @]
          /\ accessed' = [accessed EXCEPT ![p] = IF failed THEN clock[s] ELSE @]
          /\ checked'  = [checked  EXCEPT ![p] = IF failed THEN clock[s] ELSE @]
          /\ effective_weight' = [effective_weight EXCEPT ![p] = IF failed THEN Reduced(p) ELSE @]
          /\ answered' = IF job[s] = "failed" THEN answered \ {p} ELSE answered
          /\ IF job[s] = "connected" THEN UNCHANGED <<conns, held>>
             ELSE /\ conns' = [conns EXCEPT ![p] = loaded[s] - 1]
                  /\ held' = held \ {s}
    /\ loaded' = [loaded EXCEPT ![s] = 0]
    /\ UNCHANGED <<current_weight, locks, group, current, tried, tries, job, now, clock, probe>>

Fewer(n) == IF Single THEN 0 ELSE IF n > 0 THEN n - 1 ELSE n

\* Unlock, count the try and, after a failure, try another peer
Leave(s) ==
    /\ pc[s] = "leave"
    /\ lock' = [lock EXCEPT ![current[s]] = Unlocked(@)]
    /\ rwlock' = [rwlock EXCEPT ![group[s]] = Unlocked(@)]
    /\ tries' = IF job[s] = "connected" THEN tries ELSE [tries EXCEPT ![s] = Fewer(@)]
    /\ Goto(s, IF job[s] = "connected" THEN "up"
               ELSE IF job[s] = "failed" /\ tries'[s] > 0 /\ NextUpstream THEN "get" ELSE "done")
    /\ UNCHANGED <<peers, group, current, tried, held, job, loaded, now, clock, answered, probe>>

\* A second passes; no iteration takes longer than MaxLag, and a worker that is
\* idle goes through another one
Tick ==
    /\ now < Epoch + MaxTime /\ now' = now + 1
    /\ \A s \in Session : Running(s) => now' - clock[s] <= MaxLag
    /\ clock' = [s \in Session |-> IF Running(s) THEN clock[s] ELSE now']
    /\ UNCHANGED <<peers, locks, session, pc, job, loaded, answered, probe>>

Done == (\A s \in Session : pc[s] = "done") /\ UNCHANGED vars

-----------------------------------------------------------------------------
\* ngx_stream_upstream_init_round_robin(), and
\* ngx_stream_upstream_init_round_robin_peer() for every session
Init ==
    /\ current_weight = [p \in Peer |-> 0] /\ effective_weight = Weight
    /\ conns = [p \in Peer |-> 0] /\ fails = conns /\ accessed = conns /\ checked = conns
    /\ rwlock = [g \in Group |-> 0] /\ lock = [p \in Peer |-> 0]
    /\ group = [s \in Session |-> "primary"] /\ current = [s \in Session |-> NoPeer]
    /\ tried = [s \in Session |-> {}] /\ tries = [s \in Session |-> Tries] /\ held = {}
    /\ pc = [s \in Session |-> "start"] /\ job = [s \in Session |-> "ended"]
    /\ loaded = [s \in Session |-> 0] /\ now = Epoch
    /\ clock = [s \in Session |-> Epoch]
    /\ answered = Peer /\ probe = loaded

Get(s)  == GetLock(s) \/ Pick(s) \/ Take(s) \/ ToBackup(s) \/ Busy(s) \/ Relock(s)
Dial(s) == DialFails(s) \/ DialAborted(s) \/ DialDone(s)
Free(s) == EnterRead(s) \/ LockPeer(s) \/ Load(s) \/ Update(s) \/ Leave(s)

Next == (\E s \in Session : Start(s) \/ Get(s) \/ Dial(s) \/ SessionEnds(s) \/ Free(s)) \/ Tick \/ Done

Spec == Init /\ [][Next]_vars

\* Workers keep running and a connect() is answered or times out; a session
\* need not come or end, nor the clock advance.
Fairness == \A s \in Session : WF_vars(Get(s)) /\ WF_vars(Dial(s)) /\ WF_vars(Free(s))

FairSpec == Spec /\ Fairness

-----------------------------------------------------------------------------
(* Properties.                                                             *)

TypeOK ==
    /\ current_weight \in [Peer -> Int]
    /\ \A p \in Peer : effective_weight[p] \in 0 .. Weight[p]
    /\ conns \in [Peer -> Int] /\ fails \in [Peer -> Nat]
    /\ accessed \in [Peer -> Nat] /\ checked \in [Peer -> Nat]
    /\ rwlock \in [Group -> Int] /\ lock \in [Peer -> {0, WLocked}]
    /\ group \in [Session -> Group] /\ current \in [Session -> Peer \cup {NoPeer}]
    /\ tried \in [Session -> SUBSET Peer] /\ tries \in [Session -> Nat] /\ held \subseteq Session
    /\ pc \in [Session -> {"start", "get", "pick", "take", "relock", "dial", "up", "enter",
                           "lockpeer", "load", "update", "leave", "done"}]
    /\ job \in [Session -> {"failed", "ended", "connected"}]
    /\ loaded \in [Session -> Int] /\ now \in Nat /\ clock \in [Session -> Nat]
    /\ answered \subseteq Peer /\ probe \in [Session -> Nat]

Writing(s) == pc[s] \in {"pick", "take"}
Reading(s) == pc[s] \in {"lockpeer", "load", "update", "leave"}
Locking(s) == pc[s] \in {"load", "update", "leave"}

\* Nobody frees or gets a peer while another session scans its list, and two
\* sessions that free the same peer exclude each other.
Exclusion ==
    \A s, t \in Session : s # t =>
       /\ Writing(s) /\ (Writing(t) \/ Reading(t)) => group[s] # group[t]
       /\ Locking(s) /\ Locking(t) => current[s] # current[t]
       /\ Reading(s) => current[s] \in PeersOf(group[s])

\* conns counts the sessions that hold the peer: every peer got is freed once,
\* on whatever path its session ends, and no update is lost.
ConnsAccurate ==
    \A p \in Peer : conns[p] = Cardinality({s \in held : current[s] = p})

\* A peer never has more sessions than max_conns, whoever asks at once.
MaxConnsKept == \A p \in Peer : MaxConns[p] > 0 => conns[p] <= MaxConns[p]

\* Smooth round robin is fair in the long run: what a chosen peer gives up is
\* what all of them gained, also while effective weights change.
WeightsBalanced ==
    \A g \in Group : MapThenSumSet(LAMBDA p : current_weight[p], PeersOf(g)) = 0

\* A disabled peer is checked by one session per fail_timeout, less what the
\* workers' clocks are behind: a failure that a worker records with an old time
\* sets checked back.
OneProbe ==
    \A s, t \in Session :
       s # t /\ current[s] = current[t] /\ probe[s] > 0 /\ probe[t] >= probe[s] =>
          probe[t] - probe[s] > FailTimeout[current[s]] - MaxLag

\* No session is sent back to a peer it has tried: where a failed try is
\* followed by another, the peer is another one.
NoRetrySame ==
    [][\A s \in Session :
          pc[s] = "pick" /\ pc'[s] = "take" /\ current[s] # NoPeer => current'[s] # current[s]]_vars

\* Every session that asks for a peer is connected or ends: no lock is left
\* behind on any path.
Settles == \A s \in Session : (pc[s] = "get") ~> (pc[s] \in {"up", "done"})

\* "mark peer live if check passed": a disabled peer comes back only after it
\* has accepted a connection since its last failure.
MarkedLiveIfChecked ==
    [][\A p \in Peer : Disabled(p) /\ fails'[p] = 0 => p \in answered]_vars

=============================================================================
