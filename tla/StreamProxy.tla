----------------------------- MODULE StreamProxy -----------------------------
(***************************************************************************)
(* One proxied TCP session of the stream proxy: the client connection c,   *)
(* the upstream connection u (pc in the code), the two relay directions,   *)
(* the write filter and its chains of buffers, the epoll event flags and   *)
(* the timers, together with the parts of the kernel and of the two remote *)
(* ends that the code observes.                                            *)
(*                                                                         *)
(* Direction "up" reads from the client and writes to the upstream,        *)
(* "down" the other way.  Byte number i of a direction is the number i, so *)
(* that a stale or repeated byte shows on the wire.                        *)
(*                                                                         *)
(* A handler runs as a sequence of steps (variable step): remote ends and  *)
(* the kernel may act between two system calls of one handler.             *)
(***************************************************************************)
EXTENDS Integers, Sequences, SequencesExt

CONSTANTS
    BufSize,         \* proxy_buffer_size, in bytes
    SockBuf,         \* free space of a socket's send buffer when it is empty
    MaxBytes,        \* [Dir -> Nat], bound: bytes each end sends
    MaxBufs,         \* bound: ngx_buf_t the session's pool can allocate
    MaxTime,         \* bound: seconds the clock counts
    Rate,            \* [Dir -> Nat], proxy_upload_rate/proxy_download_rate, 0 is off
    HalfClose,       \* proxy_half_close
    RetryUpstream,   \* proxy_next_upstream
    Tries,           \* peers the balancer offers (u->peer.tries)
    UseResolver,     \* the upstream is a name to resolve at run time
    Deferred,        \* the accepted socket may already have data (deferred accept)
    Expiring,        \* events whose timers may expire
    Failures         \* subset of FailureKinds the environment may inject

Side   == {"c", "u"}
Dir    == {"up", "down"}
Event  == {"cr", "cw", "ur", "uw"}
FailureKinds == {"reset", "alloc", "connect", "deadline", "shutdown"}

ASSUME ConstantsAssumption ==
    /\ BufSize \in Nat \ {0}
    /\ SockBuf \in Nat \ {0}
    /\ MaxBytes \in [Dir -> Nat]
    /\ MaxBufs \in Nat \ {0}
    /\ MaxTime \in Nat
    /\ Rate \in [Dir -> Nat]
    /\ HalfClose \in BOOLEAN
    /\ RetryUpstream \in BOOLEAN
    /\ Tries \in Nat \ {0}
    /\ UseResolver \in BOOLEAN
    /\ Deferred \in BOOLEAN
    /\ Expiring \subseteq Event
    /\ Failures \subseteq FailureKinds

Src(d) == IF d = "up" THEN "c" ELSE "u"
Dst(d) == IF d = "up" THEN "u" ELSE "c"
From(s) == IF s = "c" THEN "up" ELSE "down"   \* the direction that reads s
To(s)   == IF s = "c" THEN "down" ELSE "up"   \* the direction that writes s
Rd(s)  == IF s = "c" THEN "cr" ELSE "ur"
Wr(s)  == IF s = "c" THEN "cw" ELSE "uw"
SideOf(e)  == IF e \in {"cr", "cw"} THEN "c" ELSE "u"
Reading(e) == e \in {"cr", "ur"}
UpEvents == {"ur", "uw"}

BufId == 1 .. MaxBufs
Buf == [pos : 0 .. BufSize, last : 0 .. BufSize, temp : BOOLEAN]
Outcome == {"none", "disconnected", "timed out", "write error", "shutdown",
            "internal", "bad gateway"}
Step == {"idle", "connect", "dial", "init", "write", "send", "update", "read", "finish", "done"}

VARIABLES
    \* the remote ends and the kernel
    sent,        \* bytes the source of a direction has sent
    fin,         \* sides that closed their sending half
    rst,         \* sides that reset the connection
    wire,        \* bytes accepted by the socket nginx writes a direction to
    taken,       \* how many of them the destination has consumed
    upsock,      \* state of the upstream socket's connect()
    nospace,     \* sockets whose last write met a full send buffer
    armed,       \* sockets on epoll's ready list (edge triggered)
    revents,     \* events returned by epoll_wait() and not yet dispatched
    \* ngx_event_t flags
    active, ready, timer, posted, delayed, eof, rerror, pendingEof, avail,
    \* ngx_connection_t
    open, cerror, buffered, closing, shut,
    \* buffers and chains
    bufs, nbufs, mem, last, free, out, busy, wf, received,
    \* ngx_stream_upstream_t and the running handler
    connected, halfClosed, tries, held, resolving, now, step, dir, dw, outcome,
    \* history
    early        \* bytes read of the client before the upstream was connected

kernel == <<sent, fin, rst, wire, taken, upsock, nospace>>
epoll  == <<active, armed, revents>>
events == <<ready, timer, posted, delayed, eof, rerror, pendingEof, avail>>
conns  == <<open, cerror, buffered, closing, shut>>
data   == <<bufs, nbufs, mem, last, free, out, busy, wf, received>>
upstream == <<connected, halfClosed, tries, held, resolving, now, outcome, early>>
run    == <<step, dir, dw>>
vars   == <<kernel, epoll, events, conns, data, upstream, run>>

-----------------------------------------------------------------------------
(* The kernel as the code sees it.                                         *)

Queued(s) == sent[From(s)] - received[From(s)]

Hup(s) == \/ s \in rst
          \/ s \in fin /\ s \in shut
          \/ s = "u" /\ upsock = "failed"

Established(s) == s = "u" => upsock = "established"

Space(s) == IF Established(s) THEN SockBuf - (Len(wire[To(s)]) - taken[To(s)]) ELSE 0

\* What epoll_wait() reports of a socket; ERR and HUP are turned into IN and
\* OUT by ngx_epoll_process_events().
Poll(s) == IF Hup(s) THEN {"in", "out", "rdhup"}
           ELSE   (IF Queued(s) > 0 \/ s \in fin THEN {"in"} ELSE {})
             \cup (IF s \in fin THEN {"rdhup"} ELSE {})
             \cup (IF Space(s) > 0 \/ s \in shut THEN {"out"} ELSE {})

Interest(s, act) == (IF Rd(s) \in act THEN {"in", "rdhup"} ELSE {})
               \cup (IF Wr(s) \in act THEN {"out"} ELSE {})

Registered(s) == {Rd(s), Wr(s)} \cap active # {}

\* An edge: something changed on s; epoll queues it if s is registered.
Edge(s) == armed' = IF Registered(s) THEN armed \cup {s} ELSE armed

\* EPOLL_CTL_ADD or EPOLL_CTL_MOD for the events E, which polls the socket again.
Register(E) ==
    /\ active' = active \cup E
    /\ armed' = armed \cup {s \in Side : /\ \E e \in E : SideOf(e) = s
                                         /\ Poll(s) \cap Interest(s, active \cup E) # {}}

\* ngx_handle_read_event(), ngx_handle_write_event() with NGX_USE_CLEAR_EVENT
Unhandled(e) == e \notin active /\ e \notin ready

-----------------------------------------------------------------------------
(* Chains of buffers.                                                      *)

SizeOf(b) == IF bufs[b].temp THEN bufs[b].last - bufs[b].pos ELSE 0

\* flush is set in every buffer, so one that is not in memory is special
Special(b) == ~bufs[b].temp

\* ngx_chain_get_free_buf(): the head of the shared free chain, or a new buffer
CanGetBuf == free # <<>> \/ nbufs < MaxBufs
FreeBuf   == IF free # <<>> THEN Head(free) ELSE nbufs + 1
TakeFree  == /\ free'  = IF free # <<>> THEN Tail(free) ELSE free
             /\ nbufs' = IF free # <<>> THEN nbufs ELSE nbufs + 1

-----------------------------------------------------------------------------
(* Ends of a session.                                                      *)

\* ngx_stream_proxy_finalize() and ngx_stream_close_connection(): the resolver
\* is cancelled, the peer freed, both connections closed; closing deletes
\* their timers and posted events, and makes events not yet dispatched stale.
Finalize(why) ==
    /\ step' = "done" /\ outcome' = why
    /\ open' = {} /\ active' = {} /\ timer' = {} /\ posted' = {}
    /\ armed' = {} /\ revents' = {}
    /\ held' = FALSE /\ resolving' = FALSE
    /\ UNCHANGED <<kernel, ready, delayed, eof, rerror, pendingEof, avail,
                   cerror, buffered, closing, shut, data,
                   connected, halfClosed, tries, now, early, dir, dw>>

\* ngx_stream_proxy_next_upstream(): free the failed peer; give up, or close
\* its connection and connect to the next one.
NextUpstream ==
    LET left == IF held /\ tries > 0 THEN tries - 1 ELSE tries IN
    \/ "u" \in buffered /\ Finalize("internal")
    \/ /\ "u" \notin buffered
       /\ left = 0 \/ ~RetryUpstream \/ "deadline" \in Failures   \* next_upstream_timeout
       /\ Finalize("bad gateway")
    \/ /\ "u" \notin buffered
       /\ left > 0 /\ RetryUpstream
       /\ tries' = left /\ held' = FALSE
       /\ open' = open \ {"u"}
       /\ active' = active \ UpEvents
       /\ timer'  = timer \ UpEvents
       /\ posted' = posted \ UpEvents
       /\ armed' = armed \ {"u"}
       /\ revents' = {r \in revents : r[1] # "u"}
       /\ upsock' = "none"
       /\ step' = "connect"
       /\ UNCHANGED <<sent, fin, rst, wire, taken, nospace, ready, delayed, eof, rerror,
                      pendingEof, avail, cerror, buffered, closing, shut, data,
                      connected, halfClosed, resolving, now, outcome, early, dir, dw>>

-----------------------------------------------------------------------------
(* Connecting to the upstream.                                             *)

\* ngx_stream_proxy_resolve_handler()
Resolved ==
    /\ step = "idle" /\ resolving
    /\ \/ "connect" \in Failures /\ Finalize("internal")
       \/ /\ resolving' = FALSE /\ tries' = Tries /\ step' = "connect"
          /\ UNCHANGED <<kernel, epoll, events, conns, data,
                         connected, halfClosed, held, now, outcome, early, dir, dw>>

\* ngx_stream_proxy_connect(), ngx_event_connect_peer(): ask the balancer for a
\* peer; NGX_BUSY when it has none left
GetPeer ==
    /\ step = "connect"
    /\ \/ "connect" \in Failures /\ Finalize("bad gateway")
       \/ /\ held' = TRUE /\ connected' = FALSE /\ step' = "dial"
          /\ UNCHANGED <<kernel, epoll, events, conns, data,
                         halfClosed, tries, resolving, now, outcome, early, dir, dw>>

\* No socket or connection for the peer (NGX_ERROR), or connect() failed at
\* once (NGX_DECLINED)
DialFails ==
    /\ step = "dial" /\ "connect" \in Failures
    /\ Finalize("internal") \/ NextUpstream

\* A fresh upstream connection, added to epoll before connect().
NewUpstream(state) ==
    /\ step = "dial"
    /\ upsock' = state
    /\ sent' = [sent EXCEPT !["down"] = 0]
    /\ fin' = fin \ {"u"} /\ rst' = rst \ {"u"}
    /\ open' = open \cup {"u"}
    /\ active' = active \cup UpEvents
    /\ posted' = posted \ UpEvents
    /\ delayed' = delayed \ {"u"} /\ eof' = eof \ {"u"}
    /\ rerror' = rerror \ {"u"} /\ pendingEof' = pendingEof \ {"u"}
    /\ avail' = [avail EXCEPT !["u"] = 0]
    /\ cerror' = cerror \ {"u"} /\ buffered' = buffered \ {"u"}
    /\ closing' = closing \ {"u"} /\ shut' = shut \ {"u"} /\ nospace' = nospace \ {"u"}
    /\ UNCHANGED <<wire, taken, armed, revents, data, upstream, dir, dw>>

\* ngx_add_timer(pc->write, connect_timeout)
MutantConnectTimers == timer
ConnectTimers == timer \cup {"uw"}

\* connect() is in progress: ngx_stream_proxy_connect() with NGX_AGAIN
ConnectAgain ==
    /\ NewUpstream("inprogress")
    /\ ready' = ready \ UpEvents
    /\ timer' = ConnectTimers
    /\ step' = "idle"

\* connect() succeeded at once (NGX_OK)
ConnectNow ==
    /\ NewUpstream("established")
    /\ ready' = (ready \ UpEvents) \cup {"uw"}
    /\ step' = "init"
    /\ UNCHANGED timer

\* ngx_stream_proxy_connect_handler() called by an event
ConnectHandler(e) ==
    /\ step = "idle" /\ e \in posted \cap UpEvents /\ ~connected
    /\ IF upsock = "failed" \/ "u" \in rst          \* test_connect(): SO_ERROR
       THEN NextUpstream
       ELSE /\ posted' = posted \ {e}
            /\ timer' = timer \ {"uw"}
            /\ step' = "init"
            /\ UNCHANGED <<kernel, epoll, ready, delayed, eof, rerror, pendingEof, avail,
                           conns, data, upstream, dir, dw>>

\* ngx_stream_proxy_connect_handler() called by the connect timer
ConnectTimeout ==
    /\ step = "idle" /\ "uw" \in timer \cap Expiring /\ ~connected
    /\ NextUpstream

\* ngx_stream_proxy_init_upstream(), ending in process(s, 0, 1); the rates are
\* set here (RateOf)
InitUpstream ==
    /\ step = "init"
    /\ \/ "connect" \in Failures /\ NextUpstream     \* ngx_tcp_nodelay() failed
       \/ "alloc" \in Failures /\ Finalize("internal")
       \/ /\ connected' = TRUE /\ early' = received["up"]
          /\ posted' = posted \cup ({"ur"} \cap ready)
          /\ step' = "write" /\ dir' = "up" /\ dw' = TRUE
          /\ UNCHANGED <<kernel, epoll, ready, timer, delayed, eof, rerror, pendingEof, avail,
                         conns, data, halfClosed, tries, held, resolving, now, outcome>>

-----------------------------------------------------------------------------
(* The event loop and the event handlers.                                  *)

\* ngx_epoll_process_events(): epoll_wait()
EpollWait ==
    /\ step = "idle" /\ posted = {} /\ revents = {} /\ armed # {}
    /\ revents' = {r \in armed \X {"in", "out", "rdhup"} :
                       r[2] \in Poll(r[1]) /\ (Hup(r[1]) \/ r[2] \in Interest(r[1], active))}
    /\ armed' = {}
    /\ UNCHANGED <<kernel, active, events, conns, data, upstream, run>>

\* ... and its loop over the returned events: IN before OUT of one socket
DispatchRead(s) ==
    /\ step = "idle" /\ <<s, "in">> \in revents
    /\ revents' = revents \ {<<s, "in">>, <<s, "rdhup">>}
    /\ IF Rd(s) \in active
       THEN /\ ready' = ready \cup {Rd(s)}
            /\ posted' = posted \cup {Rd(s)}
            /\ avail' = [avail EXCEPT ![s] = -1]
            /\ pendingEof' = IF <<s, "rdhup">> \in revents THEN pendingEof \cup {s}
                                                           ELSE pendingEof
       ELSE UNCHANGED <<ready, posted, avail, pendingEof>>
    /\ UNCHANGED <<kernel, active, armed, timer, delayed, eof, rerror,
                   conns, data, upstream, run>>

DispatchWrite(s) ==
    /\ step = "idle" /\ <<s, "out">> \in revents /\ <<s, "in">> \notin revents
    /\ revents' = revents \ {<<s, "out">>, <<s, "rdhup">>}
    /\ IF Wr(s) \in active
       THEN ready' = ready \cup {Wr(s)} /\ posted' = posted \cup {Wr(s)}
       ELSE UNCHANGED <<ready, posted>>
    /\ UNCHANGED <<kernel, active, armed, timer, delayed, eof, rerror, pendingEof, avail,
                   conns, data, upstream, run>>

\* Direction a handler relays, and whether it starts by writing: the client's
\* write event and the upstream's read event are "from upstream".
DirOf(e) == IF e \in {"cw", "ur"} THEN "down" ELSE "up"

\* ngx_stream_proxy_process_connection() called by an event
Handler(e) ==
    /\ step = "idle" /\ e \in posted
    /\ SideOf(e) = "u" => connected
    /\ \/ SideOf(e) \in closing /\ Finalize("shutdown")
       \/ /\ SideOf(e) \notin closing
          /\ posted' = posted \ {e}
          /\ IF Reading(e) /\ SideOf(e) \in delayed
             THEN /\ Register({x \in {e} : Unhandled(x)})
                  /\ UNCHANGED run
             ELSE /\ IF DirOf(e) = "down" /\ ~connected
                     THEN UNCHANGED run
                     ELSE step' = "write" /\ dir' = DirOf(e) /\ dw' = ~Reading(e)
                  /\ UNCHANGED <<active, armed>>
          /\ UNCHANGED <<kernel, revents, ready, timer, delayed, eof, rerror, pendingEof,
                         avail, conns, data, upstream>>

\* ngx_stream_proxy_process_connection() called by the timer of a rate limit
DelayTimeout(e) ==
    /\ step = "idle" /\ e \in timer \cap Expiring /\ Reading(e) /\ SideOf(e) \in delayed
    /\ \/ SideOf(e) \in closing /\ Finalize("shutdown")
       \/ /\ SideOf(e) \notin closing
          /\ delayed' = delayed \ {SideOf(e)}
          /\ IF e \notin ready
             THEN /\ Register({x \in {e} : Unhandled(x)})
                  /\ timer' = (timer \ {e}) \cup
                              (IF connected /\ delayed' = {} THEN {"cw"} ELSE {})
                  /\ UNCHANGED run
             ELSE /\ timer' = timer \ {e}
                  /\ IF DirOf(e) = "down" /\ ~connected
                     THEN UNCHANGED run
                     ELSE step' = "write" /\ dir' = DirOf(e) /\ dw' = FALSE
                  /\ UNCHANGED <<active, armed>>
          /\ UNCHANGED <<kernel, revents, ready, posted, eof, rerror, pendingEof, avail,
                         conns, data, upstream>>

\* ... called by any other timer: the session has been idle for proxy_timeout
IdleTimeout(e) ==
    /\ step = "idle" /\ e \in timer \cap Expiring
    /\ SideOf(e) = "u" => connected
    /\ ~(Reading(e) /\ SideOf(e) \in delayed)
    /\ Finalize(IF SideOf(e) \in closing THEN "shutdown" ELSE "timed out")

\* The read handlers ngx_shutdown_timer_handler() calls
MutantShutdownCalls == {Rd(s) : s \in open \ {"c"}}
ShutdownCalls == {Rd(s) : s \in open}

\* ngx_shutdown_timer_handler(): worker_shutdown_timeout has passed
ShutdownTimeout ==
    /\ step = "idle" /\ "shutdown" \in Failures /\ open \ closing # {}
    /\ closing' = open /\ cerror' = open
    /\ posted' = posted \cup ShutdownCalls
    /\ UNCHANGED <<kernel, epoll, ready, timer, delayed, eof, rerror, pendingEof, avail,
                   open, buffered, shut, data, upstream, run>>

-----------------------------------------------------------------------------
(* ngx_stream_proxy_process() of direction dir.                            *)

\* dst is NULL until the upstream is connected
DstUp == dir = "up" => connected

\* if (do_write && dst) if (*out || *busy || dst->buffered)
MutantWrites == dw /\ DstUp /\ out[dir] # <<>>
Writes == dw /\ DstUp /\ (out[dir] # <<>> \/ busy[dir] # <<>> \/ Dst(dir) \in buffered)

SkipWrite ==
    /\ step = "write" /\ ~Writes
    /\ step' = "read"
    /\ UNCHANGED <<kernel, epoll, events, conns, data, upstream, dir, dw>>

\* The write filter's saved chain with the new one added to it
MutantFilterChain == IF out[dir] # <<>> THEN out[dir] ELSE wf[dir]
FilterChain == wf[dir] \o out[dir]

\* ngx_stream_write_filter(): append the new chain to the saved one; a zero
\* size chain of flush buffers is dropped, a zero size buffer that is in
\* memory, or no chain at all, is an error.
WriteFilter ==
    /\ step = "write" /\ Writes
    /\ LET chain == FilterChain
           drop  == \A i \in DOMAIN chain : SizeOf(chain[i]) = 0
       IN \/ /\ \/ Dst(dir) \in cerror \/ chain = <<>>
                \/ \E i \in DOMAIN chain : SizeOf(chain[i]) = 0 /\ ~Special(chain[i])
             /\ Finalize("write error")
          \/ /\ Dst(dir) \notin cerror /\ chain # <<>>
             /\ \A i \in DOMAIN chain : SizeOf(chain[i]) # 0 \/ Special(chain[i])
             /\ wf' = [wf EXCEPT ![dir] = IF drop THEN <<>> ELSE chain]
             /\ buffered' = IF drop THEN buffered \ {Dst(dir)} ELSE buffered
             /\ step' = IF drop THEN "update" ELSE "send"
             /\ UNCHANGED <<kernel, epoll, events, open, cerror, closing, shut,
                            bufs, nbufs, mem, last, free, out, busy, received,
                            upstream, dir, dw>>

\* ngx_linux_sendfile_chain() and ngx_chain_update_sent(), one buffer at a time:
\* the send stops when the event is not ready or the socket has no space.
SendBlocked ==
    /\ step = "send" /\ wf[dir] # <<>>
    /\ \/ Wr(Dst(dir)) \notin ready
       \/ /\ Dst(dir) \notin rst \cup shut
          /\ ~Special(Head(wf[dir])) /\ Space(Dst(dir)) = 0
    /\ IF Wr(Dst(dir)) \in ready
       THEN ready' = ready \ {Wr(Dst(dir))} /\ nospace' = nospace \cup {Dst(dir)}
       ELSE UNCHANGED <<ready, nospace>>
    /\ buffered' = buffered \cup {Dst(dir)}
    /\ step' = "update"
    /\ UNCHANGED <<sent, fin, rst, wire, taken, upsock, epoll, timer, posted, delayed, eof,
                   rerror, pendingEof, avail, open, cerror, closing, shut, data,
                   upstream, dir, dw>>

\* writev() failed: the peer has reset the connection, or it is shut down
SendFails ==
    /\ step = "send" /\ wf[dir] # <<>> /\ Wr(Dst(dir)) \in ready
    /\ Dst(dir) \in rst \cup shut
    /\ Finalize("write error")

SendBytes ==
    /\ step = "send" /\ wf[dir] # <<>> /\ Wr(Dst(dir)) \in ready
    /\ Dst(dir) \notin rst \cup shut
    /\ LET b == Head(wf[dir]) IN
       \E n \in 0 .. BufSize :
          /\ n = IF SizeOf(b) <= Space(Dst(dir)) THEN SizeOf(b) ELSE Space(Dst(dir))
          /\ Special(b) \/ n > 0
          /\ wire' = [wire EXCEPT ![dir] =
                         @ \o [i \in 1 .. n |-> mem[dir][bufs[b].pos + i]]]
          /\ bufs' = [bufs EXCEPT ![b].pos = IF Special(b) THEN @ ELSE @ + n]
          /\ wf' = [wf EXCEPT ![dir] = IF n = SizeOf(b) THEN Tail(@) ELSE @]
    /\ UNCHANGED <<sent, fin, rst, taken, upsock, nospace, epoll, events, conns,
                   nbufs, mem, last, free, out, busy, received, upstream, run>>

SendDone ==
    /\ step = "send" /\ wf[dir] = <<>>
    /\ buffered' = buffered \ {Dst(dir)}
    /\ step' = "update"
    /\ UNCHANGED <<kernel, epoll, events, open, cerror, closing, shut, data,
                   upstream, dir, dw>>

\* if (*busy == NULL) b->last = b->start
MutantRewind(rest) == 0
Rewind(rest) == IF rest = <<>> THEN 0 ELSE last[dir]

\* ngx_chain_update_chains(): the chain handed to the filter joins the busy
\* chain, whose leading m empty buffers go to the shared free chain; then the
\* buffer is rewound if nothing of it is busy.
UpdateChains ==
    /\ step = "update"
    /\ LET all == busy[dir] \o out[dir] IN
       \E m \in 0 .. Len(all) : LET rest == SubSeq(all, m + 1, Len(all)) IN
          /\ \A i \in 1 .. m : SizeOf(all[i]) = 0
          /\ m < Len(all) => SizeOf(all[m + 1]) # 0
          /\ busy' = [busy EXCEPT ![dir] = rest]
          /\ free' = Reverse(SubSeq(all, 1, m)) \o free
          /\ bufs' = [b \in BufId |-> IF \E i \in 1 .. m : all[i] = b
                                       THEN [pos |-> 0, last |-> 0, temp |-> bufs[b].temp]
                                       ELSE bufs[b]]
          /\ last' = [last EXCEPT ![dir] = Rewind(rest)]
    /\ out' = [out EXCEPT ![dir] = <<>>]
    /\ step' = "read"
    /\ UNCHANGED <<kernel, epoll, events, conns, nbufs, mem, wf, received, upstream, dir, dw>>

\* size = b->end - b->last
Room == BufSize - last[dir]

\* size && src->read->ready && !src->read->delayed && !src->read->error
Reads == /\ Room > 0
         /\ Rd(Src(dir)) \in ready /\ Src(dir) \notin delayed \cup rerror

\* u->upload_rate, u->download_rate: 0 until ngx_stream_proxy_init_upstream()
RateOf(d) == IF connected THEN Rate[d] ELSE 0

\* now is ngx_time() - u->start_sec, on the clock of the session's worker
Limit == RateOf(dir) * (now + 1) - received[dir]

SkipRead ==
    /\ step = "read" /\ ~Reads
    /\ step' = "finish"
    /\ UNCHANGED <<kernel, epoll, events, conns, data, upstream, dir, dw>>

\* The rate limit is used up: read again when its timer expires
ReadLimited ==
    /\ step = "read" /\ Reads /\ RateOf(dir) > 0 /\ Limit <= 0
    /\ delayed' = delayed \cup {Src(dir)}
    /\ timer' = timer \cup {Rd(Src(dir))}
    /\ step' = "finish"
    /\ UNCHANGED <<kernel, epoll, ready, posted, eof, rerror, pendingEof, avail,
                   conns, data, upstream, dir, dw>>

\* ... and what is left of it bounds the size of a read
MutantRecvSize == Room
RecvSize == IF RateOf(dir) > 0 /\ Limit < Room THEN Limit ELSE Room

MayRead == step = "read" /\ Reads /\ (RateOf(dir) > 0 => Limit > 0)

\* ngx_unix_recv(): known or found to be drained (NGX_AGAIN)
RecvAgain ==
    /\ MayRead
    /\ LET s == Src(dir) IN
       /\ \/ avail[s] = 0 /\ s \notin pendingEof
          \/ Queued(s) = 0 /\ s \notin fin \cup rst
       /\ ready' = ready \ {Rd(s)}
    /\ step' = "finish"
    /\ UNCHANGED <<kernel, epoll, timer, posted, delayed, eof, rerror, pendingEof, avail,
                   conns, data, upstream, dir, dw>>

\* What recv() returned joins the out chain in a buffer of its own, to be
\* written at once; under a rate limit the source is delayed.
Received(n) ==
    LET s == Src(dir)
        delay == RateOf(dir) > 0 /\ (n * 1000) \div RateOf(dir) > 0
    IN /\ CanGetBuf /\ TakeFree
       /\ mem' = [mem EXCEPT ![dir] =
                    [i \in 1 .. BufSize |-> IF i \in last[dir] + 1 .. last[dir] + n
                                            THEN received[dir] + (i - last[dir])
                                            ELSE mem[dir][i]]]
       /\ bufs' = [bufs EXCEPT ![FreeBuf] = [pos |-> last[dir], last |-> last[dir] + n,
                                             temp |-> n > 0]]
       /\ out' = [out EXCEPT ![dir] = Append(@, FreeBuf)]
       /\ last' = [last EXCEPT ![dir] = @ + n]
       /\ received' = [received EXCEPT ![dir] = @ + n]
       /\ IF delay THEN delayed' = delayed \cup {s} /\ timer' = timer \cup {Rd(s)}
                   ELSE UNCHANGED <<delayed, timer>>
       /\ step' = "write" /\ dw' = TRUE
       /\ UNCHANGED <<kernel, epoll, posted, pendingEof, conns, busy, wf, upstream, dir>>

Drained(s) == Queued(s) = 0 /\ (avail[s] # 0 \/ s \in pendingEof)

\* rev->available after n bytes were read: the count of what is left, taken
\* from FIONREAD when the read filled its buffer, or -1 when not known.
MutantAvailable(s, n) == 0
Available(s, n) ==
    IF n < RecvSize \/ (avail[s] >= 0 /\ avail[s] < n) THEN 0
    ELSE IF avail[s] >= 0 THEN avail[s] - n ELSE Queued(s) - n

\* recv() returned bytes
RecvData ==
    /\ MayRead
    /\ LET s == Src(dir) IN
       /\ avail[s] # 0 \/ s \in pendingEof
       /\ Queued(s) > 0
       /\ \E n \in 1 .. BufSize :
             /\ n = IF Queued(s) < RecvSize THEN Queued(s) ELSE RecvSize
             /\ avail' = [avail EXCEPT ![s] = Available(s, n)]
             /\ ready' = IF \/ avail[s] >= 0 /\ avail[s] < n
                            \/ n < RecvSize /\ s \notin pendingEof
                         THEN ready \ {Rd(s)} ELSE ready
             /\ eof' = eof /\ rerror' = rerror
             /\ Received(n)

\* recv() returned 0 or an error, which ends the input with an empty buffer
RecvEnd ==
    /\ MayRead
    /\ LET s == Src(dir) IN
       /\ Drained(s) /\ s \in fin \cup rst
       /\ ready' = ready \ {Rd(s)}
       /\ eof' = eof \cup {s}
       /\ rerror' = IF s \in rst THEN rerror \cup {s} ELSE rerror
       /\ avail' = avail
       /\ Received(0)

\* ... and no memory is left for the buffer
RecvNoBuffer ==
    /\ MayRead /\ "alloc" \in Failures /\ free = <<>>
    /\ avail[Src(dir)] # 0 \/ Src(dir) \in pendingEof
    /\ Queued(Src(dir)) > 0 \/ Src(dir) \in fin \cup rst
    /\ Finalize("internal")

\* ngx_stream_proxy_test_finalize(): TRUE when the session is over
MutantForgetsBuffered == connected /\ eof # {} /\ (HalfClose => eof = Side)
MutantNeverAfterShutdown ==
    connected /\ eof = Side /\ buffered = {} /\ ~halfClosed
TestFinalize ==
    /\ connected
    /\ eof # {}
    /\ \A s \in Side : s \in buffered => s \in eof
    /\ HalfClose => eof = Side /\ buffered = {}

FinishDisconnected == step = "finish" /\ TestFinalize /\ Finalize("disconnected")

\* An end of input is passed on by shutting down the writing half of dst
MutantHalfCloses == DstUp /\ HalfClose /\ ~halfClosed /\ Src(dir) \in eof
HalfCloses == /\ DstUp /\ HalfClose /\ ~halfClosed
              /\ Src(dir) \in eof /\ Dst(dir) \notin buffered

\* shutdown() of a connection that was reset fails
ShutdownFails ==
    /\ step = "finish" /\ ~TestFinalize
    /\ HalfCloses /\ Dst(dir) \in rst
    /\ Finalize("internal")

\* The idle timer runs while no rate limit delays a direction
IdleTimers == IF ~DstUp THEN timer
              ELSE IF delayed = {} THEN timer \cup {"cw"} ELSE timer \ {"cw"}

\* The rest of ngx_stream_proxy_process(): register for the events still
\* needed, propagate an end of input, set or delete the idle timer.
Finish ==
    /\ step = "finish" /\ ~TestFinalize
    /\ ~(HalfCloses /\ Dst(dir) \in rst)
    /\ Register({e \in {Rd(Src(dir))} \cup (IF DstUp THEN {Wr(Dst(dir))} ELSE {}) :
                    Unhandled(e)})
    /\ IF HalfCloses THEN halfClosed' = TRUE /\ shut' = shut \cup {Dst(dir)}
                     ELSE UNCHANGED <<halfClosed, shut>>
    /\ timer' = IdleTimers
    /\ step' = "idle"
    /\ UNCHANGED <<kernel, revents, ready, posted, delayed, eof, rerror, pendingEof, avail,
                   open, cerror, buffered, closing, data,
                   connected, tries, held, resolving, now, outcome, early, dir, dw>>

-----------------------------------------------------------------------------
(* The remote ends, the network and the clock.                             *)

Alive(s) == s \in open /\ (s = "u" => upsock = "established")

RemoteSend(s) ==
    /\ Alive(s) /\ s \notin fin \cup rst
    /\ sent[From(s)] < MaxBytes[From(s)]
    /\ sent' = [sent EXCEPT ![From(s)] = @ + 1]
    /\ Edge(s)
    /\ UNCHANGED <<fin, rst, wire, taken, upsock, nospace, active, revents,
                   events, conns, data, upstream, run>>

RemoteFin(s) ==
    /\ Alive(s) /\ s \notin fin \cup rst
    /\ fin' = fin \cup {s}
    /\ Edge(s)
    /\ UNCHANGED <<sent, rst, wire, taken, upsock, nospace, active, revents,
                   events, conns, data, upstream, run>>

RemoteReset(s) ==
    /\ "reset" \in Failures /\ Alive(s) /\ s \notin rst
    /\ rst' = rst \cup {s}
    /\ Edge(s)
    /\ UNCHANGED <<sent, fin, wire, taken, upsock, nospace, active, revents,
                   events, conns, data, upstream, run>>

\* A remote end consumes what its direction has put on the wire; the space is
\* reported only after a write met a full buffer (SOCK_NOSPACE).
RemoteTake(s) ==
    /\ Alive(s) /\ s \notin rst /\ taken[To(s)] < Len(wire[To(s)])
    /\ taken' = [taken EXCEPT ![To(s)] = Len(wire[To(s)])]
    /\ nospace' = nospace \ {s}
    /\ IF s \in nospace THEN Edge(s) ELSE UNCHANGED armed
    /\ UNCHANGED <<sent, fin, rst, wire, upsock, active, revents,
                   events, conns, data, upstream, run>>

\* The connect() in progress succeeds or fails
ConnectCompletes ==
    /\ "u" \in open /\ upsock = "inprogress"
    /\ \/ upsock' = "established"
       \/ "connect" \in Failures /\ upsock' = "failed"
    /\ Edge("u")
    /\ UNCHANGED <<sent, fin, rst, wire, taken, nospace, active, revents,
                   events, conns, data, upstream, run>>

Tick ==
    /\ step # "done" /\ now < MaxTime
    /\ now' = now + 1
    /\ UNCHANGED <<kernel, epoll, events, conns, data, connected, halfClosed, tries, held,
                   resolving, outcome, early, run>>

\* The session is over: nothing more happens to it
Done == step = "done" /\ UNCHANGED vars

-----------------------------------------------------------------------------
\* ngx_stream_proxy_handler() has just run, on a connection just accepted
Init ==
    /\ sent = [d \in Dir |-> 0] /\ fin = {} /\ rst = {}
    /\ wire = [d \in Dir |-> <<>>] /\ taken = [d \in Dir |-> 0]
    /\ upsock = "none" /\ nospace = {}
    /\ active = {} /\ armed = {} /\ revents = {}
    /\ ready = IF Deferred THEN {"cr", "cw"} ELSE {"cw"}
    /\ timer = {} /\ posted = IF Deferred THEN {"cr"} ELSE {}
    /\ delayed = {} /\ eof = {} /\ rerror = {} /\ pendingEof = {}
    /\ avail = [s \in Side |-> IF s = "c" /\ Deferred THEN 1 ELSE 0]
    /\ open = {"c"} /\ cerror = {} /\ buffered = {} /\ closing = {} /\ shut = {}
    /\ bufs = [b \in BufId |-> [pos |-> 0, last |-> 0, temp |-> FALSE]]
    /\ nbufs = 0 /\ mem = [d \in Dir |-> [i \in 1 .. BufSize |-> 0]]
    /\ last = [d \in Dir |-> 0] /\ free = <<>>
    /\ out = [d \in Dir |-> <<>>] /\ busy = out /\ wf = out
    /\ received = [d \in Dir |-> 0]
    /\ connected = FALSE /\ halfClosed = FALSE /\ tries = Tries /\ held = FALSE
    /\ resolving = UseResolver /\ now = 0 /\ outcome = "none" /\ early = 0
    /\ step = IF UseResolver THEN "idle" ELSE "connect"
    /\ dir = "up" /\ dw = FALSE

Connecting == \/ Resolved \/ GetPeer \/ DialFails \/ ConnectAgain \/ ConnectNow
              \/ ConnectTimeout \/ InitUpstream
              \/ \E e \in UpEvents : ConnectHandler(e)

Loop == \/ EpollWait \/ ShutdownTimeout
        \/ \E s \in Side : DispatchRead(s) \/ DispatchWrite(s)
        \/ \E e \in Event : Handler(e) \/ DelayTimeout(e) \/ IdleTimeout(e)

Process == \/ SkipWrite \/ WriteFilter \/ SendBlocked \/ SendFails \/ SendBytes
           \/ SendDone \/ UpdateChains
           \/ SkipRead \/ ReadLimited \/ RecvAgain \/ RecvData \/ RecvEnd \/ RecvNoBuffer
           \/ FinishDisconnected \/ ShutdownFails \/ Finish

Remote == \/ \E s \in Side : RemoteSend(s) \/ RemoteFin(s) \/ RemoteReset(s) \/ RemoteTake(s)
          \/ ConnectCompletes \/ Tick

Next == Connecting \/ Loop \/ Process \/ Remote \/ Done

Spec == Init /\ [][Next]_vars

\* The event loop keeps running, timers expire, the remote ends keep reading
\* and the network completes or refuses a connection.
WorkerStep == \/ Process \/ EpollWait
              \/ Resolved \/ GetPeer \/ DialFails \/ ConnectAgain \/ ConnectNow \/ InitUpstream
              \/ \E e \in UpEvents : ConnectHandler(e)
              \/ \E s \in Side : DispatchRead(s) \/ DispatchWrite(s)
              \/ \E e \in Event : Handler(e)

Fairness ==
    /\ WF_vars(WorkerStep)
    /\ WF_vars(ConnectTimeout)
    /\ \A e \in Event : WF_vars(DelayTimeout(e)) /\ WF_vars(IdleTimeout(e))
    /\ \A s \in Side : WF_vars(RemoteTake(s))
    /\ WF_vars(ConnectCompletes)
    /\ WF_vars(Tick)

FairSpec == Spec /\ Fairness

-----------------------------------------------------------------------------
(* Properties.                                                             *)

TypeOK ==
    /\ sent \in [Dir -> Nat] /\ fin \subseteq Side /\ rst \subseteq Side
    /\ wire \in [Dir -> Seq(Nat)] /\ taken \in [Dir -> Nat]
    /\ upsock \in {"none", "inprogress", "established", "failed"} /\ nospace \subseteq Side
    /\ active \subseteq Event /\ armed \subseteq Side
    /\ revents \subseteq Side \X {"in", "out", "rdhup"}
    /\ ready \subseteq Event /\ timer \subseteq Event /\ posted \subseteq Event
    /\ delayed \subseteq Side /\ eof \subseteq Side
    /\ rerror \subseteq Side /\ pendingEof \subseteq Side
    /\ avail \in [Side -> Int]
    /\ open \subseteq Side /\ cerror \subseteq Side /\ buffered \subseteq Side
    /\ closing \subseteq Side /\ shut \subseteq Side
    /\ bufs \in [BufId -> Buf] /\ nbufs \in 0 .. MaxBufs
    /\ mem \in [Dir -> [1 .. BufSize -> Nat]] /\ last \in [Dir -> 0 .. BufSize]
    /\ free \in Seq(BufId)
    /\ out \in [Dir -> Seq(BufId)] /\ busy \in [Dir -> Seq(BufId)] /\ wf \in [Dir -> Seq(BufId)]
    /\ received \in [Dir -> Nat]
    /\ connected \in BOOLEAN /\ halfClosed \in BOOLEAN /\ tries \in Nat
    /\ held \in BOOLEAN /\ resolving \in BOOLEAN /\ now \in Nat
    /\ outcome \in Outcome /\ early \in Nat
    /\ step \in Step /\ dir \in Dir /\ dw \in BOOLEAN

\* What goes out of a direction is what came in, in order and without a gap,
\* although one buffer is refilled and rewound while parts of it are still
\* queued in chains whose links and ngx_buf_t are recycled.
RelayFIFO == \A d \in Dir : wire[d] = [i \in 1 .. Len(wire[d]) |-> i]

\* The bytes a direction has read and not written are in its chains, once:
\* nothing is dropped when chains move from out to the filter to busy to free.
NothingLost ==
    step \in {"idle", "read"} /\ connected =>
       \A d \in Dir :
          /\ wf[d] = busy[d] /\ out[d] = <<>>
          /\ received[d] - Len(wire[d]) =
               FoldSeq(LAMBDA b, n : SizeOf(b) + n, 0, wf[d])
          /\ Dst(d) \in buffered <=> wf[d] # <<>>

\* A session ended as "disconnected" has passed on everything an end of input
\* promised: each direction whose destination did not itself close is written
\* out, and everything its source sent before closing was read.
FlushedAtClose ==
    outcome = "disconnected" =>
       \A d \in Dir :
          \/ Dst(d) \in eof /\ ~HalfClose
          \/ /\ Len(wire[d]) = received[d]
             /\ Src(d) \in fin \ rst => (Src(d) \in eof => received[d] = sent[d])

\* With half_close, dst learns of the end of input only after the last byte.
HalfCloseAfterFlush ==
    [][\A d \in Dir : Dst(d) \in shut' \ shut =>
          /\ Src(d) \in eof /\ Len(wire[d]) = received[d]
          /\ Src(d) \notin rst => Len(wire[d]) = sent[d]]_vars

Quiet == step = "idle" /\ posted = {} /\ revents = {} /\ armed = {}

\* epoll is edge triggered: when the worker has nothing to do, every unread
\* input and unsent output has a timer or an edge still to come.
NoLostEvent ==
    Quiet /\ connected =>
       \A d \in Dir :
          /\ Dst(d) \in buffered => Dst(d) \in nospace
          /\ (Queued(Src(d)) > 0 \/ Src(d) \in fin \cup rst) /\ Src(d) \notin eof =>
                \/ Src(d) \in delayed /\ Rd(Src(d)) \in timer
                \/ last[d] = BufSize /\ Dst(d) \in nospace

\* A session at rest is never without the timer that bounds it: the connect
\* timer, then the idle timer, which gives way to the rate limits' timers.
\* The connect timer is set whenever connect_handler() may run: it deletes the
\* timer without asking whether it is set.
TimerGuards ==
    step = "idle" =>
       /\ ~connected => IF "u" \in open THEN "uw" \in timer ELSE resolving
       /\ connected => ("cw" \in timer <=> delayed = {}) /\ "uw" \notin timer
       /\ \A s \in Side : s \in delayed <=> Rd(s) \in timer

\* What has been read of a direction without a rate limit, so far or in all
Unlimited(d) == IF ~connected THEN received[d] ELSE IF d = "up" THEN early ELSE 0

\* While the upstream is not connected a client's bytes are read without a rate
\* limit, but no more than fit into the buffer, and nothing is read of the
\* upstream.  What is read later, the client waiting until the rate has caught
\* up with what was read before, is what the rate allows since the start of
\* the session.
RateBound ==
    \A d \in Dir : Rate[d] > 0 =>
       /\ Unlimited(d) <= IF d = "up" THEN BufSize ELSE 0
       /\ received[d] <= Unlimited(d) \/ received[d] <= Rate[d] * (now + 1)

\* What is sent is delivered, or the session ends.
Delivery ==
    \A d \in Dir : \A k \in 1 .. MaxBytes[d] :
       (connected /\ sent[d] = k) ~> (Len(wire[d]) >= k \/ step = "done")

\* Once both ends have closed, the session ends.
Termination == (fin = Side) ~> (step = "done")

\* worker_shutdown_timeout ends every session, also one still connecting.
ShutdownEnds == (closing # {}) ~> (step = "done")

\* The session implements the channel pair of module Relay.
RelayState == IF step # "done" THEN "open"
              ELSE IF outcome = "disconnected" THEN "closed" ELSE "aborted"

R == INSTANCE Relay WITH state <- RelayState

ImplementsRelay == R!Spec

=============================================================================
