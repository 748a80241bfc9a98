----------------------------- MODULE UdpSession -----------------------------
(***************************************************************************)
(* The UDP sessions of one worker: the datagrams of a listening socket are *)
(* given to the session of their client, found in the socket's tree, or    *)
(* start a new one (event/ngx_event_udp.c); the stream proxy passes them   *)
(* on, counts requests and responses, limits rates and ends the session    *)
(* (stream/ngx_stream_proxy_module.c), writing through the write filter    *)
(* and ngx_udp_unix_sendmsg_chain().                                       *)
(*                                                                         *)
(* A handler is one step: the worker is the only one to touch a session.   *)
(* What the kernel answers to its calls is chosen in the step.  Datagram   *)
(* number k of a session is the one that raised u->requests to k.          *)
(*                                                                         *)
(* Abstracted: bytes per second.  A limited direction may be delayed       *)
(* before any read and after any datagram that is not empty.               *)
(***************************************************************************)
EXTENDS Integers, FiniteSets, Sequences, SequencesExt

CONSTANTS
    Clients,         \* addresses of clients
    Sizes,           \* of the clients' datagrams, in bytes
    BufSize,         \* proxy_buffer_size
    ConnectionN,     \* connections of the worker, for clients and upstreams
    MaxDatagrams,    \* bound: datagrams the listening socket receives
    MaxReplies,      \* bound: datagrams an upstream sends in a session
    Unlimited,       \* proxy_responses when it is not configured
    Configurations   \* the values of conf

ASSUME UdpAssumption ==
    /\ Sizes \subseteq Nat
    /\ BufSize \in Nat \ {0}
    /\ ConnectionN \in Nat
    /\ MaxDatagrams \in Nat
    /\ MaxReplies \in Nat
    /\ Unlimited \notin Nat
    /\ \A k \in Configurations :
          /\ k.requests \in Nat            \* proxy_requests, 0 is no limit
          /\ k.responses \in Nat \cup {Unlimited}
          /\ k.tries \in Nat \ {0}         \* peers of the upstream
          /\ k.resolver \in BOOLEAN        \* its name is resolved at run time
          /\ k.limited \subseteq {"c", "u"}  \* rates on reading from them
          /\ k.busy \in BOOLEAN            \* a send buffer may fill up
          /\ k.fails \in BOOLEAN           \* calls may fail

Slots == 1..ConnectionN

VARIABLES
    conf,      \* the server's configuration
    sess,      \* the sessions
    arrived,   \* datagrams received so far
    exiting    \* the worker shuts down gracefully: ngx_exiting

vars == <<conf, sess, arrived, exiting>>

(* The fields of a session:                                                *)
(*   state      "free", "resolving" or "open" (u->connected)               *)
(*   client     c->sockaddr                                                *)
(*   bound      in the tree of the listening socket: c->udp is not NULL    *)
(*   first      size of c->buffer, the datagram that made the session      *)
(*   requests, responses   the counters of u                               *)
(*   chain      u->upstream_out, then the chain saved by the write filter  *)
(*   used       bytes of u->downstream_buf in use                          *)
(*   freed      "no"; "yes": the buffer of an empty datagram at the head   *)
(*              of chain is in u->free; "taken": by a later datagram, so   *)
(*              the chain holds it twice; "spent": with no data left       *)
(*   given      the datagrams sent to the upstream (history)               *)
(*   dropped    those counted that never will be (history)                 *)
(*   ready      pc->write->ready                                           *)
(*   delayed    which of c->read and pc->read are delayed                  *)
(*   timer      timers set: "c", "u" of these, "idle" of c->write          *)
(*   error      pc->read->error                                            *)
(*   replies, refused   what waits at pc: datagrams, an ICMP error         *)
Free ==
    [state |-> "free", client |-> "none", bound |-> FALSE, first |-> 0,
     requests |-> 0, responses |-> 0, chain |-> <<>>, used |-> 0, freed |-> "no",
     given |-> <<>>, dropped |-> {}, ready |-> FALSE, delayed |-> {},
     timer |-> {}, error |-> FALSE, replies |-> 0, refused |-> FALSE]

\* the result of a call that fails: the session is finalized
Failing == IF conf.fails THEN {Free} ELSE {}

Ids(q) == {q[i].id : i \in DOMAIN q}

-----------------------------------------------------------------------------
(* Writing to the upstream.                                                *)

(* How many datagrams of the chain q one call may send: ngx_chain_update_  *)
(* sent() steps over the empty ones that follow what was sent.             *)
Cuts(q) == {p \in 0..Len(q) : p \in 1..(Len(q) - 1) => q[p + 1].size > 0}

(* Those of the first p that are sent: not the empty ones it steps over.   *)
SentIds(q, p) ==
    LET ids[k \in 0..p] ==
            IF k = 0 THEN <<>>
            ELSE IF k = 1 \/ q[k].size > 0 THEN Append(ids[k - 1], q[k].id)
            ELSE ids[k - 1]
    IN ids[p]

(* ngx_udp_unix_sendmsg_chain() has taken the first p off the chain. *)
Sent(s, p) ==
    LET out == SentIds(s.chain, p)
    IN [s EXCEPT !.chain = SubSeq(@, p + 1, Len(@)),
                 !.given = @ \o out,
                 !.dropped = @ \cup (Ids(SubSeq(s.chain, 1, p)) \ ToSet(out)),
                 !.ready = p = Len(s.chain)]

(* ngx_chain_update_chains(), and the buffer is reset if nothing is busy.  *)
(* An unsent empty datagram has size 0 and is freed as if it were sent.    *)
UpdateChains(s) ==
    LET busy == s.chain # <<>> /\ \E i \in DOMAIN s.chain : s.chain[i].size > 0
    IN [s EXCEPT !.used = IF busy THEN @ ELSE 0,
                 !.freed = IF @ \in {"taken", "spent"} THEN @
                           ELSE IF s.chain # <<>> /\ Head(s.chain).size = 0 THEN "yes"
                           ELSE "no"]

(* A buffer the chain holds twice is sent once; what is left of it goes    *)
(* out as empty datagrams, as update_sent() never passes a buffer in       *)
(* memory for 0 bytes, until the socket is full.                           *)
SendTwice(s) == [s EXCEPT !.freed = "spent", !.ready = FALSE]

(* The results of the write half of ngx_stream_proxy_process() towards the *)
(* upstream.  The filter fails on a buffer with no data: "zero size buf".  *)
WriteUp(s) ==
    IF s.chain = <<>> THEN {s}
    ELSE IF s.freed = "spent" THEN {Free}
    ELSE IF ~s.ready THEN {UpdateChains(s)}
    ELSE IF s.freed = "taken" THEN {SendTwice(s)} \cup Failing
    ELSE LET possible == {p \in Cuts(s.chain) : \/ p = Len(s.chain)
                                                \/ conf.busy /\ (p > 0 \/ s.given # <<>>)}
         IN {UpdateChains(Sent(s, p)) : p \in possible} \cup Failing

-----------------------------------------------------------------------------
(* The end of ngx_stream_proxy_process().                                  *)

Enough(s) == conf.requests > 0 => s.requests >= conf.requests

(* ngx_stream_proxy_test_finalize(): ngx_delete_udp_connection() *)
Unbind(s) == [s EXCEPT !.bound = @ /\ (conf.requests > 0 => ~Enough(s))]

(* and the session is complete *)
Complete(s) ==
    /\ Enough(s)
    /\ conf.responses # Unlimited
    /\ s.responses >= conf.responses * s.requests
    /\ s.state = "open"
    /\ s.chain = <<>>

(* the timer of c->write *)
IdleTimer(s) ==
    [s EXCEPT !.timer = IF s.delayed = {} THEN @ \cup {"idle"} ELSE @ \ {"idle"}]

Finish(s) ==
    IF s.state = "free" THEN Free
    ELSE LET b == Unbind(s)
         IN IF Complete(b) THEN Free
            ELSE IF b.state = "open" THEN IdleTimer(b) ELSE b

Delay(s, x) == [s EXCEPT !.delayed = @ \cup {x}, !.timer = @ \cup {x}]

-----------------------------------------------------------------------------
(* Connecting.                                                             *)

ConnectionsUsed == Cardinality({i \in Slots : sess[i].state # "free"})
                 + Cardinality({i \in Slots : sess[i].state = "open"})

\* mutant: the datagram that made the session is sent after the later ones
AppendBuffer(s) == [s EXCEPT !.chain = Append(@, [id |-> 1, size |-> s.first])]

(* ngx_stream_proxy_init_upstream(): c->buffer goes before what came since *)
PrependBuffer(s) == [s EXCEPT !.chain = <<[id |-> 1, size |-> s.first]>> \o @]

(* ngx_stream_proxy_init_upstream() and the process() it ends with *)
InitUpstream(s) ==
    LET o == [PrependBuffer(s) EXCEPT !.state = "open", !.ready = TRUE]
    IN IF exiting THEN {Free} ELSE {Finish(w) : w \in WriteUp(o)}

(* ngx_stream_proxy_next_upstream() forgets what was to be sent *)
Forget(s) == [s EXCEPT !.chain = <<>>, !.dropped = @ \cup Ids(s.chain)]

(* The results of ngx_stream_proxy_connect(), which tries one peer after   *)
(* another; connect() of a UDP socket is never in progress.  n connections *)
(* are used already.                                                       *)
Connect(s, n) ==
    IF n = ConnectionN THEN {Free}
    ELSE InitUpstream(s)
         \cup Failing
         \cup (IF conf.fails /\ conf.tries > 1 THEN InitUpstream(Forget(s)) ELSE {})

-----------------------------------------------------------------------------
(* The listening socket: ngx_event_recvmsg().                              *)

(* The session of a new client: ngx_stream_proxy_handler() *)
NewSession(cl, n) ==
    [Free EXCEPT !.state = "resolving", !.client = cl, !.bound = TRUE,
                 !.first = n, !.requests = 1]

(* ngx_udp_shared_recv(): what does not fit into size is cut off *)
SharedRecv(n, size) == IF n < size THEN n ELSE size

(* A datagram of n bytes is read into the session's buffer, and counted. *)
Take(s, n) ==
    [s EXCEPT !.requests = @ + 1,
              !.chain = Append(@, [id |-> s.requests + 1, size |-> n]),
              !.used = @ + n,
              !.freed = IF @ = "yes" /\ n > 0 THEN "taken" ELSE @]

(* The results of the downstream handler when a datagram of n bytes waits  *)
(* at c: it is lost if reading is delayed, or the buffer full.             *)
FromClient(s, n) ==
    IF "c" \in s.delayed THEN {s}
    ELSE LET size == BufSize - s.used
             m    == SharedRecv(n, size)
             read == IF size = 0 THEN {}
                     ELSE {Take(s, m)} \cup
                          (IF "c" \in conf.limited /\ m > 0 THEN {Delay(Take(s, m), "c")} ELSE {})
             unread == IF size = 0 THEN {s}
                       ELSE (IF "c" \in conf.limited THEN {Delay(s, "c")} ELSE {})
                            \cup Failing
         IN {Finish(w) : w \in unread \cup
                IF s.state = "open" THEN UNION {WriteUp(t) : t \in read} ELSE read}

Update(i, results) ==
    \E s \in results : sess' = [sess EXCEPT ![i] = s]

(* ngx_lookup_udp_connection() finds a session of the client. *)
Known(cl) == {i \in Slots : sess[i].bound /\ sess[i].client = cl}

CanReceive == ~exiting /\ arrived < MaxDatagrams

DatagramOfKnown(cl, n) ==
    /\ CanReceive
    /\ arrived' = arrived + 1
    /\ \E i \in Known(cl) : Update(i, FromClient(sess[i], n))
    /\ UNCHANGED <<conf, exiting>>

(* A client without one: ngx_get_connection(), ngx_insert_udp_connection(). *)
(* With no free connection the datagram is lost, and nothing changes.      *)
DatagramOfNew(cl, n) ==
    /\ CanReceive
    /\ arrived' = arrived + 1
    /\ Known(cl) = {}
    /\ ConnectionsUsed < ConnectionN
    /\ LET i == CHOOSE i \in Slots : sess[i].state = "free"
            s == NewSession(cl, n)
       IN Update(i, (IF conf.resolver THEN {s} ELSE Connect(s, ConnectionsUsed + 1))
                    \cup Failing)
    /\ UNCHANGED <<conf, exiting>>

(* ngx_stream_proxy_resolve_handler(): the name was resolved, or not *)
Resolved(i) ==
    /\ sess[i].state = "resolving"
    /\ Update(i, Connect(sess[i], ConnectionsUsed) \cup Failing)
    /\ UNCHANGED <<conf, arrived, exiting>>

-----------------------------------------------------------------------------
(* The upstream.                                                           *)

(* m of the waiting datagrams are read and sent to the client; with an     *)
(* empty one, the last, if recv() failed. *)
Pass(s, m) ==
    [s EXCEPT !.responses = @ + m,
              !.replies = @ - m,
              !.freed = IF @ = "yes" /\ m > 0 THEN "spent" ELSE @]

(* recv() reports an ICMP error once: it counts as an empty response, and  *)
(* nothing is read any more.                                               *)
RecvError(s) ==
    [s EXCEPT !.responses = @ + 1, !.refused = FALSE, !.error = TRUE]

(* The read half of ngx_stream_proxy_process() from the upstream reads     *)
(* until recv() has no more, fails, or reading is delayed.  The client's   *)
(* socket is shared: a session that cannot write to it ends.               *)
ReadReplies(s) ==
    IF s.error THEN {s}
    ELSE (IF s.refused THEN {RecvError(Pass(s, m)) : m \in 0..s.replies}
                       ELSE {Pass(s, s.replies)})
         \cup (IF "u" \in conf.limited THEN {Delay(Pass(s, m), "u") : m \in 0..s.replies}
                                       ELSE {})
         \cup (IF s.replies > 0 \/ s.refused THEN Failing ELSE {})

(* ngx_stream_proxy_process() from the upstream *)
FromUpstream(s) == IF exiting THEN {Free} ELSE {Finish(r) : r \in ReadReplies(s)}

Reply(i) ==
    /\ sess[i].state = "open"
    /\ sess[i].given # <<>>
    /\ sess[i].responses + sess[i].replies < MaxReplies
    /\ sess' = [sess EXCEPT ![i].replies = @ + 1]
    /\ UNCHANGED <<conf, arrived, exiting>>

Refusal(i) ==
    /\ conf.fails
    /\ sess[i].state = "open"
    /\ sess[i].given # <<>>
    /\ ~sess[i].error
    /\ sess' = [sess EXCEPT ![i].refused = TRUE]
    /\ UNCHANGED <<conf, arrived, exiting>>

(* The upstream handler, for a read event *)
UpstreamReadable(i) ==
    /\ sess[i].state = "open"
    /\ sess[i].replies > 0 \/ sess[i].refused
    /\ "u" \notin sess[i].delayed
    /\ Update(i, FromUpstream(sess[i]))
    /\ UNCHANGED <<conf, arrived, exiting>>

(* and for a write event, when a full send buffer has room *)
UpstreamWritable(i) ==
    /\ sess[i].state = "open"
    /\ ~sess[i].ready
    /\ Update(i, IF exiting THEN {Free}
                 ELSE {Finish(w) : w \in WriteUp([sess[i] EXCEPT !.ready = TRUE])})
    /\ UNCHANGED <<conf, arrived, exiting>>

-----------------------------------------------------------------------------
(* Timers: ngx_stream_proxy_process_connection() with ev->timedout.        *)

Expired(s, x) == [s EXCEPT !.delayed = @ \ {x}, !.timer = @ \ {x}]

\* mutant: the idle timer is left to the next process()
ClientDelayForgotten(s) == Expired(s, "c")

(* c->read is never ready here: only the idle timer is set again. *)
ClientDelayOver(s) ==
    LET e == Expired(s, "c")
    IN IF e.state = "open" /\ e.delayed = {} THEN IdleTimer(e) ELSE e

(* pc->read was ready when it was delayed, and is read again. *)
DelayExpires(i) ==
    /\ \/ /\ "c" \in sess[i].timer
          /\ Update(i, {ClientDelayOver(sess[i])})
       \/ /\ "u" \in sess[i].timer
          /\ Update(i, FromUpstream(Expired(sess[i], "u")))
    /\ UNCHANGED <<conf, arrived, exiting>>

(* Complete or not, the session ends. *)
IdleExpires(i) ==
    /\ "idle" \in sess[i].timer
    /\ Update(i, {Free})
    /\ UNCHANGED <<conf, arrived, exiting>>

(* The listening sockets are closed, sessions go on until their next event. *)
Exit ==
    /\ ~exiting
    /\ exiting' = TRUE
    /\ UNCHANGED <<conf, sess, arrived>>

Init ==
    /\ conf \in Configurations
    /\ sess = [i \in Slots |-> Free]
    /\ arrived = 0
    /\ exiting = FALSE

Next ==
    \/ \E cl \in Clients, n \in Sizes : DatagramOfKnown(cl, n) \/ DatagramOfNew(cl, n)
    \/ \E i \in Slots : \/ Resolved(i)
                        \/ Reply(i) \/ Refusal(i)
                        \/ UpstreamReadable(i) \/ UpstreamWritable(i)
                        \/ DelayExpires(i) \/ IdleExpires(i)
    \/ Exit

Spec == Init /\ [][Next]_vars

-----------------------------------------------------------------------------
(* Properties.                                                             *)

(* Every datagram a session has counted was sent, waits its turn, or was   *)
(* dropped as the code means to: a later one that is empty, or one taken   *)
(* while connecting when a peer failed.  What is sent and what waits is in *)
(* the order of arrival.  A session takes no more than proxy_requests      *)
(* datagrams, or two for one, as the first is not checked while the        *)
(* upstream's name is resolved.                                            *)
RequestsAccounted ==
    \A i \in Slots :
       LET s      == sess[i]
           queued == [k \in DOMAIN s.chain |-> s.chain[k].id]
           line   == IF s.state = "resolving" THEN <<1>> \o queued
                                              ELSE s.given \o queued
       IN s.state # "free" /\ s.freed \in {"no", "yes"} =>
             /\ \A j, k \in DOMAIN line : j < k => line[j] < line[k]
             /\ ToSet(line) \cup s.dropped = 1..s.requests
             /\ ToSet(line) \cap s.dropped = {}
             /\ 1 \notin s.dropped
             /\ conf.requests > 0 =>
                   s.requests <= (IF conf.resolver /\ conf.requests = 1 THEN 2 ELSE conf.requests)

(* A session whose handlers have returned is not one that should be over:  *)
(* not complete, not in the tree after the last of its proxy_requests      *)
(* datagrams, and there is a timer to end it: that of each delayed         *)
(* direction, else the idle timer once it is connected.                    *)
NoneLingers ==
    \A i \in Slots :
       LET s == sess[i]
       IN /\ s.state = "open" =>
                /\ ~Complete(s)
                /\ s.bound => (conf.requests > 0 => s.requests < conf.requests)
                /\ s.timer = IF s.delayed = {} THEN {"idle"} ELSE s.delayed
          /\ s.state = "resolving" => s.timer = s.delayed

=============================================================================
