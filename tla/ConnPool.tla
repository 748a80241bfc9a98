------------------------------ MODULE ConnPool ------------------------------
(***************************************************************************)
(* The connections of one worker process: the array of ngx_connection_t,   *)
(* its list of free ones and the instance bit by which an epoll event is   *)
(* recognised as stale (core/ngx_connection.c, event/modules/              *)
(* ngx_epoll_module.c).                                                    *)
(*                                                                         *)
(* The operators work on a worker record wk; of its fields they use        *)
(*   free    free_connections, the first to be taken first                 *)
(*   inst    the instance bit of each connection's events                  *)
(*   conn    what each connection is used for                              *)
(*   posted  the queue ngx_posted_events, one entry per connection         *)
(*   taken   how often a connection has been taken since the worker's last *)
(*           epoll_wait(): 0, 1, then 2 for even and 3 for odd.  The code  *)
(*           has no such counter; the properties need it.                  *)
(* The read and the write event of a connection are one event here: the    *)
(* stream modules register and delete them together.                       *)
(***************************************************************************)
EXTENDS Integers, FiniteSets, SequencesExt

CONSTANT ConnectionN    \* connections for clients and upstreams

ASSUME ConnectionAssumption == ConnectionN \in Nat \ {0}

Connections == 1..ConnectionN

(* use: "free" (fd is -1), "new" (accepted, its session not started yet),  *)
(* "client" or "upstream"; peer: the other side; active: registered with   *)
(* epoll; tries: the peers a client's session may still try; cleanup: the  *)
(* limit_conn cleanups of its pool, the last added first.                  *)
Unused == [use |-> "free", peer |-> 0, active |-> FALSE, tries |-> 0,
           cleanup |-> <<>>]

(* ngx_get_connection(), when there is a free one: the bit is flipped *)
\* mutant: the events are zeroed, their instance included
GetConnectionZeroed(wk, use) ==
    LET c == Head(wk.free)
    IN [wk EXCEPT !.free = Tail(@),
                  !.inst[c] = 0,
                  !.taken[c] = IF @ = 3 THEN 2 ELSE @ + 1,
                  !.conn[c] = [Unused EXCEPT !.use = use]]

GetConnection(wk, use) ==
    LET c == Head(wk.free)
    IN [wk EXCEPT !.free = Tail(@),
                  !.inst[c] = 1 - @,
                  !.taken[c] = IF @ = 3 THEN 2 ELSE @ + 1,
                  !.conn[c] = [Unused EXCEPT !.use = use]]

FreeConnection(wk, c) == [wk EXCEPT !.free = <<c>> \o @]

(* ngx_close_connection(): its posted events are deleted with it *)
\* mutant: a posted event survives the connection
CloseConnectionPosted(wk, c) ==
    [FreeConnection(wk, c) EXCEPT !.conn[c] = Unused]

CloseConnection(wk, c) ==
    [FreeConnection(wk, c) EXCEPT !.conn[c] = Unused,
                                  !.posted = RemoveFirst(@, c)]

(* ngx_close_accepted_connection(): nothing has been posted for it yet *)
CloseAcceptedConnection(wk, c) ==
    [FreeConnection(wk, c) EXCEPT !.conn[c] = Unused]

(* the event e of a batch is not taken for a stale one *)
Passes(wk, e) ==
    /\ wk.conn[e.c].use # "free"
    /\ wk.inst[e.c] = e.inst
    /\ wk.conn[e.c].active
=============================================================================
