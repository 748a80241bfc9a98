----------------------------- MODULE LimitConn ------------------------------
(***************************************************************************)
(* The connection counters that all workers share                          *)
(* (stream/ngx_stream_limit_conn_module.c).  A zone keeps a tree with one  *)
(* node per key that is in use; the sessions here have the same key in     *)
(* each zone, so a zone is one counter and its node exists while it is not *)
(* 0.  The zone's mutex makes each operation one step (see ShmMutex).      *)
(***************************************************************************)
EXTENDS Integers, SequencesExt

(* lc->conn >= limits[i].conn *)
LimitReached(count, limit) == count >= limit

(* ngx_stream_limit_conn_cleanup() of each cleanup in the pools of the     *)
(* sessions C of worker wk, run by cleanup_all or when a pool is destroyed *)
CleanupsOf(wk, C, z) ==
    UNION {{<<c, i>> : i \in {j \in DOMAIN wk.conn[c].cleanup :
                                wk.conn[c].cleanup[j] = z}} : c \in C}
Lowered(zones, wk, C) ==
    [z \in DOMAIN zones |-> zones[z] - Cardinality(CleanupsOf(wk, C, z))]

(* ngx_stream_limit_conn_cleanup_all() leaves the pool without them *)
\* mutant: the pool keeps the cleanups, and runs them again at its end
CleanupAllKept(wk, c) == wk

CleanupAll(wk, c) == [wk EXCEPT !.conn[c].cleanup = <<>>]
=============================================================================
