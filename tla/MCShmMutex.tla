------------------------------ MODULE MCShmMutex ------------------------------
(* Three workers, some of which may be killed, for TLC. *)
EXTENDS ShmMutex

CONSTANTS w1, w2, w3

ThreeWorkers == {w1, w2, w3}

=============================================================================
