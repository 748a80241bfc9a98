-------------------------------- MODULE Relay --------------------------------
(***************************************************************************)
(* What a proxied TCP session promises to its two ends, without buffers,   *)
(* events or timers: each direction is a FIFO channel; an end of input     *)
(* overtakes no byte; the session closes in order only when nobody who is  *)
(* still listening misses anything, and may be aborted at any time.        *)
(***************************************************************************)
EXTENDS Naturals, Sequences

CONSTANT HalfClose

Side == {"c", "u"}
Dir  == {"up", "down"}
Src(d) == IF d = "up" THEN "c" ELSE "u"
Dst(d) == IF d = "up" THEN "u" ELSE "c"

VARIABLES
    sent,    \* bytes each direction's source has sent
    fin,     \* sources that have ended their input
    rst,     \* ends that have reset the connection
    wire,    \* what each direction has delivered to its destination's socket
    shut,    \* ends told that no more input will come
    state    \* "open", "closed" (in order) or "aborted"

vars == <<sent, fin, rst, wire, shut, state>>

Complete(d) == Len(wire[d]) = sent[d]
Ended == fin \cup rst

Init == /\ sent = [d \in Dir |-> 0] /\ wire = [d \in Dir |-> <<>>]
        /\ fin = {} /\ rst = {} /\ shut = {} /\ state = "open"

\* The remote ends: a byte, an end of input, a reset
Source(d) ==
    /\ state = "open"
    /\ \/ /\ Src(d) \notin Ended
          /\ sent' = [sent EXCEPT ![d] = @ + 1] /\ UNCHANGED <<fin, rst>>
       \/ fin' = fin \cup {Src(d)} /\ UNCHANGED <<sent, rst>>
       \/ rst' = rst \cup {Src(d)} /\ UNCHANGED <<sent, fin>>
    /\ UNCHANGED <<wire, shut, state>>

\* Another upstream may be tried only while nothing has been relayed
Retry ==
    /\ state = "open" /\ \A d \in Dir : wire[d] = <<>>
    /\ sent' = [sent EXCEPT !["down"] = 0]
    /\ fin' = fin \ {"u"} /\ rst' = rst \ {"u"}
    /\ UNCHANGED <<wire, shut, state>>

\* The next n bytes, in order, none of them before it was sent
Forward(d) ==
    /\ state = "open"
    /\ \E n \in 1 .. sent[d] - Len(wire[d]) :
          wire' = [wire EXCEPT ![d] = @ \o [i \in 1 .. n |-> Len(@) + i]]
    /\ UNCHANGED <<sent, fin, rst, shut, state>>

\* With half_close an end of input is passed on after the last byte
PassEnd(d) ==
    /\ state = "open" /\ HalfClose
    /\ Src(d) \in Ended /\ (Src(d) \notin rst => Complete(d))
    /\ shut' = shut \cup {Dst(d)}
    /\ UNCHANGED <<sent, fin, rst, wire, state>>

\* Closing in order, after an end of input or of both
Close ==
    /\ state = "open"
    /\ IF HalfClose
       THEN /\ Ended = Side
            /\ \A d \in Dir : Src(d) \notin rst => Complete(d)
       ELSE /\ Ended # {}
            /\ \A d \in Dir : Src(d) \in fin \ rst /\ Dst(d) \notin Ended => Complete(d)
    /\ state' = "closed"
    /\ UNCHANGED <<sent, fin, rst, wire, shut>>

Abort ==
    /\ state = "open" /\ state' = "aborted"
    /\ UNCHANGED <<sent, fin, rst, wire, shut>>

Next == (\E d \in Dir : Source(d) \/ Forward(d) \/ PassEnd(d)) \/ Retry \/ Close \/ Abort

Spec == Init /\ [][Next]_vars

=============================================================================
