---------------------------- MODULE MCStreamProxy ----------------------------
(* Small sessions of StreamProxy for TLC. *)
EXTENDS StreamProxy

\* More bytes than the socket takes at once, and one that comes back
ThreeUpOneDown == [d \in Dir |-> IF d = "up" THEN 3 ELSE 1]
TwoUp        == [d \in Dir |-> IF d = "up" THEN 2 ELSE 0]
NoLimit      == [d \in Dir |-> 0]
UpLimit      == [d \in Dir |-> IF d = "up" THEN 1 ELSE 0]

=============================================================================
