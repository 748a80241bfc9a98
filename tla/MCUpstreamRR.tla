----------------------------- MODULE MCUpstreamRR -----------------------------
(* Small upstreams for UpstreamRR. *)
EXTENDS UpstreamRR, TLC

CONSTANTS s1, s2, s3

ThreeSessions == {s1, s2, s3}
SessionSymmetry == Permutations(ThreeSessions)

\* A heavy peer that takes two sessions, and a light one that takes one
Weights     == <<3, 1>>
Conns       == <<2, 1>>
Fails       == <<1, 2>>
Timeouts    == <<1, 1>>
NoneDown    == <<FALSE, FALSE>>

\* What decides the next steps and the invariants.  Left out is what nobody
\* reads any more: the peer data of a session that is over, the time of a worker
\* that will update it first, the reason of a lock taken before, and answered,
\* which is history for another run's property.
Over == {s \in Session : pc[s] = "done"}
RRView ==
    <<peers, locks, held, loaded, pc, now, probe,
      [s \in Session \ Over |-> <<group[s], current[s], tried[s], tries[s]>>],
      [s \in {t \in Over : probe[t] > 0} |-> current[s]],
      [s \in {t \in Session : Running(t)} |-> clock[s]],
      [s \in {t \in Session : Reading(t) \/ pc[t] = "enter"} |-> job[s]]>>

=============================================================================
