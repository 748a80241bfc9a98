---------------------------- MODULE MCUdpSession ----------------------------
(* Small servers of UdpSession for TLC. *)
EXTENDS UdpSession

CONSTANTS c1, c2

TwoClients == {c1, c2}

Base == [requests |-> 0, responses |-> 1, tries |-> 1, resolver |-> FALSE,
         limited |-> {}, busy |-> FALSE, fails |-> FALSE]

MCConfigurations ==
    { \* a question and an answer, each question a session of its own
      [Base EXCEPT !.requests = 1, !.resolver = TRUE, !.tries = 2, !.fails = TRUE],
      \* several datagrams of a session, two peers
      [Base EXCEPT !.requests = 2, !.limited = {"c"}, !.resolver = TRUE, !.fails = TRUE],
      \* no answer is expected, the upstream is slow
      [Base EXCEPT !.responses = 0, !.busy = TRUE],
      \* rates in both directions
      [Base EXCEPT !.limited = {"c", "u"}],
      \* only the timeout ends a session
      [Base EXCEPT !.responses = Unlimited, !.busy = TRUE, !.fails = TRUE] }

=============================================================================
