------------------------------ MODULE MCAccept ------------------------------
(* Two workers with the accept mutex, and one that accepts in a loop; the  *)
(* second zone rejects after the first has been raised.                    *)
EXTENDS Accept

MCConfigurations ==
    {[workers |-> 2, mutex |-> TRUE, multi |-> FALSE, dry |-> FALSE,
      limits |-> <<2, 1>>, clients |-> 2, faults |-> 2],
     [workers |-> 2, mutex |-> TRUE, multi |-> FALSE, dry |-> FALSE,
      limits |-> <<2, 1>>, clients |-> 3, faults |-> 0],
     [workers |-> 1, mutex |-> FALSE, multi |-> TRUE, dry |-> FALSE,
      limits |-> <<2, 1>>, clients |-> 3, faults |-> 2],
     [workers |-> 1, mutex |-> FALSE, multi |-> FALSE, dry |-> TRUE,
      limits |-> <<2, 1>>, clients |-> 3, faults |-> 1]}
=============================================================================
