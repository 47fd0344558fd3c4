------------------------------ MODULE MCOutbox ------------------------------
(* Two processes with Redis, one of which dies, claiming one event at a time; two that release *)
(* offers; two whose clocks disagree; two with a Redis and a database that fail; two without   *)
(* Redis, and with a database that fails.                                                      *)
EXTENDS Outbox

Dying == [limit |-> 1, redis |-> TRUE, crashes |-> 1, failures |-> FALSE, releases |-> FALSE,
          skew |-> FALSE]
Releasing == [Dying EXCEPT !.limit = 2, !.crashes = 0, !.releases = TRUE]
Skewed == [Dying EXCEPT !.crashes = 0, !.skew = TRUE]
Refusing == [Dying EXCEPT !.crashes = 0, !.failures = TRUE]
WithTimers == [Refusing EXCEPT !.limit = 2, !.redis = FALSE]

MCScenarios == {Dying, Releasing, Skewed, Refusing, WithTimers}
=============================================================================
