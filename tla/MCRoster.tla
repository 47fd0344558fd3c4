------------------------------ MODULE MCRoster ------------------------------
(* In turn: a new guardian whose account is managed while it works and      *)
(* leaves early; two on file, one relieving the other.  Overlapping: one    *)
(* guardian whom two jobs share; one whose account is managed meanwhile,    *)
(* the same with handlers that fail half way.                               *)
EXTENDS Roster

CONSTANTS j1, j2

InTurn == [serial |-> TRUE, trouble |-> FALSE, onFile |-> {}, managed |-> {1},
           open |-> {j1}, leave |-> {j1}]
Relieved == [InTurn EXCEPT !.onFile = {1, 2}, !.managed = {}]
Shared == [InTurn EXCEPT !.serial = FALSE, !.onFile = {1}, !.managed = {}, !.open = {j1, j2},
                            !.leave = {}]
Managed == [Shared EXCEPT !.managed = {1}, !.open = {j1}]
Failing == [Managed EXCEPT !.trouble = TRUE]

MCScenarios == {InTurn, Relieved, Shared, Managed, Failing}
=============================================================================
