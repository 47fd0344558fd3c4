----------------------------- MODULE MCSessions -----------------------------
(* One device, whose handlers may die or whose account is barred; two      *)
(* devices that sign in for the first time; two with a password, which is  *)
(* reset; and two that are signed in and ask for permissions.              *)
EXTENDS Sessions

CONSTANTS d1, d2

Alone == [users |-> {d1}, phones |-> {d1}, aims |-> {"signIn"}, mistype |-> TRUE,
          sessions |-> {"refresh", "logout", "expire"}, redis |-> TRUE, office |-> FALSE, crashes |-> 2]
InMemory == [Alone EXCEPT !.redis = FALSE, !.aims = {"signIn", "reset"}, !.mistype = FALSE,
                          !.sessions = {"switch", "expire"}, !.crashes = 1]
Barred == [Alone EXCEPT !.aims = {"signIn", "reset"}, !.sessions = {"logout"}, !.mistype = FALSE,
                        !.office = TRUE, !.crashes = 0]
Entering == [users |-> {d1, d2}, phones |-> {d1, d2}, aims |-> {"signIn"}, mistype |-> TRUE,
             sessions |-> {}, redis |-> TRUE, office |-> FALSE, crashes |-> 1]
Resetting == [Entering EXCEPT !.phones = {d1}, !.aims = {"reset"}, !.mistype = FALSE,
                              !.sessions = {"refresh"}, !.crashes = 0]
Asking == [Entering EXCEPT !.aims = {}]

MCScenarios == {Alone, InMemory, Barred, Entering, Resetting, Asking}
=============================================================================
