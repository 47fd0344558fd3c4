--------------------------- MODULE MCRegistration ---------------------------
(* One request at a time, a handler of which dies; two at a time, with one *)
(* organisation because each request gives the number, and with two.       *)
EXTENDS Registration

CONSTANTS c1, c2

InTurn == [clerks |-> {c1}, crashes |-> 1, types |-> OrgType, papers |-> {"NATIONAL_ID", "TIN_CERTIFICATE"},
           tins |-> Tin, reviewed |-> TRUE]
Together == [clerks |-> {c1, c2}, crashes |-> 0, types |-> {"BUSINESS"}, papers |-> {"TIN_CERTIFICATE"},
             tins |-> {"given"}, reviewed |-> TRUE]
Numbered == [Together EXCEPT !.tins = {"omitted", "given"}, !.reviewed = FALSE]

MCScenarios == {InTurn, Together, Numbered}
=============================================================================
