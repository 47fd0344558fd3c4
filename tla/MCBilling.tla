----------------------------- MODULE MCBilling -----------------------------
(* Three offices: a clerk who never crashes, one who does, and two at once. *)
EXTENDS Billing

CONSTANTS c1, c2

MCOffices == {<<{c1}, FALSE>>, <<{c1}, TRUE>>, <<{c1, c2}, FALSE>>}
=============================================================================
