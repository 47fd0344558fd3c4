----------------------------- MODULE MCPricing ------------------------------
(* Policies, prices and windows of a night for TLC.                        *)
EXTENDS Pricing

Always(priority) == [priority |-> priority, ours |-> TRUE, from |-> 0, until |-> 9]
Ended(priority) == [Always(priority) EXCEPT !.from = 0, !.until = 0]
Others(priority) == [Always(priority) EXCEPT !.ours = FALSE]

Terms(model, minimum, asks) == [model |-> model, minimum |-> minimum, proration |-> TRUE, release |-> TRUE,
                                asksClient |-> asks, after |-> IF asks THEN 1 ELSE Never]
Block == [filter |-> Always(1), terms |-> Terms("BOOKED_BLOCK", 0, TRUE)]
Actual == [filter |-> Always(2), terms |-> Terms("ACTUAL_TIME", 0, FALSE)]
Minimum == [filter |-> Always(3), terms |-> Terms("MINIMUM_GUARANTEED", 3, TRUE)]
Gone == [filter |-> Ended(4), terms |-> Terms("ACTUAL_TIME", 0, TRUE)]
MCBilling == {Block, Actual, Minimum, Gone}

PayActual == [filter |-> Always(1), terms |-> [model |-> "ACTUAL_TIME", minimum |-> 0, onRelease |-> TRUE]]
PayMinimum == [filter |-> Always(2),
               terms |-> [model |-> "MINIMUM_GUARANTEED", minimum |-> 2, onRelease |-> FALSE]]
MCPay == {PayActual, PayMinimum}

FlatOfOthers == [filter |-> Others(2), model |-> "FLAT", hourly |-> FALSE, flat |-> TRUE]
NoFee == [filter |-> Always(1), model |-> "FLAT", hourly |-> TRUE, flat |-> FALSE]
MCRules == {FlatOfOthers, NoFee}

(* From 20:30 or 21:00 of the second day to 22:30, and one hour.           *)
MCWindows == {<<89, 93>>, <<90, 93>>, <<89, 91>>}

Quiet == [billing |-> {Block}, pay |-> {PayActual}, rules |-> {}, changes |-> 0,
          scans |-> FALSE, overlap |-> FALSE, rows |-> 2]
MCScenarios ==
    {[Quiet EXCEPT !.rows = 3],
     [Quiet EXCEPT !.billing = {Block, Actual}, !.pay = MCPay],
     [Quiet EXCEPT !.billing = {Block, Minimum}],
     [Quiet EXCEPT !.billing = {Block, Gone}, !.rules = {FlatOfOthers}, !.changes = 1],
     [Quiet EXCEPT !.billing = {Actual}, !.scans = TRUE]}
MCOverlap == {[Quiet EXCEPT !.overlap = TRUE, !.rows = 1]}
=============================================================================
