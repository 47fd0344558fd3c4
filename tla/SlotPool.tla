------------------------------ MODULE SlotPool ------------------------------
(***************************************************************************)
(* What staffing a job promises, with no locks, no job status and no       *)
(* concurrency: a job asks for Requested guardians, offers are opened and  *)
(* closed, an open offer may take one of the slots that is left, and a     *)
(* slot comes free again only when its guardian turns out to be absent.    *)
(***************************************************************************)
EXTENDS Naturals, FiniteSets

CONSTANTS Offers, Requested

VARIABLES
    held,    \* offers that hold a slot
    open,    \* offers that may still take one
    absent   \* offers whose guardian did not show up

poolVars == <<held, open, absent>>

Init == held = {} /\ open = {} /\ absent = {}

Extend == \E S \in SUBSET (Offers \ (held \cup open \cup absent)) :
              open' = open \cup S /\ UNCHANGED <<held, absent>>

Close ==
    /\ open' \in SUBSET open
    /\ absent \subseteq absent'
    /\ absent' \cap held = {}
    /\ held' = held

(* The offer that takes the last slot closes all the others with it. *)
Take(o) ==
    /\ o \in open
    /\ Cardinality(held) < Requested
    /\ held' = held \cup {o}
    /\ open' = IF Cardinality(held) + 1 = Requested THEN {} ELSE open \ {o}
    /\ absent' = absent

GiveUp(o) ==
    /\ o \in held
    /\ held' = held \ {o}
    /\ absent' = absent \cup {o}
    /\ open' = open

Next == \/ Extend
        \/ Close
        \/ \E o \in Offers : Take(o) \/ GiveUp(o)

Spec == Init /\ [][Next]_poolVars
=============================================================================
