------------------------- MODULE MCOfferAcceptance -------------------------
(* Small instances of OfferAcceptance for TLC. *)
EXTENDS OfferAcceptance, TLC

Symmetric == Permutations(Offers) \cup Permutations(Txns) \cup Permutations(Workers)
=============================================================================
