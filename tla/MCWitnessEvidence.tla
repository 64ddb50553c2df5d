------------------------- MODULE MCWitnessEvidence -------------------------
(* A small instance of WitnessEvidence. *)
EXTENDS WitnessEvidence, TLC

CONSTANTS s1, e1, e2

OneSession   == {s1}
TwoExchanges == {e1, e2}

(* No action or property names an exchange.                                *)
MCSymmetry == Permutations(TwoExchanges)
=============================================================================
