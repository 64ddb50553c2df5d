------------------------- MODULE MCPageObservation -------------------------
(* A small instance of PageObservation. *)
EXTENDS PageObservation, TLC

CONSTANTS s1, s2, o1, o2

TwoSessions  == {s1, s2}
TwoObservers == {o1, o2}

(* No action or property names an observer or a session.                  *)
MCSymmetry == Permutations(TwoObservers) \cup Permutations(TwoSessions)
=============================================================================
