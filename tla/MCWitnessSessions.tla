------------------------- MODULE MCWitnessSessions -------------------------
(* A small instance of WitnessSessions: two expected tests, one of them a  *)
(* raw twin with an observe-declared claim, and one unexpected test.       *)
EXTENDS WitnessSessions

CONSTANTS s1, s2, w1, w2, t1, t2, t3, passed, failed

TwoSessions   == {s1, s2}
TwoWorkers    == {w1, w2}
AllTests      == {t1, t2, t3}
MCExpected    == {t1, t2}
Twins         == {t2}
MCOutcomes    == {passed, failed}
=============================================================================
