------------------------------- MODULE MCChecks -------------------------------
(* Instances of Checks for TLC. *)
EXTENDS Checks

(* the default, small limits at which the levels would meet, zero and below *)
Temps == {90, 20, 1, 0, -10}

(* around the levels of these limits *)
Readings == {-12000, -10001, -10000, -500, 0, 999, 1000, 17999, 18000, 19000, 19500, 20000,
             81999, 82000, 85999, 86000, 88999, 89000, 90000, 120000}

Thresholds == {-1, 0, 1, 2}
Errnos == {5}
=============================================================================
